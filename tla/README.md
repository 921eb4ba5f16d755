# TLA+ models of the BFS benchmark post-processing scripts

This directory holds TLA+ models of the scripts under `src/benchmarks/`. The
scripts turn raw benchmark output into plots. It also holds the TLC
configurations that check the models on small instances, and TLAPS proofs of
their main invariants.

## 1. The system and its parts

The repository has no long-running process. It is a set of batch scripts, each
of them single-threaded. The part that carries state across steps and across
runs is the filebench micro pipeline:

1. `split.py` (`src/benchmarks/new_bench/split.py`) does the following:
   - It globs the combined logs in `o/filebench-directio/tmp/`. Each log holds
     several filebench runs.
   - Each run starts with a `[Run params: <fs>-<op>-<iosize>-nc1-ncseq1]`
     header.
   - For every header it searches for the next header, renames the fs type
     (lines 53-60) and builds a file name `<op>_1_<iosize>_<fs>_1.log`.
   - Unless that file already exists (line 66), it writes the slice
     `data[first_line:last_line]` to it.
   - The per-run files persist, and a rerun of the script finds them.
2. `plot_micro()` (`src/benchmarks/new_bench/plot_micro.py`, lines 514-666)
   does the following:
   - It globs the per-run files.
   - It skips `bench*` and `nfsg` files.
   - It derives the dict keys from each file name: the workload is the first
     `_` part, `fs_type` is the first of `fs_types` that occurs in the name,
     and the I/O size is the fourth part from the end, labelled `K` or `M`.
   - It searches for the throughput record, then the open, close and fsync
     records. The first record that is missing ends the file (`continue`).
   - It stores each value into the dicts `res`, `res_open_lat`,
     `res_close_lat` and `res_fsync_lat`, which start at 0.0.
   - An unknown `fs_type` (None) or workload raises KeyError. A non-numeric
     size raises ValueError.
   - The dicts then become DataFrames and plots. That part is rendering.
3. Other scripts aggregate CSV or log samples:
   - `parse_micro_results.get_tp` fans in the per-client throughputs: it takes
     the per-client mean, sums across clients, then averages across trials.
   - `parse_macro_results.get_util_lats` averages.
   - `plot_macro.py` scans the macro logs for markers.
   - `plot_x_vs_y` reads fio JSON results.
   - The remaining scripts read one CSV into pandas and plot it.
4. The bfsdev JSON-RPC pair (`src/scripts/`) does the following:
   - `bfsdev_ctrl.py` binds a `pyjsonrpc.ThreadingHttpServer` on port 8080 and
     runs `serve_forever()`. Each accepted request runs `dev_control` in its own
     non-daemon thread, and `dev_control` returns `"text "` whatever its argument.
   - `bfsdev_command.py` calls `dev_control(1)` twice and prints each result.
     It sets no timeout and never retries. A refused or reset connection
     raises and ends the run.

The two scripts of the micro pipeline interact only through the directory of
per-run files. The model composes them in exactly that way.

## 2. Modules

| Module | Models | State | Actions |
|---|---|---|---|
| `SplitLog` | `split.py`, the whole script | `logs` (combined logs, chosen in Init), `pending` (files of the glob not yet done), `cur`, `i` (the `for i` loop), `written` (files on disk), `out` (their contents), `pc`, `crashes` | `OpenFile` (lines 32-34), `SkipLine` (36-38), `SplitAt` (40-70: search, rename, name, exists check, write), `CloseFile`, `Finish`, `CrashWriting` (a kill during `writelines`, which leaves a prefix of the slice), `Rerun` (the user runs the script again) |
| `MicroPipeline` | `split.py` followed by `plot_micro()` lines 514-666 | SplitLog's state, plus `todo` (files of the glob not yet read), `res` (the four dicts, keyed by `<<workload, fs_type, label>>`) and `ppc` | `SplitStep` (any SplitLog step, before plotting), `StartPlot`, `SkipFile`, `RecordFile`, `FailFile` (KeyError or ValueError), `PlotDone` |
| `SplitLogProofs` | TLAPS proofs about `SplitLog` | | |
| `MicroPipelineProofs` | TLAPS proofs about `MicroPipeline` | | |
| `BfsDevRpc` | `bfsdev_ctrl.py` and any number of runs of `bfsdev_command.py` | `srv` (down, bound, serving, stopping after Ctrl-C, dead), `backlog` (the kernel's listen queue, a sequence of clients), `conn[c]` (none, queued, busy in a thread, answered, reset), `resp[c]`, `cpc[c]` (send, wait, done, raised), `printed[c]` | server: `StartServer` (lines 14-20), `ServeForever` (23), `Accept`, `Handle` (6-11, one thread per request), `Interrupt` (Ctrl-C), `Exit` (the interpreter joins the busy threads, then the kernel resets the queued connections), `Kill`; client: `Connect`, `Refused`, `ConnectTimeout` (the backlog is full), `Receive` (the print of line 11 or 16), `Reset` |
| `BfsDevRpcProofs` | TLAPS proofs about `BfsDevRpc` | | |
| `MCSplitLog`, `MCMicroPipeline`, `MCBfsDevRpc` | the small instances TLC checks | | |

How the data is abstracted:
- A log line is a record `[kind, cfg]`:
  - `kind` is `hdr` (a `Run params` line), `op` (the read or write record),
    `open`, `close`, `fsync` or `other`;
  - `cfg` is the run that printed the line, a ghost field.
- A value read from a record is represented by the run it came from.
  - This is what lets the properties ask whether a number landed in the right
    cell.
- A file name is the sequence of its `_` parts.
  - A size is the digit string of the header.
  - `int()` is the constant function `IntOf`.
- Python slicing and index arithmetic are kept exactly:
  - `data[first:last]` is `SubSeq(s, k, LastLine(s, k))`, with
    `LastLine = next header - 2` (1-based), or 0 when there is no later header;
  - `split("_")[-4]` is `n[Len(n) - 3]`;
  - `// 1024` is `\div 1024`.

## 3. Runs

| Run | cfg | Expect | Shows |
|---|---|---|---|
| split_safety | `MCSplitLog.cfg` | pass | `TypeOK`; `NoForeignLines`: every written file is a prefix of the lines of one run whose header names it, crashes included; `SplitLog`'s exists check and the end of the script are not checked separately: the first restates the guard of `SplitAt`, and the script ends by construction (every loop is over a finite list). 1,753,648 states. |
| split_whole | `MCSplitLog_whole.cfg` | violation | `RunsSplitWhole` fails: without crashes, files are not the whole runs. |
| split_torn | `MCSplitLog_torn.cfg` | violation | `NoTornOutput` fails: a torn file survives the rerun. |
| pipeline_safety | `MCMicroPipeline.cfg` | pass | `PTypeOK`; `CellsFromOwnRun`: every non-0.0 value in the dicts comes from a run of the logs whose workload, renamed fs type and size match its cell. 14,504 states. |
| pipeline_reported | `MCMicroPipeline_reported.cfg` | violation | `EveryRunReported` fails: a run of a workload and fs type the dicts have keys for, which printed its throughput, is plotted as 0.0. Runs of other fs types (`ext4`) are left out, since `plot_micro()` never reports them. |
| pipeline_mib | `MCMicroPipeline_mib.cfg` | violation | `CellsFromOwnRun` fails for a 1 MiB run, which is labelled `1024K`. |
| rpc_safety | `MCBfsDevRpc.cfg` | pass | `TypeOK`; `ClientsTerminate`: every client run ends, having printed both replies or raised, whatever Ctrl-C or kill does to the server. 3,149 states. |

The findings of the violation runs are in `PROJECT.json`:
- `split.py:46`: the slice drops the line before the next header, and the last
  run of a log is written empty.
- `split.py:66`: torn files are never repaired, against the atomic per-file
  commit of spec section 5.
- The lost records show up as 0.0 cells in the plot.
- `plot_micro.py:581`: `> 1024` should be `>= 1024`.

Every property of a passing run has a mutant that TLC refutes. They are
listed in `PROJECT.json`, and each is a change a programmer of these scripts
could make:
- a dropped rename;
- a slice end one line too far;
- the whole record stored instead of its field;
- sizes labelled with 1000 instead of 1024;
- for the client script: a reset connection taken for a reply, and a refused
  call retried until the server is up instead of raised.

Bounds, and why they are enough:
- Every split choice is reached, because the bounds cover the following:
  - two combined logs of one or two runs;
  - two fs names, one renamed and one kept;
  - two sizes, so that two runs of different sizes share a log;
  - a body with every record and one with none;
  - one crash.
- The same run name occurs in both logs, so the glob order matters.
- A crash can happen before any file or after some.
- The pipeline instance uses one log with these bodies:
  - all four records;
  - the throughput record only, which exercises the `continue` chain;
  - none.
- It uses an fs name that `plot_micro()` does not know (`ext4`), which
  exercises the KeyError path and the wrong size part.
- Longer logs only repeat these cases.
- The RPC instance has three clients and a backlog of one, not the real five.
  With this instance a full backlog, a connect timeout, and a Ctrl-C or kill
  with both a queued and a busy connection are all reached. A larger backlog
  only delays the full case.

Fairness:
- `Spec` of SplitLog and `PSpec` have no fairness: they are only checked for
  safety.
- `Spec` of BfsDevRpc has weak fairness per client, for the steps of a run
  that need nothing from the user. It also has weak fairness for each request
  thread, for `serve_forever`'s loop and accept, and for the exit after
  Ctrl-C. These are threads of a running process that block on nothing once
  enabled.
  - Starting, interrupting and killing the server are the user's choice, and
    get no fairness.
  - The connect timeout gets no fairness either, because the kernel need not
    fire it while the server may still accept.
- `CHECK_DEADLOCK FALSE` is set because the scripts really stop: in `done`, and
  in `error` after an exception.

## 4. What is proved

`SplitLogProofs.tla`, checked by `tlapm` for every value of the constants that
satisfies the ASSUMEs of `SplitLog` (`MaxCrashes \in Nat`,
`NoFile \notin Files`, `LogChoices \subseteq Seq(Line)`), proves two theorems:

- `TypeCorrect`: `Spec => []TypeOK`.
  - It rests on the lemmas `SliceType`, `SegmentType` and `NameInNames`, and
    on `CutBounds`, which bounds `LastLine` between 0 and the end of the run.
- `NoForeignLinesHolds`: `Spec => []NoForeignLines`.
  - `NoForeignLines` is not inductive alone. The proof uses
    `IInv == TypeOK /\ NoForeignLines`, because the step that writes a file
    needs the type of `logs`, `cur` and `i`.
  - The central lemma, `SliceInSegment`, says that the slice written at line 68
    is a prefix of the run that begins at the header.
  - A torn write is a prefix of that slice, and a prefix of a prefix is a
    prefix (`PrefixOfPrefix`).
  - Files already written keep their witness, since `logs` never changes.
  - `FirstOfIsLeast`, proved with `WFMin` of WellFoundedInduction, gives the
    least later header that the search of lines 44-47 finds.

`BfsDevRpcProofs.tla` proves `TypeCorrect`: `Spec => []TypeOK`, for any set
of clients, any backlog size in `Nat \ {0}`, and any `NoReply` other than the
answer.
- It rests on `IInv == TypeOK /\ RequestAccounting`, where `RequestAccounting`
  (defined in the proofs module) is the bookkeeping of the connections between
  the clients, the kernel's backlog and the request threads. It is needed
  because `Receive` keeps `printed` well typed only because an answered
  connection has `resp = dev_control(1)`, and `Accept` and `Connect` keep the
  backlog's bookkeeping only because the backlog has no duplicates.
- The proof splits by action. Under `Accept` it relates `InBacklog` before
  and after `Tail`, and under `Connect` before and after `Append`.
- `DevControl` is left unexpanded in these proofs. The answer is only known
  to differ from `NoReply`.

`MicroPipelineProofs.tla` proves two theorems:
- `PTypeCorrect`: `PSpec => []PTypeOK`. It uses the lemma `KeepsWritten` of
  `SplitLogProofs` (a step of split.py never removes or changes a file on
  disk), because the files left to read stay on disk, and `ValueType`, because the search of
  lines 594-666 finds a line of the file.
- `CellsFromOwnRunHolds`: `PSpec => []CellsFromOwnRun`, for every input
  that satisfies `WellFormedNames`.

`CellsFromOwnRunHolds` rests on one assumption of the model and one
hypothesis of the theorem:
- The assumption is `LinesOfRunAssumption` in `MicroPipeline`. Every line from
  a header to the next one carries the header's run in its ghost field. This
  is what the ghost field means, and TLC evaluates it on every pipeline run.
- The hypothesis is `WellFormedNames`, on the constants:
  - no workload or size string is one of the tokens of `fs_types` (`bfs`,
    `nfs`, `ne`, `ci`, `we`);
  - every fs name, once renamed, is one of `fs_types` or contains none of
    these tokens;
  - no size is in the range where `size // 1024` is exactly 1024.
- The constants of `pipeline_safety` satisfy `WellFormedNames`. Those of
  `pipeline_mib` break only the size condition, which is why that run finds
  the violation: the hypothesis draws exactly the line the finding at
  `plot_micro.py:581` shows.

The argument uses `PIInv`, which is:
- `PTypeOK`;
- `logs \in [Files -> LogChoices]`;
- `NoForeignLines`;
- `CellsFromOwnRun`.

`CellsFromOwnRun` alone is not inductive. `RecordFile` needs the file it
reads to be a prefix of the run that named it, which is `NoForeignLines`.
That fact is kept by split.py's steps, through `NextIInv` of
`SplitLogProofs`. The lemmas are:
- `ValueFromRun`: the value read is the cfg of that header.
- `KeyOfName`: lines 570-584 parse `Name(c)` back into `RunKey(c)` whenever
  the parse succeeds.
- `NameParts` and `MapFsType`: what the name of lines 62-64 is made of.

Notes on the provers:
- The SMT backend cannot encode some string literals, for example the
  `"text "` of the RPC handler.
- The provers cannot show that a string literal is in `STRING`.
- For these reasons, `DevControl` stays unexpanded in `BfsDevRpcProofs`.
- `NameParts` and `MapFsType` are stated over an arbitrary set of parts
  rather than `STRING`.

Only model-checked:
- `ClientsTerminate` is liveness under fairness, which
  TLAPS does not handle.
- `CellsFromOwnRun` on inputs outside `WellFormedNames`. There it fails,
  which is the `pipeline_mib` finding.

## 5. Not modelled, and the plan

- Modelled: `split.py`, and `plot_micro()` up to line 666.
- Not modelled, because it is rendering: DataFrames, plots, styling and
  `plot_utilities.py`.
- Modelled: the bfsdev RPC pair, down to the kernel's listen backlog.
- Not modelled: the HTTP and JSON-RPC encoding and the basic-auth header.
  They are formatting, and the server ignores the credentials.

The plan for the next sittings, in order:
1. A property for the partial row left by the `continue` chain of
   `plot_micro.py:634`.
2. `FanIn`: `parse_micro_results.get_tp` and `parse_macro_results`:
   - the per-client means and the NaN-skipping `sum(axis=1)`, against an
     abstract Mode B specification (spec section 4.3: a trial counts only when
     all clients are present), by refinement;
   - the `1e3` size labels.
3. `MacroScan`: the marker scan of `plot_macro.py` and the stale-token
   fallback.
4. `FioResults`: the filter, the path parsing and the `seen` set of
   `plot_x_vs_y` (`plot_micro.py` 1500 and up, mirrored in `plot.py`).
