# taskman: a TLA+ model of the terminal task manager

taskman (`src/`, C99, one binary for Linux, macOS and Windows) samples the
processes of its host, shows them in a terminal dashboard, and signals the one
the user selects. This directory holds TLA+ modules of that program, TLC runs
that check them on small instances, and TLAPS proofs of what matters most.

A property is stated here when a unit test would hardly reach what breaks it: a
key that is answered after the world has moved, a selection that must follow a
pid through filters and resizes, a counter that belongs to an earlier sample.

## 1. The system

### Components

| component | source | state it keeps | operations |
|---|---|---|---|
| dashboard loop | `src/src/taskman.c` `main`, 312-600 | `g_stop`, `g_sort_key`, `g_sort_rev`; `main`'s `opt` (filter, `filter_edit`, `selected_pid`, `scroll`, `confirm_kill`, `kill_force`, `banner`, rows) and `paused` | start-up, one pass of the loop, one branch per key, `on_stop` |
| process table view | `taskman.c` `cmp_procs`, `pid_at`, `clamp_view`, `move_sel`, `filter_add`, `filter_backspace`; the filter and positions in `render.c` | none | filter, sort, position of a pid, selection, scroll window |
| renderer | `render.c`, `render.h` | the frame buffer of one call, which has a cap | one frame, its lines and bytes; counts, rows per page |
| host collectors | `collect_linux.c`, `collect_darwin.c`, `collect_win.c`, `collect.h`, `snapshot.h` | `g_cpu_all`, `g_prev`, `g_primed`, `g_last_t` | `collect_init`, `collect_snapshot`, `collect_signal`, `collect_host_name`, `collect_shutdown` |
| terminal | `term.c`, `term.h` | saved and current mode | enter and leave raw mode, size |
| keys from bytes | `term.c` `term_poll_key`, `decode_csi`, `decode_win_special` | the eight bytes of one call; what the host has not yet delivered | one call: poll, read, decode |
| options and start-up | `taskman.c` `parse_interval`, `parse_sort`, `main` to the loop | none | one pass over `argv`, `NO_COLOR`, whether to print or to loop |
| Linux launch | `taskman.c` `linux_spawn_in_terminal` | `TASK_MANAGER_IN_TERM`, which tells the child not to launch again | fork, try terminals |
| text and clock | `util.c`, `util.h` | none | clamps, case-blind search, bounded copies, clocks, sleep |
| headless test | `taskmantest.c` | none | two samples and assertions |
| build | `Makefile` | none | none |

### How they interact

`main` is one thread. It calls the collector, the view, the renderer and the
terminal directly. The only concurrency is outside it:

* the system: processes start, exit and leave their pid to others at any moment,
  also between a sample, its frame and the answer to a question about it;
* signals: `on_stop` runs between any two instructions and sets `g_stop`; SIGHUP
  and, on Windows, a second ctrl-c end the program where it stands;
* the user, who sees the last frame only, and whose keys travel as bytes: one or
  several to a key, together or apart, ahead of the program or not;
* the window, which may be resized between its measuring and the frame;
* on Linux, the terminal that a program started from the desktop opens, in which
  the program starts once more.

A pass of the loop is: test `g_stop`; take the window's height; sample and sort,
unless paused, typing or asking; clamp selection and scroll; paint; erase the
banner that was painted; poll for a key with a timeout; test `g_stop` again;
handle one key. Everything from the test to the poll happens before the user
can react to it; everything after the poll reacts to what that pass painted.

### What is hard about it

* **Confirmed kills.** `k` asks and `y` answers, at least one pass later. In
  between there is another paint, there may be a resize, and processes come and
  go. Correct: a signal goes to the pid that was highlighted when the question
  was asked, as the last frame asks, and never without a question on the glass.
* **Selection.** The selection is a pid, the scroll offset an index, and the rows
  change under both. Correct: the selected row is in the filtered table and on
  the page, and only its own disappearance moves the selection.
* **Stale display.** A footer names the order, a banner the outcome of a kill, a
  prompt the target. Each is painted from state that later code changes.
* **Ending.** ctrl-c during the poll, before the loop, with a question open or
  typed as a key; a kill of the program's own row. Correct: the program ends and
  the terminal is as it was. A key whose handling has begun still takes effect.
* **Rates.** A percentage is the difference of two reads at two times. Reads
  fail one at a time, lists fail as a whole, pids are used again. Correct: a rate
  is what that process itself used since its own last row.
* **Bytes and keys.** Only the first byte behind an Esc is waited for. Correct: a user
  who waits for each key is understood, and no key is mistaken because of what
  was typed behind it.
* **Pace.** The poll's timeout is the loop's only clock. Correct: no command line
  leaves a loop without one, or with one that never comes.
* **Start-up.** The words of a command line may be options or values, and a launch
  may start a program that would launch. Correct: one start, one terminal, and
  none for `--once`.
* **The glass.** No frame clears the screen; a frame may be longer than the window,
  wider than it, or larger than its buffer, and a command line may hold newlines
  and tabs. Correct: nothing old stays, and the question and the selected row can be seen.
* **Limits.** The table has `SNAP_MAX_PROCS` rows, the filter a fixed buffer, a page
  at least one row, the frame buffer a cap.

`PROJECT.json` lists each hazard at its line with the properties about it, or a
note saying why none is.

## 2. The modules

| module | stands for | extends |
|---|---|---|
| `ProcView` | the process table view: operators on a set of rows, an order and a filter | |
| `TaskLoop` | `main` from the first sample to the end, with the host, its processes, signals and the user | `ProcView` |
| `ConfirmedKill` | what the kill keys promise, with four variables | |
| `Collector` | `collect_snapshot` of the three hosts and the kernel's counters | |
| `KeyChannel` | what a keyboard reader promises: each key once, as itself, in order | |
| `KeyInput` | `term_poll_key` and the keyboard in front of it | |
| `Startup` | `main` from the command line to the loop, and the launch in a terminal | |
| `Session` | `Startup` and `KeyInput` as one program | `KeyInput`; an instance of `Startup` |
| `Screen` | a live frame, its buffer, and the window it is written to | `ProcView` |
| `MCTaskLoop`, `MCCollector`, `MCStartup`, `MCSession`, `MCScreen` | the small instances for TLC | the module of the name |
| `ProcViewProofs` | theorems on order, places, selection and scroll window | `ProcView`, TLAPS |
| `TaskLoopProofs` | inductive invariant of `TaskLoop` and first theorems | `TaskLoop`, `ProcViewProofs` |
| `GlassProofs` | what the glass shows; `TaskLoop` implements `ConfirmedKill` | `TaskLoopProofs` |
| `ConfirmedKillProofs` | what `ConfirmedKill` allows at all | `ConfirmedKill`, TLAPS |
| `StartupProofs` | types, one terminal, `--once`, and the values of the options | `Startup`, TLAPS |
| `SessionProofs` | keys and pace; what `Startup` promises holds of a session | `Session`, TLAPS; an instance of `StartupProofs` |
| `CollectorProofs` | theorems on rates, headline and the flag | `Collector`, TLAPS |
| `ScreenProofs` | the frame fits; question and selection are on the glass | `Screen`, `ProcViewProofs` |

### ProcView

`procs[]` sorted by `qsort` is a set of rows together with the order it was last
sorted by. `Before` is the sign of `cmp_procs`: by the key, ties by memory and pid,
and the whole turned round for CPU and memory and by `r`, in the order of the code. Two
running processes have different pids, so `Before` leaves no two rows of one
sample tied and a set says as much as the sorted array (`OrderIsTotal` and
`EveryPlaceTaken`, section 4). Rows have the types of `Row`; a text is a sequence
of codes above 0, since a 0 ends it in C. `render_proc_matches` is
the filter, `View` the rows it lets through, `render_filtered_pos` and `pid_at` translate
between pids and positions, `clamp_view` and `move_sel` are the functions of those names.

### TaskLoop

Each pass is three steps, split where a signal or another process can make a
difference. `Iterate` is everything up to the poll. `Polled` is the return of the poll and
the test of `g_stop` behind it, `StopSeen` the same with the flag up. The key actions
are the rest, and begin only where the test let them (`Handling`); `on_stop` may run in
between, and the key then takes effect all the same: `AnswerYes`, `AnswerNo`,
`EditKey`, `Quit`, `Pause`, `SortBy`, `Reverse`, `EditFilter`, `AskKill`, `Move`, and
`Nothing` for a timeout or a key without a meaning. Each has the guard of its branch:
the question takes all keys first, then the filter, then the commands.
`Prime` and `Startup` are the first two samples and the way into the loop (or
the single frame of `--once`). `Stopped` and `Restore` are the way out.

The world's actions are `Spawn`, `Exit`, `on_stop`, `SecondInterrupt` and `Hangup`.
They may come between any two steps of the program.

A process is a record of identity: pid, start time, name, command, user and
memory. What changes between samples is `cpu_pct`, chosen anew from `CpuPcts`. A
sample lists all running processes, or as many as fit, or none when the
enumeration fails, which the code does not report. `collect_signal` is part of
`AnswerYes`: it delivers to the process that has the pid *now*.

Two variables are observations, not program state. `glass` is what the last frame
shows: highlighted pid, question, banner, order. `signalled` is the call of
`collect_signal` made by the last key, and whom it hit.

Strings are sequences of small numbers, because the filter's case-blind search
decides which rows exist. The rest of a row is left out.

### ConfirmedKill

The abstract specification has the highlighted pid, the question the program
has open, the question on the glass, and the signal sent by the last step. A
question may be opened about the highlighted pid only; painting puts it on the
glass; a signal may be sent only when the question open and the question on the
glass agree. `TaskLoop!Promise` instantiates it with `selected_pid`, `confirm_kill`
and `kill_force` as the open question and the glass of `TaskLoop` as the rest.

### Collector

The kernel is `Run`, `Idle`, `IdleSlips`, `Spawn` and `Exit`: clock ticks spent in a
process or idle, and, on Linux, an iowait counter that goes back.
`collect_snapshot` is one step with every combination of failing reads: `Collect`
when the processes can be listed, `CollectNothing` when they cannot. The three
hosts differ in which reads can fail and in what a row holds then (`ReadLinux`,
`ReadDarwin`, `ReadWindows`) and in how idle time is subtracted. Subtraction is
modulo `UINT64_SPAN`, as in C. `seen` and `slipped` are history variables for the
properties.

The collector's statics and the loop's variables have no operation in common
but `collect_snapshot`, so the loop uses a sample as a choice of rows and the
collector is checked on its own.

### KeyInput and KeyChannel

A byte is a record of its code, the press it belongs to and its place in it; the
program looks at the code only. `Press` and `Deliver` are the keyboard and the
link: "whole" puts all bytes of a press into the input at once, "split" one after
the other but within 30 ms of each other, "slow" at any distance. A "patient"
user presses a key when the program waits for one and nothing is under way.

One call of `term_poll_key` is several steps, split wherever it polls or reads.
`Call` enters it; `TimedOut`, `EndOfInput` and `ReadPlain` end it at once;
`ReadFirst` takes an Esc (or, on Windows, a byte 0 or 224) and goes on: to
`EscapeAlone` when 30 ms bring nothing, to `ReadSeq` and `Decode`, or to `ReadPair`. `Wait`
is the timeout as the host takes it: negative is for ever on Unix and no time
at all on Windows.

`KeyChannel` has the keys pressed and the keys reported. `KeyInput!Channel`
instantiates it with the presses as keys. `KeysAsTyped` says that `KeyInput`
implements it for a careful user: at a terminal, patient, with keys in one piece.

### Startup

A word of the command line is what it is as an option, what it says as a value,
and what the part behind its `=` says; each value is read as a number, as a
column and as text. One step of `main`'s loop over `argv` is `Flag`, `Attached`,
`Separate`, `Help` or `Unknown`. `Detached` is the test for a program without any
terminal; `Fork`, `Relaunch` and `NoTerminal` are `linux_spawn_in_terminal` and
what becomes of its child, which starts again with no words. `ParentReturns` is an
action of its own: parent and child go on in any order. A NaN is a constant that
compares with nothing; `Timeouts` says what its conversion to `int` may give.

### Session

The stages of `Startup`, then the calls of `KeyInput`. `Starting` hands over the
interval as the poll's timeout and the terminal as standard input. The 200 ms the
loop polls with while typing or asking are a finite timeout like any other. What
the loop does between two calls is `TaskLoop`'s affair and one step here.

### Screen

Lines are counted, not spelt. `paint` is a sequence of blocks of equal lines, each
with its glyphs (which decide how many rows of the window it takes) and its bytes
(which count against `FRAME_CAP`). `Texts` is what the rows of a list say, alike in all
of them: the digits of the pids and what other fields need beyond their columns
(`%6d`, `%9s`, `%4u` are minima: `Excess`), the bytes of the names, and the newlines and tabs
among them, which `read_cmdline` keeps. The sizes in the header have six digits, Unicode
and all colours. `Written` is the terminal: the lines
that fit are those behind the first `lost` rows, because every line has a newline
behind it and the last one scrolls too. A line of the program's own erases the rest of
its row before that newline; a newline or a tab within a command line does not
(`Ragged`), and what an older frame said there stays. `Measure` is the
pass up to the frame, `render_dashboard` the frame, `Resize` the user in between.

The host's name, the filter (which takes bytes 32 to 126 only, unless it came with
`--filter`) and the users are taken to be printable, and so are command lines but for
newlines and tabs: a carriage return or an escape sequence in one does on the glass
whatever the terminal makes of it.

## 3. The runs

| run | instance | shows |
|---|---|---|
| `loop_kill` | 4 processes, one pid used twice, the program in its own table, Linux and Windows, ctrl-c and hangup at any point | `ConfirmTarget`, `OutcomeShown`, `Shutdown`, `KillsAsPromised` |
| `loop_view` | 4 processes, rows equal in CPU and memory, pages of one and two rows, all movement, filter, sort and pause keys | `TypeOK`, `SelectedVisible`, `LabelMatchesOrder`, `SelectionSticky` |
| `collect` | 3 hosts, a pid used twice, a table of one row, failing lists and reads | `TypeOK`, `PrimedMeansRates`, `TruncatedHonest`, `OwnRates`, `HeadlineSound` |
| `loop_reuse` | violated: `SignalsTheRow` | a process exits behind its row, another takes the pid, and `y` signals that one, which no row shows |
| `loop_hangup` | violated: `ClosingRestores` | SIGHUP ends the program without restoring the terminal |
| `collect_lost_list` | violated: `NoImpossibleRate` | after a failed list a rate is two intervals of work over one of time |
| `startup` | command lines of up to three of twelve words, all mixtures of terminals, Linux and macOS | `TypeOK`, `OptionsAsGiven`, `LaunchOnce`, `OncePrints`, `Settles` |
| `session` | two presses of five keys, three links, two kinds of user, Linux and Windows, intervals -1 and nan | `TypeOK`, `SpecialKeysSurvive`, `Paced`, `KeysAsTyped`, `KeysRead`, `Refreshes` |
| `screen` | eight windows, four lists, rows short, full, one glyph too wide, and far too wide with newlines and tabs, early and late wrapping | `TypeOK`, `NothingStale`, `QuestionVisible`, `SelectedOnGlass` |
| `key_leftovers` | violated: `LeftoversIgnored` | of the nine bytes of three arrows in one burst a call takes eight, and the last, `C`, is read as a key |
| `screen_paused` | violated: `PausedShown` | the title, which says `PAUSED`, scrolls off every window of up to 90 rows |
| `screen_narrow` | violated: `SelectedKept` | at 50 by 18 rows wrap and the first ones, the selected one among them, are off the glass |

The violated runs state a sentence of the repository's documentation or headers;
the findings in `PROJECT.json` quote it and the code it disagrees with.

Six more sentences differ from the code, plainly enough to need no run:
EXECUTION_FLOW.md:93 says ties end with "PID ascending" where `cmp_procs`
negates the whole comparison (`taskman.c`, 196); `snapshot.h`:48 says `truncated` is
"1 if process_count > SNAP_MAX_PROCS" where a Linux process that vanishes before its
stat file is opened is counted and not flagged (`collect_linux.c`, 367);
`snapshot.h`:30 says `readable` is "0 if the host could not open the task" where macOS
clears it for zombies only (`collect_darwin.c`, 298); `render.c`:34 says of a live frame
"1: \x1b[K before newline so leftover glyphs vanish" where a newline or a tab in a command
line, which `read_cmdline` keeps, erases nothing (`collect_linux.c`, 260, and `render.c`, 317);
`render.c`:350 says "Stay off the wrap column." where a pid of seven digits makes a full
row as wide as the window (`render.c`, 290); and README.md:17 says "quits on `q` or Ctrl+C
without leaving the terminal in raw mode" where on Windows a second ctrl-c right after the
first meets no handler (`SecondInterrupt`; `taskman.c`, 383).

### Bounds, and why they are enough

* *Processes*: four, at most three rows at once. Selection, scroll and order only
  compare rows; three rows with pages of one and two give a page above, a page
  below, a first, a middle and a last row. One pid with two tenants is what
  reuse needs. One process is never killable, one is the program itself.
* *Heights* 12 and 11: ten lines of the frame are fixed, so pages have two rows and one,
  and a resize changes the page. The kill run needs no resize and has one height.
* *Hosts*: Linux and Windows in the kill run; macOS differs from Linux in nothing the
  loop can see. The view does not depend on the host. All three in the collector.
* *Keys*: one of each branch. `MCTaskLoop` leaves out the upper-case twins and
  letters that only repeat a branch.
* *Filter* of one character: matching, non-matching and empty filters, and a buffer
  that is full after one key, all occur.
* *CpuPcts*: two values in the view run, so that a refresh reorders rows, and one
  in the kill run, where order does not matter.
* *Table*: three rows in the loop runs; with up to four processes running it is
  also full. One row in the collector runs, so a second process is left out.
* *Clock* 3: two ticks lie between the first and a last read, enough for a lost list
  between two good ones; `UINT64_SPAN` only needs to exceed every product formed.
* *Command lines* of three words from twelve: an option whose value looks like an
  option, an option given twice, a value that is missing, too small, too large,
  too long or no number, and an error before or behind a `--help`, all occur. The
  filter has three bytes there, so a text of three must be cut.
* *Presses*: two of five keys (an Esc, a plain key, sequences of three, four and six
  bytes). What a call reads depends on what is behind its first byte, seven bytes
  at most, and two presses give up to twelve. `key_leftovers` has three of three bytes.
* *Windows*: the floor, the size a comment of `term.c` names, the narrowest that
  holds a row, the usual one, one that shows command lines, the largest, one beyond both
  ends, and one whose size is unknown. A resize goes from any to any. Lists are empty, of
  nearly a page, or long, with the selection first, in the middle or last.
* *Texts*: the shortest row; the longest with every field in its column; the longest with
  a pid of seven digits, which fills the window; and the longest possible, with newlines
  and tabs. The filter is at its longest. The proofs cover all other lengths.

### Fairness

`TaskLoop`: `WF_vars(Program)` and nothing else. The program never waits without a
timeout: `term_poll_key` gets at most the interval, so the loop keeps taking steps.
`Program` as a whole is fair, not its keys: the user need never press one. The
world owes nothing. `Shutdown` starts from `g_stop`, which no step takes back, and
allows the two ways a program is killed from outside. (`--interval nan` would break
the timeout; that is the exception `Refreshes` and `KeysRead` of `Session` name.)

`Startup`: `WF_vars(Next)`: the program and its child wait for nothing here but a
sleep and an `exec`. `Settles` rests on it. `Session`: weak fairness of the program's start (`Starting`), of the
program's steps (`During(Program)`), and of the link (`During(Deliver)`: a byte that
was sent arrives). The user owes nothing, and an input need not end. A poll
that waits for ever has no step to take until a byte is there, so fairness does
not wake it. `KeysRead` is that what is in the input is read in the end, `Refreshes` that each call comes to its end.

## 4. The proofs

All theorems hold for every value of the constants, under the assumptions the
modules name; TLC evaluates these in the runs.

| module | theorem | states |
|---|---|---|
| `ProcViewProofs` | `OrderIsTotal` | `cmp_procs` is a strict total order on rows of distinct pids |
| | `EveryPlaceTaken` | each index of the list is the place of exactly one row |
| `TaskLoopProofs` | `TypeCorrect`, `ConfirmTargetHolds` | `TypeOK`, `ConfirmTarget` |
| `GlassProofs` | `LabelMatches`, `OutcomeIsShown`, `SelectionIsSticky`, `SelectionIsVisible` | `LabelMatchesOrder`, `OutcomeShown`, `SelectionSticky`, `SelectedVisible` |
| | `ImplementsConfirmedKill` | `KillsAsPromised`: `TaskLoop` implements `ConfirmedKill` |
| `ConfirmedKillProofs` | `PromiseMeans` | what `ConfirmedKill` allows |
| `StartupProofs` | `TypeCorrect`, `OneTerminal`, `OnceNeverLaunches`, `OptionsAreGiven` | `TypeOK`, `LaunchOnce`, `OncePrints`, `OptionsAsGiven` |
| `SessionProofs` | `KeyTypes`, `LoopIsPaced`, `KeysSurvive`, `KeysComeAsTyped` | `TypeOK`, `Paced`, `SpecialKeysSurvive`, `KeysAsTyped` |
| | `SessionStarts`, `SessionOptions` | `Session` implements the safety part of `Startup`, and `OptionsAsGiven` holds of it |
| `CollectorProofs` | `CollectorTypes`, `RatesWhenPrimed`, `FlagIsHonest`, `RatesAreOwn`, `HeadlineIsSound` | `TypeOK`, `PrimedMeansRates`, `TruncatedHonest`, `OwnRates`, `HeadlineSound` |
| `ScreenProofs` | `ScreenTypes`, `NothingIsStale`, `QuestionIsVisible`, `SelectionOnGlass` | `TypeOK`, `NothingStale`, `QuestionVisible`, `SelectedOnGlass` |

### The view

`OrderIsTotal` has to look inside `name_cmp`, which folds two names as long as both
last and subtracts the raw next characters after that. The proof pads a name
with zeros behind its end and shows that `name_cmp` is the order by the first place
where two padded names differ; that is transitive because a 0 is less than any
character of a name, which is why `Text` has none. Whether the column decides or memory
and pid do, and however often the sign is turned round, the result is one
lexicographic order or its reverse. So `qsort` has one outcome, an index grows with
the order (`IndexFollowsOrder`), no two rows have one index, and as there are as many
indices as rows, none is left over (`EveryPlaceTaken`). This is what allows the
modules to keep a set and an order for the array.

### The loop

The theorems rest on `ProcsAssumption` (processes are a finite set of records and the
program is one), `InputAssumption` (heights are what `term_size` clamps to, filters fit
their buffer, sort arguments are sort keys) and `HostAssumption`.

`TypeOK` and `ConfirmTarget` are not inductive: nothing in them says that the row
`k` asks about is listed, or that the first frame cannot meet an open question. The
invariant `IInv` adds that while the program waits for a key the selection is a row
of the filtered table or none (`SelectionListed`, which `clamp_view` establishes in
every pass), and that nothing is asked before the loop (`AskedInLoop`). An open
question stops sampling and typing, so the table cannot lose the row it is about.

A second invariant, `GInv`, is about the waiting loop: what the glass shows is what
the variables say, a signal that was just sent has its outcome in the banner or on
the glass, and the table stands in the chosen order. Lemmas on the view carry it: an
index is below the count of rows, the window `clamp_view` computes contains the
selected row's position, and therefore a selected row is painted (`SelectedPainted`).

`SelectionIsVisible` needs a third, `DInv`: running processes have distinct pids
(`RunningDistinct`: a pid is given again only when its holder is gone), therefore the rows of a
table have (`RowsDistinct`: a table is of one moment), and a wait begins with a
selection whenever a row is listed (`SelectionThere`). The last part is where
`EveryPlaceTaken` comes in: if the selected pid has gone, `clamp_view` takes the row at
index 0, and there is one.

`ImplementsConfirmedKill`: initial states map to initial states; `AskKill` is the
abstract question, because the glass highlights the selection (`GInv`); `Iterate` is the
abstract painting, because `clamp_view` does not move the selection under a
question (`IInv`); `AnswerYes` is the abstract answer, because the pass before it
painted the open question; every other step is a withdrawal or leaves the four
values alone. `PromiseMeans` shows what that buys: in every step that sends, the
pid was highlighted and the glass asked for exactly that signal.

### The start

Command lines are sequences of words, the filter's buffer has room for its terminator,
and a NaN is no integer (`StartAssumption`). `TInv` adds to the types that a terminal was
opened exactly when the instance knows of it, which gives `OneTerminal`.
`OnceNeverLaunches` needs the parser: the property says which words are values by the
parity of the options right before them, the program finds out by walking.
`RunBegins` and `RunAlternates` are the two steps of that walk; `OnceInv` says that
the program always stands before a word that is no value and has heeded every
`--once` it passed.

`OptionsAreGiven` says the same of every option, and that the last of several counts.
`GivenInv` is `OptionsAsGiven` of the words passed so far: each option has the value of
the last word *before this one* that gave it, or its default, and no word that
stops the program has been passed. A step passes one word or a word and its value
(`Passes`), so the last word that gave an option is the one just passed or the one it was.
Behind the last word `GivenInv` is the property.

### The session

`SessionProofs` takes an instance of `StartupProofs`, so that what is proved of the start
holds of a session once its steps are shown to be those of `Startup` or none of its
business (`SessionStarts`). `LoopIsPaced` uses that: the interval is a NaN or lies within
the bounds of `parse_interval` (`IntervalRead`), so the timeout is finite, and a
call that is not interrupted by a byte ends in its timeout (`PaceInv`).

What the keyboards may send is `PressAssumption`: one byte for a character, an Esc alone, one
of the sequences of the cursor keys, or another sequence of at most eight bytes
that is not taken for one of them, and what the Windows console returns in their
place. Characters beyond ASCII, which send several bytes, and longer sequences are left
out; `key_leftovers` shows what becomes of bytes behind the eighth.

`KeyTypes` bounds the bytes read behind an Esc by their buffer. For `KeysSurvive` the
invariant is `Chain`: where the link is whole, what has been read and what can be read
is a chain of presses, each byte followed by the rest of its press, except that
a press may have lost its beginning to the call before. A call that reads the first byte of a press
therefore finds the rest behind it. `KeysComeAsTyped` adds
`OneAtATime`: a careful user has at most one press under way, so the chain is that
press and nothing is behind it.

### The collector

`CInv` is the types and that no sample is from the future. `RatesAreOwn` rests on `EntriesOwned`: every entry
of the previous tick with a start time is the last row of the process that started then,
with the counter it had, or with 0 where macOS did not read it. A start time of 0, which
Windows keeps for a process it could not read, identifies nobody. A lookup that
compares pid and start time finds the process itself or nothing. `HeadlineIsSound` rests on
`Ticks`: the counters last read are not ahead of those of the host, and unless idle
time slipped back, no more ticks were idle than passed. The assumption that
`UINT64_SPAN` exceeds a hundred times the greatest clock is that of the C code, whose
products fit 64 bits.

### The glass

`ScreenAssumption` gives the texts the sizes of their buffers: names of 127 bytes,
filters of 47, host names of 255; pids have up to ten digits and the other fields of a
row run at most 40 glyphs over their columns. Newlines and tabs may be as many as one
likes. A frame is fifteen blocks of lines whatever it shows
(`PaintIs`). `UpToSums` says that the running totals of fifteen numbers are their
sums (for fifteen, not for any number: that would be induction over data). Added up, the bytes
of a frame are 32000 at most (`BytesAddUp`), less than `FRAME_CAP`, so no line is cut
and the sequence that erases what is below the frame is written. A frame of plain
rows therefore leaves nothing, whatever was there before: `NothingIsStale`. It says nothing
of a frame whose own command lines hold newlines or tabs, which does leave something.

A line shorter than k widths of the window takes at most k rows (`RowsOfBound`, on
terminals that wrap early or late). Status and footer take five rows at most in a window of
40 columns or more, so they survive when the top of the frame scrolls away:
`QuestionIsVisible`, also for a window that changed after it was measured and under any
rows. Where the fields of a row keep their columns, a row is shorter than the window by
one glyph, which is the glyph a terminal that wraps late can spare (`RowsOnce`). Then what is written from the selected row to the end takes no more
than a page and five rows, and `ClampScrollShows` places that row on the page:
`SelectionOnGlass`. `SInv` joins these to the types; that the page shows the selection
is an invariant between measuring and writing only (`Scrolled`), since nothing keeps it
afterwards.

### What is checked by TLC only

* `Shutdown`, `Settles`, `KeysRead` and `Refreshes`: liveness is out of the provers' reach.
* The violated properties, which are false.
* That `View` finds what a reader of the filter would call a match, and other
  questions about what a search over text computes for every text, which take an
  induction over data; the runs evaluate the filter on small texts.

## 5. Not modelled

* *Renderer*: colours, `--ascii`, the fill of a bar, the unit of a size, and `render_once`,
  which writes the same lines without erasing anything.
* *Terminal*: the separate modes of a Windows console, and whether it sends escape
  sequences although the program decodes pairs; `ctrl-z`, which stops the program with
  the terminal raw and gives it back to a shell that has its own modes.
* *Collectors*: host identity and memory totals keep no state and are clamped in
  place; names, users and commands are copied; the split of `/proc/<pid>/stat` at its
  parentheses is a matter of characters.
* *Control characters* in texts, other than newlines and tabs in command lines.
* *Text*: `util_format_bytes` is formatting. The clock and the sleep belong to the host.
* *Processes* other than by signal: children, threads, stopped processes.
* *Build*, and the test program except for its two samples.

## 6. Plan

Done: the loop, the view, the promise of the kill keys, the collectors, bytes and
keys, options and launch, the frame on the glass, and a theorem for every safety
invariant, action property and refinement that a passing run checks.

What is left is small:

1. a theorem that a move by n rows selects the row n places further, or the first or
   last one, from `EveryPlaceTaken` and `IndexFollowsOrder`;
2. a reference definition of the case-blind search, to check `util_str_has_icase`
   against on bounded texts;
3. the memory totals of the three hosts.
