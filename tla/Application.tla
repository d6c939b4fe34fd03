---------------------------- MODULE Application -----------------------------
(***************************************************************************)
(* The life of the process (main.rs): the commands check and run, the      *)
(* authority keys they share on disk (keys.rs), the dashboard, the pool    *)
(* with its start and its shutdown (PoolSv2), and the ways to stop it:     *)
(* signals, Ctrl+C read from a terminal, a failure of the pool.            *)
(*                                                                         *)
(* main and the pool are tasks of one runtime and interleave at every      *)
(* await; between the flags and the notification of PoolSv2 they do so at  *)
(* every access, for they run on different threads.  tokio::select! drops  *)
(* its other branches before the handler of the one that is ready runs.    *)
(* A read of the terminal is a blocking call on a thread of its own, which *)
(* nothing can cancel: it stays when the task that asked for it is gone,   *)
(* takes the next bytes, and holds up the end of the runtime.  Once a      *)
(* handler for signals is installed it stays, and a signal to which nobody *)
(* listens at that moment is lost; before, a signal kills.                 *)
(*                                                                         *)
(* The pool is here only what the process sees of it: whether it waits for *)
(* the first template, listens, stops; its parts are other modules.        *)
(***************************************************************************)
EXTENDS Naturals

CONSTANTS
  None,        \* no keys
  Absent,      \* the key file is not there
  Partial,     \* it is not whole
  MaxRuns,     \* bound: processes, one after the other
  MaxEvents    \* bound: signals, keys pressed, changes of Core's socket

ASSUME ApplicationAssumption ==
  /\ {MaxRuns, MaxEvents} \subseteq Nat
  /\ {None, Absent, Partial} \cap Nat = {} /\ Absent # Partial

VARIABLES
  config,     \* [ui].enabled; what stdin is; how [bitcoin_core] names the socket
  keyFile,    \* authority-keys.toml
  socket,     \* whether Core's IPC socket is there
  proc,       \* the command, where it is, its keys, whether the socket was there
  runtime,    \* MiningRuntimeStatus
  waiting,    \* wait_for_shutdown: polled, and what it has heard
  signals,    \* whether handlers are installed
  terminal,   \* its mode, the mode to restore, blocking reads under way
  pool,       \* PoolSv2 and the task of its start
  told,       \* history: the keys that the first run told to miners
  runs, happened

envVars == <<config, runs, happened>>
vars == <<config, keyFile, socket, proc, runtime, waiting, signals, terminal, pool,
          told, runs, happened>>

Config == [ui : BOOLEAN, stdin : {"tty", "eof"}, named : {"data_dir", "sock", "other"}]

\* resolve_ipc_socket_path of pool_config.rs and its counterpart in the pool:
\* the pool takes a configured path that does not end in .sock for a data
\* directory, in which there is no socket.
AppSocketExists == socket
PoolSocketExists == socket /\ config.named # "other"

NotWaiting == [listening |-> FALSE, heard |-> FALSE]
NoPool == [pc |-> "none", result |-> "ok", token |-> FALSE, alive |-> TRUE,
           awaited |-> FALSE, notified |-> FALSE, template |-> FALSE]
Cooked == [mode |-> "cooked", original |-> "none", reading |-> FALSE, orphan |-> FALSE]
NotStarted == [started |-> FALSE, error |-> FALSE]

Init ==
  /\ config \in Config
  /\ keyFile = Absent
  /\ socket \in BOOLEAN
  /\ proc = [cmd |-> "run", pc |-> "ended", keys |-> None, ipc |-> FALSE, killed |-> FALSE]
  /\ runtime = NotStarted
  /\ waiting = NotWaiting
  /\ signals = FALSE
  /\ terminal = Cooked
  /\ pool = NoPool
  /\ told = None
  /\ runs = 0 /\ happened = 0

At(pc) == proc.pc = pc
Goto(pc) == proc' = [proc EXCEPT !.pc = pc]

\* main has returned, with or without an error: the runtime is dropped, and
\* with it all tasks.
Return == Goto("drop") /\ pool' = NoPool

-----------------------------------------------------------------------------
(* From the command line to the keys.                                      *)

\* The shell has put the terminal in order.
Launch(cmd) ==
  /\ At("ended") /\ runs < MaxRuns
  /\ runs' = runs + 1
  /\ proc' = [cmd |-> cmd, pc |-> "config", keys |-> None, ipc |-> FALSE, killed |-> FALSE]
  /\ runtime' = NotStarted /\ waiting' = NotWaiting /\ signals' = FALSE
  /\ terminal' = Cooked /\ pool' = NoPool
  /\ UNCHANGED <<config, keyFile, socket, told, happened>>

\* load_checked_config: it may not be read, parsed or validated.
LoadConfig ==
  /\ At("config")
  /\ \/ Goto("keys") /\ UNCHANGED pool
     \/ Return
  /\ UNCHANGED <<envVars, keyFile, socket, runtime, waiting, signals, terminal, told>>

\* Keys are numbered as they are generated, one pair at most in each run.
IsKeys(file) == file \notin {Absent, Partial}

\* Mutant: whatever keeps the keys from being read, there are new ones.
LoadOrCreateAnyway ==
  /\ At("keys")
  /\ \/ /\ IsKeys(keyFile)
        /\ proc' = [proc EXCEPT !.pc = "loaded", !.keys = keyFile]
     \/ proc' = [proc EXCEPT !.pc = "create", !.keys = runs]
  /\ UNCHANGED <<envVars, keyFile, socket, runtime, waiting, signals, terminal, pool, told>>

\* load_or_create: only a file that is not there is created; one that
\* cannot be read or parsed is an error.
LoadOrCreate ==
  /\ At("keys")
  /\ \/ /\ IsKeys(keyFile)
        /\ proc' = [proc EXCEPT !.pc = "loaded", !.keys = keyFile]
        /\ UNCHANGED pool
     \/ /\ keyFile = Absent
        /\ proc' = [proc EXCEPT !.pc = "create", !.keys = runs]
        /\ UNCHANGED pool
     \/ keyFile # Absent /\ Return
  /\ UNCHANGED <<envVars, keyFile, socket, runtime, waiting, signals, terminal, told>>

\* persist: fs::write empties the file, then fills it, if the disk allows.
Persist ==
  /\ \/ At("create") /\ keyFile' = Partial /\ Goto("write") /\ UNCHANGED pool
     \/ At("write") /\ keyFile' = proc.keys /\ Goto("loaded") /\ UNCHANGED pool
     \/ (At("create") \/ At("write")) /\ UNCHANGED keyFile /\ Return
  /\ UNCHANGED <<envVars, socket, runtime, waiting, signals, terminal, told>>

\* check prints what it has found, the socket too, and returns.
Check ==
  /\ At("loaded") /\ proc.cmd = "check"
  /\ Return
  /\ UNCHANGED <<envVars, keyFile, socket, runtime, waiting, signals, terminal, told>>

\* run builds the configuration of the pool only if the socket is there now.
ResolveSocket ==
  /\ At("loaded") /\ proc.cmd = "run"
  /\ proc' = [proc EXCEPT !.pc = "ui", !.ipc = AppSocketExists]
  /\ UNCHANGED <<envVars, keyFile, socket, runtime, waiting, signals, terminal, pool, told>>

\* MinerHistory::open and start_ui, which binds its address, may fail; the
\* public key is shown from here on.
StartUi ==
  /\ At("ui")
  /\ \/ Return /\ UNCHANGED told
     \/ /\ Goto("start")
        /\ told' = IF told = None THEN proc.keys ELSE told
        /\ UNCHANGED pool
  /\ UNCHANGED <<envVars, keyFile, socket, runtime, waiting, signals, terminal>>

\* Without a socket there is the dashboard, or nothing.
StartPool ==
  /\ At("start")
  /\ \/ /\ ~proc.ipc /\ ~config.ui /\ Return
        /\ UNCHANGED runtime
     \/ /\ ~proc.ipc /\ config.ui /\ Goto("uiOnly")
        /\ UNCHANGED <<runtime, pool>>
     \/ /\ proc.ipc /\ Goto("select")
        /\ runtime' = [started |-> TRUE, error |-> FALSE]
        /\ pool' = [NoPool EXCEPT !.pc = "setup"]
  /\ UNCHANGED <<envVars, keyFile, socket, waiting, signals, terminal, told>>

-----------------------------------------------------------------------------
(* Waiting for the end.                                                    *)

\* enable_terminal_interrupt_mode, and a first read, if stdin is a terminal;
\* otherwise there is nothing to be read, and the task sleeps.
EnableTerminal(t) ==
  IF config.stdin = "eof" THEN t
  ELSE [t EXCEPT !.original = t.mode, !.mode = "raw", !.reading = TRUE]

\* Mutants: the terminal is left as it is, for the handler needs it again;
\* it is restored whether or not it was changed.
DropReader(t) == [t EXCEPT !.reading = FALSE, !.orphan = t.orphan \/ t.reading]
DropUnchecked(t) ==
  [mode |-> t.original, original |-> "none", reading |-> FALSE, orphan |-> t.orphan \/ t.reading]

\* Drop of TerminalInterruptMode and of the task that reads.
DropTerminal(t) ==
  [mode |-> IF t.original = "none" THEN t.mode ELSE t.original, original |-> "none",
   reading |-> FALSE, orphan |-> t.orphan \/ t.reading]

\* wait_for_shutdown is polled for the first time.
WaitForShutdown ==
  /\ proc.pc \in {"uiOnly", "select", "uiAgain"} /\ ~waiting.listening
  /\ waiting' = [listening |-> TRUE, heard |-> FALSE]
  /\ signals' = TRUE
  /\ terminal' = EnableTerminal(terminal)
  /\ UNCHANGED <<envVars, keyFile, socket, proc, runtime, pool, told>>

\* It is ready, or dropped with what it has heard.
StopWaiting(heard) ==
  /\ waiting' = [listening |-> FALSE, heard |-> heard]
  /\ terminal' = DropTerminal(terminal)

\* Without a pool there is only the dashboard.
StopUi ==
  /\ At("uiOnly") \/ At("uiAgain")
  /\ waiting.heard
  /\ StopWaiting(TRUE)
  /\ Return
  /\ UNCHANGED <<envVars, keyFile, socket, runtime, signals, told>>

\* The select of run: the pool's task has ended ...
PoolEnded ==
  /\ At("select") /\ pool.pc = "ended"
  /\ StopWaiting(FALSE)
  /\ \/ pool.result = "error" /\ Goto("handle") /\ UNCHANGED pool
     \/ pool.result # "error" /\ Return
  /\ UNCHANGED <<envVars, keyFile, socket, runtime, signals, told>>

\* ... or the process is to stop.
ShutdownHeard ==
  /\ At("select") /\ waiting.heard
  /\ StopWaiting(TRUE)
  /\ Goto("shutdown")
  /\ UNCHANGED <<envVars, keyFile, socket, runtime, signals, pool, told>>

\* Mutant: the failure is not put down.
HandlePoolResultSilently ==
  /\ At("handle")
  /\ \/ config.ui /\ Goto("uiAgain") /\ UNCHANGED pool
     \/ ~config.ui /\ Return
  /\ UNCHANGED <<envVars, keyFile, socket, runtime, waiting, signals, terminal, told>>

\* handle_pool_result: with a dashboard, the process stays.
HandlePoolResult ==
  /\ At("handle")
  /\ runtime' = [started |-> FALSE, error |-> TRUE]
  /\ \/ config.ui /\ Goto("uiAgain") /\ UNCHANGED pool
     \/ ~config.ui /\ Return
  /\ UNCHANGED <<envVars, keyFile, socket, waiting, signals, terminal, told>>

\* PoolSv2::shutdown looks at is_alive ...
CheckAlive ==
  /\ At("shutdown")
  /\ \/ pool.alive /\ Goto("notify") /\ UNCHANGED pool
     \/ ~pool.alive /\ Return
  /\ UNCHANGED <<envVars, keyFile, socket, runtime, waiting, signals, terminal, told>>

\* ... asks to be notified, and cancels the token.
AskToBeNotified ==
  /\ At("notify")
  /\ Goto("await")
  /\ pool' = [pool EXCEPT !.awaited = TRUE, !.token = TRUE]
  /\ UNCHANGED <<envVars, keyFile, socket, runtime, waiting, signals, terminal, told>>

\* Mutant: without a time limit.
AwaitNotified ==
  /\ At("await") /\ pool.notified
  /\ Return
  /\ UNCHANGED <<envVars, keyFile, socket, runtime, waiting, signals, terminal, told>>

\* run waits for the notification, fifteen seconds at most.
AwaitShutdown ==
  /\ At("await")
  /\ Return
  /\ UNCHANGED <<envVars, keyFile, socket, runtime, waiting, signals, terminal, told>>

\* The runtime waits for blocking calls, the process for the runtime.
RuntimeDropped ==
  /\ At("drop") /\ ~terminal.orphan
  /\ Goto("ended")
  /\ UNCHANGED <<envVars, keyFile, socket, runtime, waiting, signals, terminal, pool, told>>

Main ==
  \/ LoadConfig \/ LoadOrCreate \/ Persist \/ Check \/ ResolveSocket \/ StartUi \/ StartPool
  \/ WaitForShutdown \/ StopUi \/ PoolEnded \/ ShutdownHeard \/ HandlePoolResult
  \/ CheckAlive \/ AskToBeNotified \/ AwaitShutdown \/ RuntimeDropped

-----------------------------------------------------------------------------
(* PoolSv2::start.                                                         *)

PoolGoes(new) ==
  /\ pool' = new
  /\ UNCHANGED <<envVars, keyFile, socket, proc, runtime, waiting, signals, terminal, told>>

\* The start returns early: the clone of PoolSv2 that is dropped cancels the
\* token; is_alive stays, and nobody is notified.
EndsEarly(result) == [pool EXCEPT !.pc = "ended", !.result = result, !.token = TRUE]

\* Connecting is left to a thread; what comes before may fail, or panic.
SetUp ==
  /\ pool.pc = "setup"
  /\ \/ PoolGoes([pool EXCEPT !.pc = "templates"])
     \/ \E result \in {"error", "panic"} : PoolGoes(EndsEarly(result))

\* The template provider: a template comes, if there is a socket, or the
\* connection fails or ends, at any time.
FirstTemplate ==
  /\ pool.pc = "templates" /\ ~pool.template /\ ~pool.token /\ PoolSocketExists
  /\ PoolGoes([pool EXCEPT !.template = TRUE])

ProviderFails ==
  /\ pool.pc \in {"templates", "running"} /\ ~pool.token
  /\ PoolGoes([pool EXCEPT !.token = TRUE])

\* start_downstream_server waits for the first template, or the token; then
\* the address may be taken.
StartDownstreamServer ==
  /\ pool.pc = "templates"
  /\ \/ (pool.template \/ pool.token) /\ PoolGoes([pool EXCEPT !.pc = "running"])
     \/ pool.template /\ PoolGoes(EndsEarly("error"))

Cancelled ==
  /\ pool.pc = "running" /\ pool.token
  /\ PoolGoes([pool EXCEPT !.pc = "joining"])

\* The provider's thread and the tasks have been joined or aborted.
NotifyWaiters ==
  /\ pool.pc = "joining"
  /\ PoolGoes([pool EXCEPT !.pc = "notified", !.notified = pool.awaited])

StartReturns ==
  /\ pool.pc = "notified"
  /\ PoolGoes([pool EXCEPT !.pc = "ended", !.result = "ok", !.alive = FALSE])

Pool == StartDownstreamServer \/ Cancelled \/ NotifyWaiters \/ StartReturns

-----------------------------------------------------------------------------
(* What happens to the process.                                            *)

Happens ==
  /\ ~At("ended") /\ happened < MaxEvents
  /\ happened' = happened + 1
  /\ UNCHANGED <<config, keyFile, runs, runtime, signals, told>>

Die == proc' = [proc EXCEPT !.pc = "ended", !.killed = TRUE] /\ pool' = NoPool

Kill == Die /\ Happens /\ UNCHANGED <<socket, waiting, terminal>>

\* SIGINT is heard by the pool too, once it is in its select.
Signalled(kind) ==
  \/ /\ ~signals /\ Die /\ UNCHANGED waiting
  \/ /\ signals
     /\ waiting' = [waiting EXCEPT !.heard = @ \/ waiting.listening]
     /\ pool' = [pool EXCEPT !.token = @ \/ (kind = "INT" /\ pool.pc = "running")]
     /\ UNCHANGED proc

Signal ==
  /\ \E kind \in {"INT", "TERM"} : Signalled(kind)
  /\ Happens /\ UNCHANGED <<socket, terminal>>

\* A read that was given up comes first, and takes the byte.
PressCtrlC ==
  /\ config.stdin = "tty"
  /\ \/ /\ terminal.mode = "cooked" /\ Signalled("INT")
        /\ UNCHANGED terminal
     \/ /\ terminal.mode = "raw" /\ terminal.orphan
        /\ terminal' = [terminal EXCEPT !.orphan = FALSE]
        /\ UNCHANGED <<proc, pool, waiting>>
     \/ /\ terminal.mode = "raw" /\ ~terminal.orphan /\ terminal.reading
        /\ terminal' = [terminal EXCEPT !.reading = FALSE]
        /\ waiting' = [waiting EXCEPT !.heard = TRUE]
        /\ UNCHANGED <<proc, pool>>
  /\ Happens /\ UNCHANGED socket

PressEnter ==
  /\ config.stdin = "tty" /\ terminal.orphan
  /\ terminal' = [terminal EXCEPT !.orphan = FALSE]
  /\ Happens /\ UNCHANGED <<proc, pool, waiting, socket>>

SocketChanges ==
  /\ socket' = ~socket
  /\ Happens /\ UNCHANGED <<proc, pool, waiting, terminal>>

Next ==
  \/ \E cmd \in {"check", "run"} : Launch(cmd)
  \/ Main \/ SetUp \/ FirstTemplate \/ ProviderFails \/ Pool
  \/ Kill \/ Signal \/ PressCtrlC \/ PressEnter \/ SocketChanges

Spec == Init /\ [][Next]_vars

\* The runtime polls every task that can go on, the joins of tasks have time
\* limits, and the provider's thread ends when it is cancelled
\* (StopsWhenCancelled of TemplateProvider).
FairSpec == Spec /\ WF_vars(Main) /\ WF_vars(Pool)

-----------------------------------------------------------------------------
(* What can be relied on.                                                  *)

UiServes == config.ui /\ proc.pc \in {"start", "uiOnly", "select", "handle", "uiAgain", "shutdown", "notify", "await"}

\* api_health
Sv2Listening == runtime.started /\ ~runtime.error
Ready == UiServes /\ Sv2Listening /\ AppSocketExists /\ pool.template

Modes == {"cooked", "raw"}

Key == 1..MaxRuns

ProcState ==
  [cmd : {"check", "run"},
   pc : {"config", "keys", "create", "write", "loaded", "ui", "start", "uiOnly",
         "select", "handle", "uiAgain", "shutdown", "notify", "await", "drop", "ended"},
   keys : {None} \cup Key, ipc : BOOLEAN, killed : BOOLEAN]

RuntimeState == [started : BOOLEAN, error : BOOLEAN]
WaitState == [listening : BOOLEAN, heard : BOOLEAN]

TerminalState ==
  [mode : Modes, original : Modes \cup {"none"}, reading : BOOLEAN, orphan : BOOLEAN]

PoolState ==
  [pc : {"none", "setup", "templates", "running", "joining", "notified", "ended"},
   result : {"ok", "error", "panic"}, token : BOOLEAN, alive : BOOLEAN,
   awaited : BOOLEAN, notified : BOOLEAN, template : BOOLEAN]

\* Types and bounds.
TypeOK ==
  /\ config \in Config
  /\ keyFile \in {Absent, Partial} \cup Key
  /\ socket \in BOOLEAN /\ signals \in BOOLEAN
  /\ proc \in ProcState /\ runtime \in RuntimeState /\ waiting \in WaitState
  /\ terminal \in TerminalState /\ pool \in PoolState
  /\ told \in {None} \cup Key
  /\ runs \in 0..MaxRuns /\ happened \in 0..MaxEvents

\* Miners are set up with the public key that the dashboard shows: the keys
\* that a run has told are on disk, and stay the keys of every later run,
\* through crashes, signals and files that cannot be read for a while.
KeysStay ==
  /\ told # None => keyFile = told
  /\ proc.pc \in {"ui", "start", "uiOnly", "select"} => proc.keys = keyFile

\* However main gets to its end, and though it waits a second time when the
\* pool has failed, the terminal is left as it was found, even while
\* the runtime is still waiting for a read.
TerminalRestored ==
  proc.pc \in {"drop", "ended"} /\ ~proc.killed => terminal.mode = "cooked"

\* A stop that was heard ends the process, though the notification of the
\* pool may be missed.  The exceptions: a read of the terminal under way, for
\* the runtime waits for the next key, and a pool that fails at the very
\* moment, for the select of run takes one of the two and forgets the other.
HeardStops == waiting.heard ~> (At("ended") \/ terminal.orphan \/ At("handle"))

\* /api/health may say that the server is ready before the pool listens and
\* after it has stopped to: that does not last.
ReadyComesTrue == (Ready /\ pool.pc # "running") ~> (~Ready \/ pool.pc = "running")
=============================================================================
