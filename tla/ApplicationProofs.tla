-------------------------- MODULE ApplicationProofs --------------------------
(***************************************************************************)
(* What Application promises of the keys and the terminal, for any number  *)
(* of processes one after the other and of things that happen to them.     *)
(*                                                                         *)
(* Neither property is inductive.  That the keys stay needs to be known of *)
(* every place on the way to them: keys are made only while there is no    *)
(* file, so that none has been told.  That the terminal is restored needs  *)
(* the pairing of its mode with the wait for the end: raw is left only by  *)
(* whoever entered it, and that waits.                                     *)
(***************************************************************************)
EXTENDS Application, TLAPS

-----------------------------------------------------------------------------
(* The inductive invariant.                                                *)

\* A process that runs is one of those that were started.
RunsCounted == proc.pc # "ended" => runs \in Key

\* The keys in hand, from their making to the start of the pool.
KeysInHand ==
  /\ proc.pc = "create" => keyFile = Absent /\ proc.keys \in Key
  /\ proc.pc = "write" => keyFile = Partial /\ proc.keys \in Key
  /\ proc.pc \in {"loaded", "ui", "start", "uiOnly", "select"} => proc.keys = keyFile /\ keyFile \in Key

ToldIsOnDisk == told # None => keyFile = told

Waits == {"uiOnly", "select", "uiAgain"}

\* The terminal is raw only while someone listens, who knows what it was.
TerminalPaired ==
  /\ waiting.listening /\ ~proc.killed => proc.pc \in Waits
  /\ \/ terminal.mode = "cooked" /\ terminal.original = "none"
     \/ terminal.mode = "raw" /\ terminal.original = "cooked" /\ waiting.listening
  /\ proc.killed => proc.pc = "ended"

IInv == TypeOK /\ RunsCounted /\ KeysInHand /\ ToldIsOnDisk /\ TerminalPaired

-----------------------------------------------------------------------------
(* Each step keeps it.                                                     *)

\* Absent, Partial and None are no keys.
LEMMA NotKeys ==
  /\ Absent \notin Key /\ Partial \notin Key /\ None \notin Key /\ Absent # Partial
  /\ MaxRuns \in Nat /\ MaxEvents \in Nat
BY ApplicationAssumption DEF Key

\* What the variables are at first, and again at the start of a process.
LEMMA Beginnings ==
  /\ Cooked \in TerminalState /\ Cooked.mode = "cooked" /\ Cooked.original = "none"
  /\ NoPool \in PoolState /\ NotStarted \in RuntimeState
  /\ NotWaiting \in WaitState /\ ~NotWaiting.listening
BY DEF Cooked, TerminalState, Modes, NoPool, PoolState, NotStarted, RuntimeState, NotWaiting, WaitState

LEMMA InitKeeps == Init => IInv
<1> SUFFICES ASSUME Init PROVE IInv
  OBVIOUS
<1>1. proc \in ProcState /\ proc.pc = "ended" /\ ~proc.killed
  <2>1. proc = [cmd |-> "run", pc |-> "ended", keys |-> None, ipc |-> FALSE, killed |-> FALSE]
    BY DEF Init
  <2> QED
    BY <2>1 DEF ProcState
<1>2. TypeOK
  <2>1. runs \in 0..MaxRuns /\ happened \in 0..MaxEvents
    BY NotKeys DEF Init
  <2>2. runtime \in RuntimeState /\ waiting \in WaitState /\ terminal \in TerminalState /\ pool \in PoolState
    BY Beginnings DEF Init
  <2>3. config \in Config /\ socket \in BOOLEAN /\ signals \in BOOLEAN
    BY DEF Init
  <2>4. keyFile \in {Absent, Partial} \cup Key /\ told \in {None} \cup Key
    BY DEF Init
  <2> QED
    BY <1>1, <2>1, <2>2, <2>3, <2>4 DEF TypeOK
<1> QED
  BY <1>1, <1>2, Beginnings DEF Init, IInv, RunsCounted, KeysInHand, ToldIsOnDisk, TerminalPaired

LEMMA LaunchKeeps ==
  ASSUME IInv, NEW cmd \in {"check", "run"}, Launch(cmd)
  PROVE  IInv'
<1>1. proc' = [cmd |-> cmd, pc |-> "config", keys |-> None, ipc |-> FALSE, killed |-> FALSE]
  BY DEF Launch
<1>2. proc' \in ProcState /\ proc'.pc = "config" /\ ~proc'.killed
  BY <1>1 DEF ProcState
<1>3. runs \in Nat /\ runs < MaxRuns /\ runs' = runs + 1
  BY NotKeys DEF Launch, IInv, TypeOK
<1>4. runs' \in Key /\ runs' \in 0..MaxRuns
  BY <1>3, NotKeys DEF Key
<1>5. TypeOK'
  BY <1>2, <1>4, Beginnings DEF Launch, IInv, TypeOK
<1> QED
  BY <1>2, <1>4, <1>5, Beginnings DEF Launch, IInv, RunsCounted, KeysInHand, ToldIsOnDisk, TerminalPaired

\* A step that main takes: where it goes, the keys in hand there, and what
\* it leaves alone.
Goes(pc, keys) ==
  /\ proc' \in ProcState /\ proc'.pc = pc /\ proc'.keys = keys /\ proc'.killed = proc.killed
  /\ pool' \in PoolState
  /\ UNCHANGED <<config, runs, happened, socket>>

LEMMA GotoGoes ==
  ASSUME IInv, NEW pc, Goto(pc), UNCHANGED <<config, runs, happened, socket>>,
         pc \in {"config", "keys", "create", "write", "loaded", "ui", "start", "uiOnly", "select",
                 "handle", "uiAgain", "shutdown", "notify", "await", "drop", "ended"},
         pool' \in PoolState
  PROVE  Goes(pc, proc.keys)
<1>1. proc \in ProcState /\ proc' = [proc EXCEPT !.pc = pc]
  BY DEF IInv, TypeOK, Goto
<1> QED
  BY <1>1 DEF Goes, ProcState

\* From the beginning to the dashboard nobody waits.
LEMMA PathKeeps ==
  ASSUME IInv, NEW pc, Goes(pc, proc'.keys), ~At("ended"), pc # "ended",
         keyFile' \in {Absent, Partial} \cup Key, told' \in {None} \cup Key,
         runtime' \in RuntimeState, UNCHANGED <<waiting, signals, terminal>>,
         KeysInHand', ToldIsOnDisk', proc.pc \in Waits => pc \in Waits
  PROVE  IInv'
<1>1. proc.pc # "ended" /\ proc'.pc = pc /\ proc'.killed = proc.killed /\ runs' = runs
  BY DEF Goes, At
<1>2. TypeOK'
  BY DEF Goes, IInv, TypeOK
<1>3. TerminalPaired'
  BY <1>1 DEF IInv, TerminalPaired
<1>4. RunsCounted'
  BY <1>1 DEF IInv, RunsCounted
<1> QED
  BY <1>2, <1>3, <1>4 DEF IInv

\* The keys stay as they are wherever main goes without touching them.
LEMMA PlainKeeps ==
  ASSUME IInv, NEW pc, Goto(pc), ~At("ended"), proc.pc \in Waits => pc \in Waits,
         pc \in {"keys", "start", "uiOnly", "select", "handle", "uiAgain", "shutdown", "notify", "await", "drop"},
         pc = "start" => proc.pc = "ui",
         pc \in {"uiOnly", "select"} => proc.pc = "start",
         pool' \in PoolState, runtime' \in RuntimeState,
         UNCHANGED <<config, runs, happened, socket, keyFile, waiting, signals, terminal>>,
         told' = told \/ (told = None /\ told' = proc.keys /\ proc.pc = "ui")
  PROVE  IInv'
<1>1. Goes(pc, proc.keys) /\ proc'.pc = pc /\ proc'.keys = proc.keys
  BY GotoGoes DEF Goes
<1>2. Goes(pc, proc'.keys)
  BY <1>1
<1>3. KeysInHand'
  BY <1>1 DEF IInv, KeysInHand
<1>4. ToldIsOnDisk' /\ told' \in {None} \cup Key
  BY DEF IInv, TypeOK, KeysInHand, ToldIsOnDisk
<1>5. keyFile' \in {Absent, Partial} \cup Key
  BY DEF IInv, TypeOK
<1>6. pc # "ended"
  OBVIOUS
<1> QED
  BY <1>2, <1>3, <1>4, <1>5, <1>6, PathKeeps

LEMMA LoadKeeps ==
  ASSUME IInv, LoadConfig \/ Check \/ ResolveSocket \/ HandlePoolResult \/ CheckAlive \/ AskToBeNotified \/ AwaitShutdown
  PROVE  IInv'
<1> USE Beginnings DEF At, Return, envVars, Waits, IInv, TypeOK
<1>1. CASE LoadConfig
  BY <1>1, PlainKeeps DEF LoadConfig
<1>2. CASE ResolveSocket
  <2>1. Goes("ui", proc.keys) /\ proc'.pc = "ui" /\ proc'.keys = proc.keys
    BY <1>2 DEF ResolveSocket, Goes, ProcState, AppSocketExists
  <2>2. KeysInHand' /\ ToldIsOnDisk'
    BY <1>2, <2>1 DEF ResolveSocket, KeysInHand, ToldIsOnDisk
  <2> QED
    BY <1>2, <2>1, <2>2, PathKeeps DEF ResolveSocket
<1>3. CASE HandlePoolResult
  <2>1. runtime' \in RuntimeState
    BY <1>3 DEF HandlePoolResult, RuntimeState
  <2> QED
    BY <1>3, <2>1, PlainKeeps DEF HandlePoolResult
<1>4. CASE CheckAlive
  BY <1>4, PlainKeeps DEF CheckAlive
<1>5. CASE AskToBeNotified
  <2>1. pool' \in PoolState
    BY <1>5 DEF AskToBeNotified, PoolState
  <2> QED
    BY <1>5, <2>1, PlainKeeps DEF AskToBeNotified
<1>6. CASE AwaitShutdown
  BY <1>6, PlainKeeps DEF AwaitShutdown
<1>7. CASE Check
  BY <1>7, PlainKeeps DEF Check
<1> QED
  BY <1>1, <1>2, <1>3, <1>4, <1>5, <1>6, <1>7

\* Keys are made only while there is no file, so that none have been told.
LEMMA KeysKeep ==
  ASSUME IInv, LoadOrCreate \/ Persist
  PROVE  IInv'
<1>1. /\ proc.pc \in {"keys", "create", "write"} /\ ~At("ended") /\ proc.pc \notin Waits
      /\ UNCHANGED <<config, runs, happened, socket, runtime, waiting, signals, terminal, told>>
      /\ proc \in ProcState /\ runs \in Key /\ told \in {None} \cup Key /\ runtime \in RuntimeState
      /\ keyFile \in {Absent, Partial} \cup Key /\ pool \in PoolState
  BY DEF LoadOrCreate, Persist, At, envVars, IInv, TypeOK, RunsCounted, Waits
<1>2. CASE Return /\ UNCHANGED keyFile
  BY <1>1, <1>2, PlainKeeps, Beginnings DEF Return
<1>3. CASE /\ proc' = [proc EXCEPT !.pc = "loaded", !.keys = keyFile]
           /\ IsKeys(keyFile) /\ UNCHANGED <<keyFile, pool>>
  <2>1. keyFile \in Key
    BY <1>1, <1>3 DEF IsKeys
  <2>2. Goes("loaded", keyFile) /\ proc'.pc = "loaded" /\ proc'.keys = keyFile
    BY <1>1, <1>3, <2>1 DEF Goes, ProcState
  <2>3. KeysInHand' /\ ToldIsOnDisk'
    BY <1>1, <1>3, <2>1, <2>2 DEF IInv, KeysInHand, ToldIsOnDisk
  <2> QED
    BY <1>1, <1>3, <2>2, <2>3, PathKeeps
<1>4. CASE proc' = [proc EXCEPT !.pc = "create", !.keys = runs] /\ keyFile = Absent /\ UNCHANGED <<keyFile, pool>>
  <2>1. Goes("create", runs) /\ proc'.pc = "create" /\ proc'.keys = runs
    BY <1>1, <1>4 DEF Goes, ProcState
  <2>2. KeysInHand' /\ ToldIsOnDisk'
    BY <1>1, <1>4, <2>1 DEF IInv, KeysInHand, ToldIsOnDisk
  <2> QED
    BY <1>1, <1>4, <2>1, <2>2, PathKeeps
<1>5. CASE At("create") /\ keyFile' = Partial /\ Goto("write") /\ UNCHANGED pool
  <2>1. keyFile = Absent /\ proc.keys \in Key
    BY <1>5 DEF IInv, KeysInHand, At
  <2>2. Goes("write", proc.keys) /\ proc'.pc = "write" /\ proc'.keys = proc.keys
    BY <1>1, <1>5, GotoGoes DEF Goes
  <2>3. KeysInHand'
    BY <1>5, <2>1, <2>2 DEF KeysInHand
  <2>4. ToldIsOnDisk'
    BY <1>1, <2>1, NotKeys DEF IInv, ToldIsOnDisk
  <2> QED
    BY <1>1, <1>5, <2>2, <2>3, <2>4, PathKeeps
<1>6. CASE At("write") /\ keyFile' = proc.keys /\ Goto("loaded") /\ UNCHANGED pool
  <2>1. keyFile = Partial /\ proc.keys \in Key
    BY <1>6 DEF IInv, KeysInHand, At
  <2>2. Goes("loaded", proc.keys) /\ proc'.pc = "loaded" /\ proc'.keys = proc.keys
    BY <1>1, <1>6, GotoGoes DEF Goes
  <2>3. KeysInHand'
    BY <1>6, <2>1, <2>2 DEF KeysInHand
  <2>4. ToldIsOnDisk'
    BY <1>1, <2>1, NotKeys DEF IInv, ToldIsOnDisk
  <2>5. keyFile' \in {Absent, Partial} \cup Key
    BY <1>6, <2>1
  <2> QED
    BY <1>1, <2>2, <2>3, <2>4, <2>5, PathKeeps
<1> QED
  BY <1>2, <1>3, <1>4, <1>5, <1>6 DEF LoadOrCreate, Persist

\* The dashboard tells the keys that are on disk.
LEMMA UiKeeps ==
  ASSUME IInv, StartUi
  PROVE  IInv'
<1>1. /\ proc.pc = "ui" /\ ~At("ended") /\ proc.pc \notin Waits
      /\ UNCHANGED <<config, runs, happened, socket, keyFile, runtime, waiting, signals, terminal>>
      /\ runtime \in RuntimeState /\ pool \in PoolState
  BY DEF StartUi, At, envVars, IInv, TypeOK, Waits
<1>2. CASE Return /\ UNCHANGED told
  BY <1>1, <1>2, PlainKeeps, Beginnings DEF Return
<1>3. CASE Goto("start") /\ told' = (IF told = None THEN proc.keys ELSE told) /\ UNCHANGED pool
  BY <1>1, <1>3, PlainKeeps
<1> QED
  BY <1>2, <1>3 DEF StartUi

LEMMA StartPoolKeeps ==
  ASSUME IInv, StartPool
  PROVE  IInv'
<1>1. /\ proc.pc = "start" /\ ~At("ended") /\ proc.pc \notin Waits
      /\ UNCHANGED <<config, runs, happened, socket, keyFile, waiting, signals, terminal, told>>
      /\ runtime \in RuntimeState /\ pool \in PoolState
  BY DEF StartPool, At, envVars, IInv, TypeOK, Waits
<1>2. CASE Return /\ UNCHANGED runtime
  BY <1>1, <1>2, PlainKeeps, Beginnings DEF Return
<1>3. CASE Goto("uiOnly") /\ UNCHANGED <<runtime, pool>>
  BY <1>1, <1>3, PlainKeeps
<1>4. CASE /\ Goto("select") /\ runtime' = [started |-> TRUE, error |-> FALSE]
           /\ pool' = [NoPool EXCEPT !.pc = "setup"]
  <2>1. runtime' \in RuntimeState
    BY <1>4 DEF RuntimeState
  <2>2. pool' \in PoolState
    BY <1>4, Beginnings DEF PoolState
  <2> QED
    BY <1>1, <1>4, <2>1, <2>2, PlainKeeps
<1> QED
  BY <1>2, <1>3, <1>4 DEF StartPool

\* The terminal goes raw when somebody begins to wait.
LEMMA WaitKeeps ==
  ASSUME IInv, WaitForShutdown
  PROVE  IInv'
<1>1. /\ proc.pc \in Waits /\ waiting' = [listening |-> TRUE, heard |-> FALSE]
      /\ terminal' = EnableTerminal(terminal) /\ signals' = TRUE /\ ~waiting.listening
      /\ UNCHANGED <<config, runs, happened, keyFile, socket, proc, runtime, pool, told>>
      /\ terminal \in TerminalState
  BY DEF WaitForShutdown, Waits, envVars, IInv, TypeOK
<1>2. waiting' \in WaitState /\ waiting'.listening
  BY <1>1 DEF WaitState
<1>3. terminal.mode = "cooked" /\ terminal.original = "none"
  BY <1>1 DEF IInv, TerminalPaired
<1>4. /\ terminal' \in TerminalState
      /\ \/ terminal'.mode = "cooked" /\ terminal'.original = "none"
         \/ terminal'.mode = "raw" /\ terminal'.original = "cooked"
  BY <1>1, <1>3 DEF EnableTerminal, TerminalState, Modes
<1>5. TypeOK'
  BY <1>1, <1>2, <1>4 DEF IInv, TypeOK
<1>6. TerminalPaired'
  BY <1>1, <1>2, <1>4 DEF IInv, TerminalPaired
<1> QED
  BY <1>1, <1>5, <1>6 DEF IInv, RunsCounted, KeysInHand, ToldIsOnDisk

\* Whoever stops waiting restores it.
LEMMA StopKeeps ==
  ASSUME IInv, StopUi \/ PoolEnded \/ ShutdownHeard
  PROVE  IInv'
<1>1. /\ proc.pc \in Waits /\ pool \in PoolState /\ terminal \in TerminalState
      /\ UNCHANGED <<config, runs, happened, keyFile, socket, runtime, signals, told>>
  BY DEF StopUi, PoolEnded, ShutdownHeard, At, Waits, envVars, IInv, TypeOK
<1>2. PICK heard \in BOOLEAN : StopWaiting(heard)
  BY DEF StopUi, PoolEnded, ShutdownHeard
<1>3. PICK pc \in {"drop", "handle", "shutdown"} : Goto(pc) /\ pool' \in PoolState
  BY <1>1, Beginnings DEF StopUi, PoolEnded, ShutdownHeard, Return
<1>4. Goes(pc, proc.keys) /\ proc'.pc = pc /\ proc'.killed = proc.killed
  BY <1>1, <1>3, GotoGoes DEF Goes
<1>5. waiting' \in WaitState /\ ~waiting'.listening
  BY <1>2 DEF StopWaiting, WaitState
<1>6. terminal' \in TerminalState /\ terminal'.mode = "cooked" /\ terminal'.original = "none"
  BY <1>1, <1>2 DEF StopWaiting, DropTerminal, IInv, TerminalPaired, TerminalState, Modes
<1>7. TypeOK'
  BY <1>1, <1>4, <1>5, <1>6 DEF IInv, TypeOK, Goes
<1>8. TerminalPaired'
  BY <1>1, <1>4, <1>5, <1>6 DEF IInv, TerminalPaired, Waits
<1>9. RunsCounted' /\ KeysInHand' /\ ToldIsOnDisk'
  BY <1>1, <1>4 DEF IInv, RunsCounted, KeysInHand, ToldIsOnDisk, Waits
<1> QED
  BY <1>7, <1>8, <1>9 DEF IInv

\* The process ends: of itself, or killed.
LEMMA EndKeeps ==
  ASSUME IInv, UNCHANGED <<config, runs, keyFile, runtime, signals, told, terminal, waiting>>,
         happened' \in 0..MaxEvents, socket' \in BOOLEAN, pool' \in PoolState,
         proc' \in ProcState, proc'.pc = "ended",
         proc'.killed \/ (proc.pc = "drop" /\ proc'.killed = proc.killed)
  PROVE  IInv'
<1>1. TypeOK'
  BY DEF IInv, TypeOK
<1>2. TerminalPaired'
  BY DEF IInv, TerminalPaired, Waits
<1> QED
  BY <1>1, <1>2 DEF IInv, RunsCounted, KeysInHand, ToldIsOnDisk

LEMMA DropKeeps ==
  ASSUME IInv, RuntimeDropped
  PROVE  IInv'
<1>1. Goto("ended") /\ proc.pc = "drop"
      /\ UNCHANGED <<config, runs, happened, keyFile, socket, runtime, waiting, signals, terminal, pool, told>>
  BY DEF RuntimeDropped, At, envVars
<1>2. pool' \in PoolState /\ happened' \in 0..MaxEvents /\ socket' \in BOOLEAN
  BY <1>1 DEF IInv, TypeOK
<1>3. Goes("ended", proc.keys)
  BY <1>1, <1>2, GotoGoes
<1> QED
  BY <1>1, <1>2, <1>3, EndKeeps DEF Goes

\* The pool changes itself only.
LEMMA PoolKeeps ==
  ASSUME IInv, SetUp \/ FirstTemplate \/ ProviderFails \/ Pool
  PROVE  IInv'
<1>1. /\ UNCHANGED <<config, runs, happened, keyFile, socket, proc, runtime, waiting, signals, terminal, told>>
      /\ pool' \in PoolState
  <2> USE DEF IInv, TypeOK, PoolGoes, EndsEarly, envVars, PoolState
  <2>1. CASE SetUp
    BY <2>1 DEF SetUp
  <2>2. CASE FirstTemplate
    BY <2>2 DEF FirstTemplate
  <2>3. CASE ProviderFails
    BY <2>3 DEF ProviderFails
  <2>4. CASE Pool
    BY <2>4 DEF Pool, StartDownstreamServer, Cancelled, NotifyWaiters, StartReturns
  <2> QED
    BY <2>1, <2>2, <2>3, <2>4
<1>2. TypeOK'
  BY <1>1 DEF IInv, TypeOK
<1> QED
  BY <1>1, <1>2 DEF IInv, RunsCounted, KeysInHand, ToldIsOnDisk, TerminalPaired

\* A signal, a key or the socket leave main where it is.
LEMMA StayKeeps ==
  ASSUME IInv, UNCHANGED <<proc, config, runs, keyFile, runtime, signals, told>>,
         happened' \in 0..MaxEvents, socket' \in BOOLEAN, pool' \in PoolState,
         waiting' \in WaitState, waiting'.listening = waiting.listening,
         terminal' \in TerminalState, terminal'.mode = terminal.mode, terminal'.original = terminal.original
  PROVE  IInv'
<1>1. TypeOK'
  BY DEF IInv, TypeOK
<1>2. TerminalPaired'
  BY DEF IInv, TerminalPaired
<1> QED
  BY <1>1, <1>2 DEF IInv, RunsCounted, KeysInHand, ToldIsOnDisk

LEMMA HappensCounts ==
  ASSUME IInv, Happens
  PROVE  happened' \in 0..MaxEvents /\ UNCHANGED <<config, keyFile, runs, runtime, signals, told>>
<1>1. happened \in 0..MaxEvents /\ MaxEvents \in Nat /\ happened < MaxEvents /\ happened' = happened + 1
  BY NotKeys DEF IInv, TypeOK, Happens
<1> QED
  BY <1>1 DEF Happens

LEMMA DieEnds ==
  ASSUME IInv, Die
  PROVE  proc' \in ProcState /\ proc'.pc = "ended" /\ proc'.killed /\ pool' \in PoolState
BY Beginnings DEF IInv, TypeOK, Die, ProcState

LEMMA SignalKeeps ==
  ASSUME IInv, NEW kind, Signalled(kind), Happens, UNCHANGED <<socket, terminal>>
  PROVE  IInv'
<1>1. socket' \in BOOLEAN /\ terminal' \in TerminalState
  BY DEF IInv, TypeOK
<1>2. CASE Die /\ UNCHANGED waiting
  BY <1>1, <1>2, DieEnds, HappensCounts, EndKeeps
<1>3. CASE /\ waiting' = [waiting EXCEPT !.heard = @ \/ waiting.listening]
           /\ pool' = [pool EXCEPT !.token = @ \/ (kind = "INT" /\ pool.pc = "running")]
           /\ UNCHANGED proc
  <2>1. waiting' \in WaitState /\ waiting'.listening = waiting.listening
    <3>1. waiting \in WaitState
      BY DEF IInv, TypeOK
    <3>2. (waiting.heard \/ waiting.listening) \in BOOLEAN
      OBVIOUS
    <3> QED
      BY <1>3, <3>1, <3>2 DEF WaitState
  <2>2. pool' \in PoolState
    <3>1. pool \in PoolState
      BY DEF IInv, TypeOK
    <3>2. (pool.token \/ (kind = "INT" /\ pool.pc = "running")) \in BOOLEAN
      OBVIOUS
    <3> QED
      BY <1>3, <3>1, <3>2 DEF PoolState
  <2> QED
    BY <1>1, <1>3, <2>1, <2>2, HappensCounts, StayKeeps
<1> QED
  BY <1>2, <1>3 DEF Signalled

LEMMA EventKeeps ==
  ASSUME IInv, Kill \/ Signal \/ PressCtrlC \/ PressEnter \/ SocketChanges
  PROVE  IInv'
<1>1. /\ Happens /\ terminal \in TerminalState /\ waiting \in WaitState /\ pool \in PoolState
      /\ socket \in BOOLEAN /\ happened' \in 0..MaxEvents
  BY HappensCounts DEF Kill, Signal, PressCtrlC, PressEnter, SocketChanges, IInv, TypeOK
<1>2. CASE Kill
  BY <1>1, <1>2, DieEnds, HappensCounts, EndKeeps DEF Kill
<1>3. CASE Signal
  BY <1>3, SignalKeeps DEF Signal
<1>4. CASE PressCtrlC
  <2>1. CASE Signalled("INT") /\ UNCHANGED terminal
    BY <1>4, <2>1, SignalKeeps DEF PressCtrlC
  <2>2. CASE terminal' = [terminal EXCEPT !.orphan = FALSE] /\ UNCHANGED <<proc, pool, waiting>>
    <3>1. terminal' \in TerminalState /\ terminal'.mode = terminal.mode /\ terminal'.original = terminal.original
      BY <1>1, <2>2 DEF TerminalState
    <3> QED
      BY <1>1, <1>4, <2>2, <3>1, HappensCounts, StayKeeps DEF PressCtrlC
  <2>3. CASE /\ terminal' = [terminal EXCEPT !.reading = FALSE]
             /\ waiting' = [waiting EXCEPT !.heard = TRUE]
             /\ UNCHANGED <<proc, pool>>
    <3>1. terminal' \in TerminalState /\ terminal'.mode = terminal.mode /\ terminal'.original = terminal.original
      BY <1>1, <2>3 DEF TerminalState
    <3>2. waiting' \in WaitState /\ waiting'.listening = waiting.listening
      BY <1>1, <2>3 DEF WaitState
    <3> QED
      BY <1>1, <1>4, <2>3, <3>1, <3>2, HappensCounts, StayKeeps DEF PressCtrlC
  <2> QED
    BY <1>4, <2>1, <2>2, <2>3 DEF PressCtrlC
<1>5. CASE PressEnter
  <2>1. terminal' \in TerminalState /\ terminal'.mode = terminal.mode /\ terminal'.original = terminal.original
    BY <1>1, <1>5 DEF PressEnter, TerminalState
  <2> QED
    BY <1>1, <1>5, <2>1, HappensCounts, StayKeeps DEF PressEnter
<1>6. CASE SocketChanges
  BY <1>1, <1>6, HappensCounts, StayKeeps DEF SocketChanges
<1> QED
  BY <1>2, <1>3, <1>4, <1>5, <1>6

LEMMA NextKeeps == IInv /\ [Next]_vars => IInv'
<1> SUFFICES ASSUME IInv, [Next]_vars PROVE IInv'
  OBVIOUS
<1>1. CASE UNCHANGED vars
  BY <1>1 DEF vars, IInv, TypeOK, RunsCounted, KeysInHand, ToldIsOnDisk, TerminalPaired
<1>2. CASE Main
  BY <1>2, LoadKeeps, KeysKeep, UiKeeps, StartPoolKeeps, WaitKeeps, StopKeeps, DropKeeps DEF Main
<1>3. CASE Next
  BY <1>2, <1>3, LaunchKeeps, PoolKeeps, EventKeeps DEF Next
<1> QED
  BY <1>1, <1>3

LEMMA Holds == Spec => []IInv
<1> QED
  BY InitKeeps, NextKeeps, PTL DEF Spec

-----------------------------------------------------------------------------
(* What follows.                                                           *)

\* Every variable keeps its type.
THEOREM ApplicationTypes == Spec => []TypeOK
<1>1. IInv => TypeOK
  BY DEF IInv
<1> QED
  BY Holds, <1>1, PTL

\* The public key that miners were given stays the one the pool has, however
\* often the program is started, killed in the middle of writing the file or
\* kept from reading it (keys.rs, load_or_create).
THEOREM KeysAreForGood == Spec => []KeysStay
<1>1. IInv => KeysStay
  BY DEF IInv, KeysInHand, ToldIsOnDisk, KeysStay
<1> QED
  BY Holds, <1>1, PTL

\* Unless it is killed, the program leaves the terminal as it was
\* (TerminalInterruptMode of main.rs).
THEOREM TerminalIsRestored == Spec => []TerminalRestored
<1>1. IInv => TerminalRestored
  BY DEF IInv, TerminalPaired, Waits, TerminalRestored
<1> QED
  BY Holds, <1>1, PTL
=============================================================================
