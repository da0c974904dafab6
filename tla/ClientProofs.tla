---------------------------- MODULE ClientProofs ----------------------------
(***************************************************************************)
(* Proofs about the command-line client: its commands and their files      *)
(* (EdfClient), and the connections a tunnel carries (LocalForward), for   *)
(* any number of processes, sessions and channels.                         *)
(***************************************************************************)
EXTENDS EdfClient, LocalForward, FiniteSetTheorems, SequenceTheorems, TLAPS

-----------------------------------------------------------------------------
(* EdfClient. *)

Pcs == {"idle", "load", "loadRead", "loadKey", "loadKeyRead", "clean", "cleanRead", "cleanKey",
        "removeKey", "cleanInfo", "request", "storeKey", "fillKey", "truncate", "fillInfo",
        "decode", "connect", "authenticate", "tcpipForward", "check", "sleep", "keepAlive", "close"}
AnySession == [id : Nat, exp : Nat]
Records == [pc : Pcs, cmd : Commands, ses : AnySession, wake : Nat]
Files == [st : {"none", "empty", "torn", "ok"}, of : AnySession]

ClientTypes ==
    /\ clock \in Nat /\ minted \in Nat
    /\ info \in Files
    /\ proc \in [Procs -> Records]
    /\ raced \in BOOLEAN

\* The loop looked at the expiry before it went to sleep.
SleepInv ==
    \A p \in Procs : At(p, "sleep") =>
        clock <= proc[p].wake /\ proc[p].wake < proc[p].ses.exp + KeepAlive

\* While commands have been run one at a time, at most one is under way, and one
\* that cleans up without being asked to found the session lapsed.
AloneInv ==
    ~raced =>
        /\ \A p, q \in Procs : p # q => At(p, "idle") \/ At(q, "idle")
        /\ \A p \in Procs : proc[p].cmd # "cleanup" =>
              /\ proc[p].pc \in {"clean", "cleanRead"} => info.st = "ok" /\ info.of.exp < clock
              /\ proc[p].pc \in {"cleanKey", "removeKey"} => proc[p].ses.exp < clock

ClientInv == ClientTypes /\ SleepInv /\ AloneInv

\* Nothing runs and nothing is on disk at first.
LEMMA ClientStarts == ClientInit => ClientInv
<1> SUFFICES ASSUME ClientInit PROVE ClientInv
  OBVIOUS
<1>1. Idle \in Records /\ Idle.pc = "idle" /\ NoFile \in Files
  BY DEF Idle, Records, Pcs, Commands, NoSession, AnySession, NoFile, Files
<1>2. \A p \in Procs : proc[p].pc = "idle"
  BY <1>1 DEF ClientInit
<1> QED BY <1>1, <1>2 DEF ClientInit, ClientInv, ClientTypes, SleepInv, AloneInv, At

\* The record of a process that does not run.
LEMMA IdleRecord == Idle \in Records /\ Idle.pc = "idle"
  BY DEF Idle, Records, Pcs, Commands, NoSession, AnySession

\* A change of a record's pc leaves the rest alone.
LEMMA PcUpdate ==
  ASSUME NEW x \in Records, NEW to \in Pcs
  PROVE  LET y == [x EXCEPT !.pc = to]
         IN y \in Records /\ y.pc = to /\ y.cmd = x.cmd /\ y.ses = x.ses /\ y.wake = x.wake
  BY DEF Records

\* A step of one process: what it must keep for the invariant to stand.
LEMMA ProcMoves ==
  ASSUME ClientInv, NEW p \in Procs, NEW y \in Records, proc' = [proc EXCEPT ![p] = y],
         clock' = clock, minted' \in Nat, info' \in Files, raced' \in BOOLEAN,
         y.pc = "sleep" => clock <= y.wake /\ y.wake < y.ses.exp + KeepAlive,
         ~raced' => ~raced /\ \A q \in Procs \ {p} : At(q, "idle"),
         ~raced' /\ y.cmd # "cleanup" =>
            /\ y.pc \in {"clean", "cleanRead"} => info'.st = "ok" /\ info'.of.exp < clock
            /\ y.pc \in {"cleanKey", "removeKey"} => y.ses.exp < clock
  PROVE  ClientInv'
<1>1. proc' \in [Procs -> Records] /\ proc'[p] = y /\ \A q \in Procs \ {p} : proc'[q] = proc[q]
  BY DEF ClientInv, ClientTypes
<1>2. ClientTypes'
  BY <1>1 DEF ClientInv, ClientTypes
<1>3. SleepInv'
  BY <1>1 DEF ClientInv, SleepInv, At
<1>5. AloneInv'
  <2> SUFFICES ASSUME ~raced' PROVE AloneInv'
    BY DEF AloneInv
  <2>1. \A q \in Procs \ {p} : proc'[q].pc = "idle"
    BY <1>1 DEF At
  <2>2. \A q, r \in Procs : q # r => proc'[q].pc = "idle" \/ proc'[r].pc = "idle"
    BY <2>1
  <2>3. \A q \in Procs : proc'[q].cmd # "cleanup" =>
           /\ proc'[q].pc \in {"clean", "cleanRead"} => info'.st = "ok" /\ info'.of.exp < clock
           /\ proc'[q].pc \in {"cleanKey", "removeKey"} => proc'[q].ses.exp < clock
    <3> TAKE q \in Procs
    <3>1. CASE q = p
      BY <1>1, <3>1
    <3>2. CASE q # p
      BY <2>1, <3>2
    <3> QED BY <3>1, <3>2
  <2> QED BY <2>2, <2>3 DEF AloneInv, At
<1> QED BY <1>2, <1>3, <1>5 DEF ClientInv

\* A step of one process that leaves the session file alone.
LEMMA QuietMoves ==
  ASSUME ClientInv, NEW p \in Procs, NEW y \in Records, proc' = [proc EXCEPT ![p] = y],
         UNCHANGED <<clock, info, raced>>, minted' \in Nat,
         ~At(p, "idle"),
         y.pc = "sleep" => clock <= y.wake /\ y.wake < y.ses.exp + KeepAlive,
         ~raced /\ y.cmd # "cleanup" =>
            /\ y.pc \in {"clean", "cleanRead"} => info.st = "ok" /\ info.of.exp < clock
            /\ y.pc \in {"cleanKey", "removeKey"} => y.ses.exp < clock
  PROVE  ClientInv'
<1>1. ~raced => \A q \in Procs \ {p} : At(q, "idle")
  BY DEF ClientInv, AloneInv
<1>2. info \in Files /\ raced \in BOOLEAN
  BY DEF ClientInv, ClientTypes
<1> QED BY <1>1, <1>2, ProcMoves

\* A process moves to a place where nothing is asked of it.
LEMMA QuietGoto ==
  ASSUME ClientInv, NEW p \in Procs, NEW to \in Pcs, Goto(p, to),
         to \notin {"sleep", "clean", "cleanRead", "cleanKey", "removeKey"},
         UNCHANGED <<clock, info, raced>>, minted' \in Nat,
         ~At(p, "idle")
  PROVE  ClientInv'
<1> DEFINE y == [proc[p] EXCEPT !.pc = to]
<1>1. proc[p] \in Records
  BY DEF ClientInv, ClientTypes
<1>2. proc' = [proc EXCEPT ![p] = y]
  BY DEF Goto
<1>3. y \in Records /\ y.pc = to
  BY <1>1, PcUpdate
<1> HIDE DEF y
<1> QED BY <1>2, <1>3, QuietMoves

\* A process ends.
LEMMA QuietExit ==
  ASSUME ClientInv, NEW p \in Procs, Exit(p), UNCHANGED <<clock, info, raced>>, minted' \in Nat,
         ~At(p, "idle")
  PROVE  ClientInv'
<1>1. proc' = [proc EXCEPT ![p] = Idle]
  BY DEF Exit
<1> QED BY <1>1, IdleRecord, QuietMoves

\* load_existing_key_pair.
LEMMA LoadSteps ==
  ASSUME ClientInv, NEW p \in Procs,
         LoadExists(p) \/ LoadRead(p) \/ LoadKey(p) \/ LoadKeyRead(p)
  PROVE  ClientInv'
<1>0. /\ UNCHANGED <<clock, info, raced>> /\ minted' \in Nat
      /\ ~At(p, "idle")
      /\ {"request", "loadRead", "loadKeyRead", "decode"} \subseteq Pcs
  BY DEF LoadExists, LoadRead, LoadKey, LoadKeyRead, historyVars, fileVars, ClientInv, ClientTypes, At, Pcs
<1>1. CASE Exit(p)
  BY <1>0, <1>1, QuietExit
<1>2. ASSUME NEW to \in {"request", "loadRead", "loadKeyRead", "decode"}, Goto(p, to)
      PROVE  ClientInv'
  BY <1>0, <1>2, QuietGoto
<1>3. CASE LoadRead(p) /\ info.st = "ok" /\ Lapsed(info.of) /\ Goto(p, "clean")
  <2> DEFINE y == [proc[p] EXCEPT !.pc = "clean"]
  <2>1. proc[p] \in Records /\ "clean" \in Pcs
    BY DEF ClientInv, ClientTypes, Pcs
  <2>2. proc' = [proc EXCEPT ![p] = y]
    BY <1>3 DEF Goto
  <2>3. y \in Records /\ y.pc = "clean"
    BY <2>1, PcUpdate
  <2>4. info.of.exp < clock
    BY <1>3 DEF Lapsed
  <2> HIDE DEF y
  <2> QED BY <1>0, <1>3, <2>2, <2>3, <2>4, QuietMoves
<1>4. CASE LoadRead(p) /\ With(p, "loadKey", info.of)
  <2> DEFINE y == [proc[p] EXCEPT !.pc = "loadKey", !.ses = info.of]
  <2>1. proc[p] \in Records /\ "loadKey" \in Pcs /\ info.of \in AnySession
    BY DEF ClientInv, ClientTypes, Pcs, Files
  <2>2. proc' = [proc EXCEPT ![p] = y]
    BY <1>4 DEF With
  <2>3. y \in Records /\ y.pc = "loadKey"
    BY <2>1 DEF Records
  <2> HIDE DEF y
  <2> QED BY <1>0, <2>2, <2>3, QuietMoves
<1> QED BY <1>1, <1>2, <1>3, <1>4
        DEF LoadExists, LoadRead, LoadKey, LoadKeyRead, NotFound, Fail

\* cleanup_session.
LEMMA CleanSteps ==
  ASSUME ClientInv, NEW p \in Procs,
         CleanExists(p) \/ CleanRead(p) \/ CleanKey(p) \/ RemoveKey(p) \/ CleanInfo(p)
  PROVE  ClientInv'
<1>0. /\ UNCHANGED <<clock, raced>> /\ minted' \in Nat
      /\ ~At(p, "idle") /\ proc[p] \in Records
      /\ {"request", "cleanRead", "cleanKey", "removeKey", "cleanInfo"} \subseteq Pcs
      /\ info \in Files /\ raced \in BOOLEAN
  BY DEF CleanExists, CleanRead, CleanKey, RemoveKey, CleanInfo, historyVars, fileVars, ClientInv,
         ClientTypes, At, Pcs
<1>1. CASE Exit(p) /\ UNCHANGED info
  BY <1>0, <1>1, QuietExit
<1>2. ASSUME NEW to \in {"request", "cleanInfo"}, Goto(p, to), UNCHANGED info
      PROVE  ClientInv'
  BY <1>0, <1>2, QuietGoto
<1>3. CASE CleanExists(p) /\ Goto(p, "cleanRead")
  <2> DEFINE y == [proc[p] EXCEPT !.pc = "cleanRead"]
  <2>1. proc' = [proc EXCEPT ![p] = y]
    BY <1>3 DEF Goto
  <2>2. y \in Records /\ y.pc = "cleanRead" /\ y.cmd = proc[p].cmd
    BY <1>0, PcUpdate
  <2>3. ~raced /\ proc[p].cmd # "cleanup" => info.st = "ok" /\ info.of.exp < clock
    BY <1>3 DEF CleanExists, At, ClientInv, AloneInv
  <2>4. UNCHANGED info
    BY <1>3 DEF CleanExists, fileVars
  <2> HIDE DEF y
  <2> QED BY <1>0, <2>1, <2>2, <2>3, <2>4, QuietMoves
<1>4. CASE CleanRead(p) /\ With(p, "cleanKey", info.of)
  <2> DEFINE y == [proc[p] EXCEPT !.pc = "cleanKey", !.ses = info.of]
  <2>0. info.of \in AnySession
    BY <1>0 DEF Files
  <2>1. proc' = [proc EXCEPT ![p] = y]
    BY <1>4 DEF With
  <2>2. y \in Records /\ y.pc = "cleanKey" /\ y.cmd = proc[p].cmd /\ y.ses = info.of
    BY <1>0, <2>0 DEF Records
  <2>3. ~raced /\ proc[p].cmd # "cleanup" => info.of.exp < clock
    BY <1>4 DEF CleanRead, At, ClientInv, AloneInv
  <2>4. UNCHANGED info
    BY <1>4 DEF CleanRead, fileVars
  <2> HIDE DEF y
  <2> QED BY <1>0, <2>1, <2>2, <2>3, <2>4, QuietMoves
<1>5. ASSUME NEW y \in Records, y.pc \in {"idle", "request"}, proc' = [proc EXCEPT ![p] = y],
             info' = NoFile
      PROVE  ClientInv'
  <2>1. NoFile \in Files
    BY DEF NoFile, Files, NoSession, AnySession
  <2>2. ~raced => \A q \in Procs \ {p} : At(q, "idle")
    BY <1>0 DEF ClientInv, AloneInv
  <2> QED BY <1>0, <1>5, <2>1, <2>2, ProcMoves
<1>6. CASE CleanInfo(p) /\ info' = NoFile /\ NotFound(p)
  <2>1. CASE Exit(p)
    BY <1>5, <1>6, <2>1, IdleRecord DEF Exit
  <2>2. CASE Goto(p, "request")
    BY <1>0, <1>5, <1>6, <2>2, PcUpdate DEF Goto
  <2> QED BY <1>6, <2>1, <2>2 DEF NotFound
<1>7. CASE CleanKey(p) /\ Goto(p, "removeKey")
  <2> DEFINE y == [proc[p] EXCEPT !.pc = "removeKey"]
  <2>1. proc' = [proc EXCEPT ![p] = y] /\ UNCHANGED info
    BY <1>7 DEF Goto, CleanKey, fileVars
  <2>2. y \in Records /\ y.pc = "removeKey" /\ y.cmd = proc[p].cmd /\ y.ses = proc[p].ses
    BY <1>0, PcUpdate
  <2>3. ~raced /\ proc[p].cmd # "cleanup" => proc[p].ses.exp < clock
    BY <1>7 DEF CleanKey, At, ClientInv, AloneInv
  <2> HIDE DEF y
  <2> QED BY <1>0, <2>1, <2>2, <2>3, QuietMoves
<1> QED BY <1>1, <1>2, <1>3, <1>4, <1>6, <1>7
        DEF CleanExists, CleanRead, CleanKey, RemoveKey, CleanInfo, NotFound, Fail, fileVars

\* request_key_pair, store_private_key and the two halves of each write.
LEMMA StoreSteps ==
  ASSUME ClientInv, NEW p \in Procs,
         RequestKeyPair(p) \/ StorePrivateKey(p) \/ FillKey(p) \/ TruncateInfo(p) \/ FillInfo(p)
  PROVE  ClientInv'
<1>0. /\ UNCHANGED <<clock, raced>> /\ minted' \in Nat /\ minted \in Nat /\ clock \in Nat
      /\ ~At(p, "idle") /\ proc[p] \in Records
      /\ {"storeKey", "fillKey", "truncate", "fillInfo", "decode"} \subseteq Pcs
      /\ info \in Files /\ raced \in BOOLEAN
  BY DEF RequestKeyPair, StorePrivateKey, FillKey, TruncateInfo, FillInfo, historyVars, fileVars, ClientInv,
         ClientTypes, At, Pcs
<1>a. ~raced => \A q \in Procs \ {p} : At(q, "idle")
  BY <1>0 DEF ClientInv, AloneInv
<1>1. CASE RequestKeyPair(p) /\ Exit(p)
  <2>1. UNCHANGED info
    BY <1>1 DEF RequestKeyPair, fileVars
  <2> QED BY <1>0, <1>1, <2>1, QuietExit
<1>2. CASE RequestKeyPair(p) /\ With(p, "storeKey", [id |-> minted + 1, exp |-> clock + Ttl])
  <2> DEFINE ses == [id |-> minted + 1, exp |-> clock + Ttl]
             y == [proc[p] EXCEPT !.pc = "storeKey", !.ses = ses]
  <2>0. ses \in AnySession
    BY <1>0, ClientAssumption DEF AnySession
  <2>1. UNCHANGED info
    BY <1>2 DEF RequestKeyPair, fileVars
  <2>2. proc' = [proc EXCEPT ![p] = y]
    BY <1>2 DEF With
  <2> HIDE DEF ses
  <2>3. y \in Records /\ y.pc = "storeKey"
    BY <1>0, <2>0 DEF Records
  <2> HIDE DEF y
  <2> QED BY <1>0, <2>1, <2>2, <2>3, QuietMoves
<1>3. CASE StorePrivateKey(p) \/ FillKey(p)
  <2>1. UNCHANGED info /\ (Goto(p, "fillKey") \/ Goto(p, "truncate"))
    BY <1>3 DEF StorePrivateKey, FillKey
  <2> QED BY <1>0, <2>1, QuietGoto
<1>4. CASE TruncateInfo(p)
  <2> DEFINE y == [proc[p] EXCEPT !.pc = "fillInfo"]
  <2>1. y \in Records /\ y.pc = "fillInfo"
    BY <1>0, PcUpdate
  <2>2. proc' = [proc EXCEPT ![p] = y] /\ info' = Emptied
    BY <1>4 DEF TruncateInfo, Goto
  <2>3. Emptied \in Files
    BY DEF Emptied, Files, NoSession, AnySession
  <2> HIDE DEF y
  <2> QED BY <1>0, <1>a, <2>1, <2>2, <2>3, ProcMoves
<1>5. CASE FillInfo(p)
  <2>1. info' \in Files
    <3>1. proc[p].ses \in AnySession
      BY <1>0 DEF Records
    <3>2. File(proc[p].ses) \in Files /\ Torn \in Files
      BY <3>1 DEF File, Torn, Files, NoSession, AnySession
    <3> QED BY <1>0, <1>5, <3>2 DEF FillInfo, Filled
  <2>2. CASE Goto(p, "decode")
    <3> DEFINE y == [proc[p] EXCEPT !.pc = "decode"]
    <3>1. y \in Records /\ y.pc = "decode"
      BY <1>0, PcUpdate
    <3>2. proc' = [proc EXCEPT ![p] = y]
      BY <2>2 DEF Goto
    <3> HIDE DEF y
    <3> QED BY <1>0, <1>a, <2>1, <3>1, <3>2, ProcMoves
  <2>3. CASE Exit(p)
    <3>1. proc' = [proc EXCEPT ![p] = Idle]
      BY <2>3 DEF Exit
    <3> QED BY <1>0, <1>a, <2>1, <3>1, IdleRecord, ProcMoves
  <2> QED BY <1>5, <2>2, <2>3 DEF FillInfo
<1> QED BY <1>1, <1>2, <1>3, <1>4, <1>5 DEF RequestKeyPair, Fail

\* TunnelManager::forward and TunnelClient.
LEMMA TunnelSteps ==
  ASSUME ClientInv, NEW p \in Procs,
         \/ Decode(p) \/ Connect(p) \/ Authenticate(p) \/ RequestReverseTunnel(p)
         \/ CheckExpiry(p) \/ WakeUp(p) \/ SendKeepalive(p) \/ CloseTunnel(p) \/ CtrlC(p)
  PROVE  ClientInv'
<1>0. /\ UNCHANGED <<clock, info, raced>> /\ minted' \in Nat /\ clock \in Nat
      /\ ~At(p, "idle") /\ proc[p] \in Records
      /\ {"connect", "authenticate", "tcpipForward", "check", "sleep", "close", "keepAlive"} \subseteq Pcs
  BY DEF Decode, Connect, Authenticate, RequestReverseTunnel, Ask, CheckExpiry, WakeUp,
         SendKeepalive, CloseTunnel, CtrlC, historyVars, fileVars, ClientInv, ClientTypes, At, Pcs
<1>1. CASE Exit(p)
  BY <1>0, <1>1, QuietExit
<1>2. ASSUME NEW to \in {"authenticate", "tcpipForward", "check", "close", "keepAlive"}, Goto(p, to)
      PROVE  ClientInv'
  BY <1>0, <1>2, QuietGoto
<1>3. CASE proc' = [proc EXCEPT ![p].pc = "connect", ![p].wake = clock + ConnectTimeout]
  <2> DEFINE y == [proc[p] EXCEPT !.pc = "connect", !.wake = clock + ConnectTimeout]
  <2>1. clock + ConnectTimeout \in Nat
    BY <1>0, ClientAssumption
  <2>2. y \in Records /\ y.pc = "connect"
    BY <1>0, <2>1 DEF Records
  <2>3. proc' = [proc EXCEPT ![p] = y]
    BY <1>3
  <2> HIDE DEF y
  <2> QED BY <1>0, <2>2, <2>3, QuietMoves
<1>4. CASE ~Due(p) /\ proc' = [proc EXCEPT ![p].pc = "sleep", ![p].wake = clock + KeepAlive]
  <2> DEFINE y == [proc[p] EXCEPT !.pc = "sleep", !.wake = clock + KeepAlive]
  <2>1. clock + KeepAlive \in Nat /\ KeepAlive \in Nat /\ proc[p].ses.exp \in Nat
    BY <1>0, ClientAssumption DEF Records, AnySession
  <2>2. y \in Records /\ y.pc = "sleep" /\ y.wake = clock + KeepAlive /\ y.ses = proc[p].ses
    BY <1>0, <2>1 DEF Records
  <2>3. proc' = [proc EXCEPT ![p] = y]
    BY <1>4
  <2>4. clock < proc[p].ses.exp
    BY <1>0, <1>4, <2>1 DEF Due
  <2> HIDE DEF y
  <2>5. clock <= y.wake /\ y.wake < y.ses.exp + KeepAlive
    BY <1>0, <2>1, <2>2, <2>4
  <2> QED BY <1>0, <2>2, <2>3, <2>5, QuietMoves
<1> QED BY <1>1, <1>2, <1>3, <1>4
        DEF Decode, Connect, Authenticate, RequestReverseTunnel, Ask, CheckExpiry, WakeUp,
            SendKeepalive, CloseTunnel, CtrlC, Fail

\* A command is started, or killed, or ended by a file operation that fails.
LEMMA StartAndFaults ==
  ASSUME ClientInv, NEW p \in Procs, (\E c \in Commands : Start(p, c)) \/ IoFails(p) \/ Kill(p)
  PROVE  ClientInv'
<1>0. /\ UNCHANGED clock /\ minted' \in Nat /\ clock \in Nat /\ proc[p] \in Records
      /\ info \in Files /\ raced \in BOOLEAN
  BY DEF Start, IoFails, Kill, fileVars, ClientInv, ClientTypes
<1>1. ASSUME NEW c \in Commands, Start(p, c) PROVE ClientInv'
  <2> DEFINE s == IF c = "test" THEN [id |-> TestId, exp |-> clock + Ttl] ELSE NoSession
             y == [Idle EXCEPT !.pc = FirstPc(c), !.cmd = c, !.ses = s]
  <2>1. s \in AnySession
    BY <1>0, ClientAssumption DEF AnySession, NoSession, TestId
  <2>2. /\ FirstPc(c) \in {"load", "clean", "request", "storeKey"}
        /\ FirstPc(c) = "clean" => c = "cleanup"
        /\ FirstPc(c) \in Pcs
    BY DEF FirstPc, Commands, Pcs
  <2>3. proc' = [proc EXCEPT ![p] = y] /\ UNCHANGED info
        /\ raced' = (raced \/ \E q \in Procs : proc[q].pc # "idle")
    BY <1>1 DEF Start, fileVars
  <2> HIDE DEF s
  <2>4. y \in Records /\ y.pc = FirstPc(c) /\ y.cmd = c
    <3>1. Idle \in Records
      BY IdleRecord
    <3> QED BY <2>1, <2>2, <3>1 DEF Records
  <2> HIDE DEF y
  <2>5. raced' \in BOOLEAN
    BY <1>0, <2>3
  <2>6. ~raced' => ~raced /\ \A q \in Procs \ {p} : At(q, "idle")
    BY <2>3 DEF At
  <2> QED BY <1>0, <2>2, <2>3, <2>4, <2>5, <2>6, ProcMoves
<1>2. CASE IoFails(p) \/ Kill(p)
  <2>1. proc' = [proc EXCEPT ![p] = Idle] /\ raced' = raced /\ ~At(p, "idle")
    BY <1>2 DEF IoFails, Kill, Fail, Exit, historyVars, At
  <2>2. info' \in Files
    <3>1. Torn \in Files
      BY DEF Torn, Files, NoSession, AnySession
    <3> QED BY <1>0, <1>2, <3>1 DEF IoFails, Kill
  <2>3. ~raced => \A q \in Procs \ {p} : At(q, "idle")
    BY <2>1 DEF ClientInv, AloneInv
  <2> QED BY <1>0, <2>1, <2>2, <2>3, IdleRecord, ProcMoves
<1> QED BY <1>1, <1>2

\* The network and the clock.
LEMMA SurroundingSteps ==
  ASSUME ClientInv, (\E p \in Procs : LinkFails(p) \/ TcpGivesUp(p)) \/ TickClient
  PROVE  ClientInv'
<1>1. CASE \E p \in Procs : LinkFails(p) \/ TcpGivesUp(p)
  <2>1. UNCHANGED <<clock, info, minted, proc, raced>>
    BY <1>1 DEF LinkFails, TcpGivesUp, historyVars, fileVars
  <2> QED BY <2>1 DEF ClientInv, ClientTypes, SleepInv, AloneInv, At
<1>2. CASE TickClient
  <2>1. /\ UNCHANGED <<info, minted, proc, raced>> /\ clock' = clock + 1 /\ clock \in Nat
        /\ \A p \in Procs : Waiting(p)
    BY <1>2 DEF TickClient, historyVars, fileVars, ClientInv, ClientTypes
  <2>2. \A p \in Procs : proc[p].wake \in Nat /\ proc[p].ses.exp \in Nat
    BY DEF ClientInv, ClientTypes, Records, AnySession
  <2>3. ClientTypes'
    BY <2>1 DEF ClientInv, ClientTypes
  <2>4. SleepInv'
    BY <2>1, <2>2 DEF ClientInv, SleepInv, Waiting, At
  <2>6. info.of.exp \in Nat
    BY DEF ClientInv, ClientTypes, Files, AnySession
  <2>7. AloneInv'
    BY <2>1, <2>2, <2>6 DEF ClientInv, AloneInv, At
  <2> QED BY <2>3, <2>4, <2>7 DEF ClientInv
<1> QED BY <1>1, <1>2

\* The client's invariant holds in every state it can reach.
THEOREM ClientInvariance == ClientSpec => []ClientInv
<1>1. ClientInv /\ [ClientNext]_clientVars => ClientInv'
  <2> SUFFICES ASSUME ClientInv, [ClientNext]_clientVars PROVE ClientInv'
    OBVIOUS
  <2>1. CASE ClientNext
    BY <2>1, LoadSteps, CleanSteps, StoreSteps, TunnelSteps, StartAndFaults, SurroundingSteps
       DEF ClientNext, ProcStep
  <2>2. CASE UNCHANGED clientVars
    BY <2>2 DEF clientVars, historyVars, fileVars, ClientInv, ClientTypes, SleepInv, AloneInv, At
  <2> QED BY <2>1, <2>2
<1> QED BY <1>1, ClientStarts, PTL DEF ClientSpec

\* run_until_expiry holds a tunnel less than one keep-alive interval past its
\* expiry while its link answers.
THEOREM HeldUntilExpiry == ClientSpec => []HeldToExpiry
<1>1. ClientInv => HeldToExpiry
  <2> SUFFICES ASSUME ClientInv, NEW p \in Procs, At(p, "sleep")
               PROVE  clock < proc[p].ses.exp + KeepAlive
    BY DEF HeldToExpiry
  <2>1. /\ clock \in Nat /\ proc[p].wake \in Nat /\ proc[p].ses.exp \in Nat /\ KeepAlive \in Nat
    BY ClientAssumption DEF ClientInv, ClientTypes, Records, AnySession
  <2> QED BY <2>1 DEF ClientInv, SleepInv
<1> QED BY <1>1, ClientInvariance, PTL

\* Ids the API has handed out, and those nobody had from it.
KnownId(i) == i \in 0 .. minted \/ i = TestId
StoringKey(x) == x.pc \in {"storeKey", "fillKey"}

\* A session whose key is being stored is known to its own command only; a key
\* written in part belongs to a command that is at it, or to none.
KeysInv ==
    /\ minted <= MaxSessions
    /\ KnownId(info.of.id)
    /\ \A p \in Procs : KnownId(proc[p].ses.id)
    /\ \A k \in partKeys : KnownId(k.id) /\ k.id # 0
    /\ \A p \in Procs : StoringKey(proc[p]) /\ proc[p].ses.id # TestId =>
          /\ proc[p].ses.id # 0 /\ info.of.id # proc[p].ses.id
          /\ \A q \in Procs \ {p} : proc[q].ses.id # proc[p].ses.id
    /\ \A k \in partKeys : k.id # TestId =>
          info.of # k /\ \A p \in Procs : proc[p].ses = k => At(p, "fillKey")

\* A step of one process that stores no key: it keeps its session, takes the one
\* of the session file, gives its own up, or starts with the mock session.
LEMMA KeysMove ==
  ASSUME ClientTypes, KeysInv, NEW p \in Procs, NEW y \in Records, proc' = [proc EXCEPT ![p] = y],
         UNCHANGED minted, partKeys' \subseteq partKeys,
         info'.of \in {info.of, NoSession} \/ (info'.of = proc[p].ses /\ ~StoringKey(proc[p])),
         \/ y.ses.id = TestId
         \/ y.ses \in {NoSession, info.of} /\ ~StoringKey(y)
         \/ /\ y.ses = proc[p].ses /\ ~StoringKey(y)
            /\ At(p, "fillKey") => y.ses \notin partKeys'
  PROVE  KeysInv'
<1>0. /\ proc \in [Procs -> Records] /\ proc'[p] = y /\ \A q \in Procs \ {p} : proc'[q] = proc[q]
      /\ minted \in Nat /\ MaxSessions \in Nat /\ minted <= MaxSessions /\ NoSession.id = 0
  BY ClientAssumption DEF ClientTypes, KeysInv, NoSession
<1>1. KnownId(0) /\ KnownId(info.of.id) /\ \A q \in Procs : KnownId(proc[q].ses.id)
  BY <1>0 DEF KeysInv, KnownId
<1>2. KnownId(y.ses.id) /\ KnownId(info'.of.id)
  BY <1>0, <1>1 DEF KnownId
<1>3. /\ \A q \in Procs : KnownId(proc'[q].ses.id)
      /\ \A k \in partKeys' : KnownId(k.id) /\ k.id # 0
  <2>1. \A q \in Procs : q = p \/ q \in Procs \ {p}
    OBVIOUS
  <2> QED BY <1>0, <1>1, <1>2, <2>1 DEF KeysInv
<1>4. ASSUME NEW q \in Procs, StoringKey(proc'[q]), proc'[q].ses.id # TestId
      PROVE  /\ proc'[q].ses.id # 0 /\ info'.of.id # proc'[q].ses.id
             /\ \A o \in Procs \ {q} : proc'[o].ses.id # proc'[q].ses.id
  <2>1. q # p /\ proc'[q] = proc[q]
    BY <1>0, <1>4
  <2>2. /\ proc[q].ses.id # 0 /\ info.of.id # proc[q].ses.id
        /\ \A o \in Procs \ {q} : proc[o].ses.id # proc[q].ses.id
    BY <1>4, <2>1 DEF KeysInv
  <2>3. info'.of.id # proc[q].ses.id /\ y.ses.id # proc[q].ses.id
    BY <1>0, <1>4, <2>1, <2>2
  <2> QED BY <1>0, <2>1, <2>2, <2>3
<1>5. ASSUME NEW k \in partKeys', k.id # TestId
      PROVE  info'.of # k /\ \A q \in Procs : proc'[q].ses = k => proc'[q].pc = "fillKey"
  <2>1. k.id # 0 /\ info.of # k /\ \A q \in Procs : proc[q].ses = k => proc[q].pc = "fillKey"
    BY <1>5 DEF KeysInv, At
  <2>2. info'.of # k
    BY <1>0, <2>1 DEF StoringKey
  <2>3. y.ses # k
    BY <1>0, <1>5, <2>1 DEF At
  <2> QED BY <1>0, <2>1, <2>2, <2>3
<1> QED BY <1>0, <1>2, <1>3, <1>4, <1>5 DEF KeysInv, KnownId, At

\* A step that stores no key and leaves the files as they are.
LEMMA KeysQuiet ==
  ASSUME ClientTypes, KeysInv, NEW p \in Procs, ~At(p, "fillKey"),
         UNCHANGED minted, partKeys' \subseteq partKeys, info'.of \in {info.of, NoSession},
         \/ Exit(p)
         \/ \E to \in Pcs : /\ to \notin {"storeKey", "fillKey"}
                            /\ \/ Goto(p, to) \/ With(p, to, info.of)
                               \/ \E w \in Nat : proc' = [proc EXCEPT ![p].pc = to, ![p].wake = w]
  PROVE  KeysInv'
<1>0. proc[p] \in Records /\ info \in Files /\ info.of \in AnySession
  BY DEF ClientTypes, Files
<1>1. CASE Exit(p)
  <2>1. proc' = [proc EXCEPT ![p] = Idle] /\ Idle.ses = NoSession /\ ~StoringKey(Idle)
    BY <1>1 DEF Exit, Idle, StoringKey
  <2> QED BY <2>1, IdleRecord, KeysMove
<1>2. ASSUME NEW to \in Pcs, to \notin {"storeKey", "fillKey"}, Goto(p, to) PROVE KeysInv'
  <2> DEFINE y == [proc[p] EXCEPT !.pc = to]
  <2>1. y \in Records /\ y.pc = to /\ y.ses = proc[p].ses
    BY <1>0, PcUpdate
  <2>2. proc' = [proc EXCEPT ![p] = y]
    BY <1>2 DEF Goto
  <2> HIDE DEF y
  <2> QED BY <1>2, <2>1, <2>2, KeysMove DEF StoringKey
<1>3. ASSUME NEW to \in Pcs, to \notin {"storeKey", "fillKey"}, With(p, to, info.of) PROVE KeysInv'
  <2> DEFINE y == [proc[p] EXCEPT !.pc = to, !.ses = info.of]
  <2>1. y \in Records /\ y.pc = to /\ y.ses = info.of
    BY <1>0 DEF Records
  <2>2. proc' = [proc EXCEPT ![p] = y]
    BY <1>3 DEF With
  <2> HIDE DEF y
  <2> QED BY <1>3, <2>1, <2>2, KeysMove DEF StoringKey
<1>4. ASSUME NEW to \in Pcs, to \notin {"storeKey", "fillKey"}, NEW w \in Nat,
             proc' = [proc EXCEPT ![p].pc = to, ![p].wake = w]
      PROVE  KeysInv'
  <2> DEFINE y == [proc[p] EXCEPT !.pc = to, !.wake = w]
  <2>1. y \in Records /\ y.pc = to /\ y.ses = proc[p].ses
    BY <1>0 DEF Records
  <2>2. proc' = [proc EXCEPT ![p] = y]
    BY <1>4
  <2> HIDE DEF y
  <2> QED BY <1>4, <2>1, <2>2, KeysMove DEF StoringKey
<1> QED BY <1>1, <1>2, <1>3, <1>4

\* The steps that read, clean up or use a session.
LEMMA KeysReaders ==
  ASSUME ClientTypes, KeysInv, NEW p \in Procs,
         \/ LoadExists(p) \/ LoadRead(p) \/ LoadKey(p) \/ LoadKeyRead(p)
         \/ CleanExists(p) \/ CleanRead(p) \/ CleanKey(p) \/ RemoveKey(p) \/ CleanInfo(p)
         \/ Decode(p) \/ Connect(p) \/ Authenticate(p) \/ RequestReverseTunnel(p)
         \/ CheckExpiry(p) \/ WakeUp(p) \/ SendKeepalive(p) \/ CloseTunnel(p) \/ CtrlC(p)
  PROVE  KeysInv'
<1> DEFINE Tos == {"request", "loadRead", "loadKeyRead", "decode", "clean", "cleanRead", "removeKey",
                   "cleanInfo", "loadKey", "cleanKey", "connect", "sleep", "authenticate",
                   "tcpipForward", "check", "close", "keepAlive"}
<1>0. clock + KeepAlive \in Nat /\ clock + ConnectTimeout \in Nat
      /\ \A to \in Tos : to \in Pcs /\ to \notin {"storeKey", "fillKey"}
  BY ClientAssumption DEF ClientTypes, Pcs
<1>1. CASE \/ LoadExists(p) \/ LoadRead(p) \/ LoadKey(p) \/ LoadKeyRead(p)
           \/ CleanExists(p) \/ CleanRead(p) \/ CleanKey(p)
  <2>1. ~At(p, "fillKey") /\ UNCHANGED <<minted, info, partKeys>>
    BY <1>1 DEF LoadExists, LoadRead, LoadKey, LoadKeyRead, CleanExists, CleanRead, CleanKey,
                fileVars, At
  <2>2. Exit(p) \/ \E to \in Tos : Goto(p, to) \/ With(p, to, info.of)
    BY <1>1 DEF LoadExists, LoadRead, LoadKey, LoadKeyRead, CleanExists, CleanRead, CleanKey,
                NotFound, Fail
  <2> QED BY <1>0, <2>1, <2>2, KeysQuiet
<1>2. CASE RemoveKey(p) \/ CleanInfo(p)
  <2>1. ~At(p, "fillKey") /\ UNCHANGED minted /\ partKeys' \subseteq partKeys
        /\ info'.of \in {info.of, NoSession}
    BY <1>2 DEF RemoveKey, CleanInfo, NoFile, At
  <2>2. Exit(p) \/ \E to \in Tos : Goto(p, to)
    BY <1>2 DEF RemoveKey, CleanInfo, NotFound, Fail
  <2> QED BY <1>0, <2>1, <2>2, KeysQuiet
<1>3. CASE \/ Decode(p) \/ Connect(p) \/ Authenticate(p) \/ RequestReverseTunnel(p)
           \/ CheckExpiry(p) \/ WakeUp(p) \/ SendKeepalive(p) \/ CloseTunnel(p) \/ CtrlC(p)
  <2>1. ~At(p, "fillKey") /\ UNCHANGED <<minted, info, partKeys>>
    BY <1>3 DEF Decode, Connect, Authenticate, RequestReverseTunnel, Ask, CheckExpiry, WakeUp,
                SendKeepalive, CloseTunnel, CtrlC, fileVars, At
  <2>2. \/ Exit(p) \/ \E to \in Tos : Goto(p, to)
        \/ proc' = [proc EXCEPT ![p].pc = "connect", ![p].wake = clock + ConnectTimeout]
        \/ proc' = [proc EXCEPT ![p].pc = "sleep", ![p].wake = clock + KeepAlive]
    BY <1>3 DEF Decode, Connect, Authenticate, RequestReverseTunnel, Ask, CheckExpiry, WakeUp,
                SendKeepalive, CloseTunnel, CtrlC, Fail
  <2> QED BY <1>0, <2>1, <2>2, KeysQuiet
<1> QED BY <1>1, <1>2, <1>3

\* The steps that make a session and write it.
LEMMA KeysWriters ==
  ASSUME ClientTypes, KeysInv, NEW p \in Procs,
         \/ RequestKeyPair(p) \/ StorePrivateKey(p) \/ FillKey(p) \/ TruncateInfo(p) \/ FillInfo(p)
  PROVE  KeysInv'
<1>0. /\ proc \in [Procs -> Records] /\ proc[p] \in Records /\ info \in Files
      /\ minted \in Nat /\ MaxSessions \in Nat /\ clock + Ttl \in Nat /\ NoSession.id = 0
      /\ \A q \in Procs : proc[q].ses.id \in Nat
      /\ {"storeKey", "fillKey", "truncate", "fillInfo", "decode"} \subseteq Pcs
  BY ClientAssumption DEF ClientTypes, Pcs, NoSession, Records, AnySession
<1>1. CASE RequestKeyPair(p) /\ Exit(p)
  <2>1. /\ proc' = [proc EXCEPT ![p] = Idle] /\ Idle.ses = NoSession /\ ~StoringKey(Idle)
        /\ UNCHANGED <<info, partKeys>> /\ minted' \in {minted, minted + 1} /\ minted' <= MaxSessions
    BY <1>0, <1>1 DEF RequestKeyPair, Exit, Idle, StoringKey, fileVars, KeysInv
  <2>2. \A i : KnownId(i) => KnownId(i)'
    BY <1>0, <2>1 DEF KnownId
  <2>3. proc'[p] = Idle /\ \A q \in Procs \ {p} : proc'[q] = proc[q]
    BY <1>0, <2>1
  <2>4. KnownId(0)'
    BY <1>0, <2>1 DEF KnownId
  <2> QED BY <1>0, <2>1, <2>2, <2>3, <2>4 DEF KeysInv, At
<1>2. CASE /\ RequestKeyPair(p) /\ minted < MaxSessions /\ minted' = minted + 1
           /\ With(p, "storeKey", [id |-> minted + 1, exp |-> clock + Ttl])
  <2> DEFINE ses == [id |-> minted + 1, exp |-> clock + Ttl]
             y == [proc[p] EXCEPT !.pc = "storeKey", !.ses = ses]
  <2>1. proc' = [proc EXCEPT ![p] = y] /\ UNCHANGED <<info, partKeys>>
    BY <1>2 DEF RequestKeyPair, With, fileVars
  <2>2. ses \in AnySession /\ ses.id = minted + 1
    BY <1>0 DEF AnySession
  <2> HIDE DEF ses
  <2>3. y \in Records /\ y.pc = "storeKey" /\ y.ses = ses
    BY <1>0, <2>2 DEF Records
  <2> HIDE DEF y
  <2>4. proc'[p] = y /\ \A q \in Procs \ {p} : proc'[q] = proc[q]
    BY <1>0, <2>1
  <2>5. \A i : KnownId(i) => KnownId(i)'
    BY <1>0, <1>2 DEF KnownId
  <2>6. \A i : KnownId(i) => i # minted + 1
    <3>1. \A i \in 0 .. minted : i # minted + 1
      BY <1>0
    <3>2. TestId # minted + 1
      BY <1>0, <1>2 DEF TestId
    <3> QED BY <3>1, <3>2 DEF KnownId
  <2>7. minted + 1 \in 0 .. minted' /\ minted' <= MaxSessions
    BY <1>0, <1>2
  <2>8. proc'[p].ses.id \in 0 .. minted'
    BY <2>2, <2>3, <2>4, <2>7
  <2>9. /\ info.of.id # ses.id /\ ses.id # 0
        /\ \A q \in Procs : proc[q].ses.id # ses.id
        /\ \A k \in partKeys : k # ses
    BY <1>0, <2>2, <2>6 DEF KeysInv
  <2>10. /\ KnownId(info.of.id)'
         /\ \A q \in Procs : KnownId(proc[q].ses.id)'
         /\ \A k \in partKeys' : KnownId(k.id)' /\ k.id # 0
    BY <2>1, <2>4, <2>5, <2>8 DEF KeysInv, KnownId
  <2>11. \A q \in Procs : StoringKey(proc'[q]) /\ proc'[q].ses.id # TestId =>
            /\ proc'[q].ses.id # 0 /\ info'.of.id # proc'[q].ses.id
            /\ \A o \in Procs \ {q} : proc'[o].ses.id # proc'[q].ses.id
    BY <2>1, <2>3, <2>4, <2>9 DEF KeysInv
  <2>12. \A k \in partKeys' : k.id # TestId =>
            info'.of # k /\ \A q \in Procs : proc'[q].ses = k => proc'[q].pc = "fillKey"
    BY <2>1, <2>3, <2>4, <2>9 DEF KeysInv, At
  <2> QED BY <2>7, <2>10, <2>11, <2>12 DEF KeysInv, At
<1>3. CASE StorePrivateKey(p)
  <2> DEFINE y == [proc[p] EXCEPT !.pc = "fillKey"]
  <2>1. y \in Records /\ y.pc = "fillKey" /\ y.ses = proc[p].ses
    BY <1>0, PcUpdate
  <2>2. /\ proc' = [proc EXCEPT ![p] = y] /\ UNCHANGED <<info, minted>>
        /\ partKeys' = partKeys \cup {proc[p].ses} /\ At(p, "storeKey")
    BY <1>3 DEF StorePrivateKey, Goto
  <2> HIDE DEF y
  <2>3. proc'[p] = y /\ \A q \in Procs \ {p} : proc'[q] = proc[q]
    BY <1>0, <2>2
  <2>4. \A i : KnownId(i) <=> KnownId(i)'
    BY <2>2 DEF KnownId
  <2>5. proc[p].ses.id # TestId =>
           /\ proc[p].ses.id # 0 /\ info.of.id # proc[p].ses.id
           /\ \A q \in Procs \ {p} : proc[q].ses.id # proc[p].ses.id
    BY <2>2 DEF KeysInv, StoringKey, At
  <2>6. TestId # 0
    BY <1>0 DEF TestId
  <2> QED BY <1>0, <2>1, <2>2, <2>3, <2>4, <2>5, <2>6 DEF KeysInv, At, StoringKey
<1>4. CASE FillKey(p) \/ TruncateInfo(p)
  <2>1. \E to \in {"truncate", "fillInfo"} : Goto(p, to)
    BY <1>4 DEF FillKey, TruncateInfo
  <2>2. PICK to \in {"truncate", "fillInfo"} : Goto(p, to)
    BY <2>1
  <2> DEFINE y == [proc[p] EXCEPT !.pc = to]
  <2>3. y \in Records /\ y.pc = to /\ y.ses = proc[p].ses
    BY <1>0, PcUpdate
  <2>4. proc' = [proc EXCEPT ![p] = y]
    BY <2>2 DEF Goto
  <2> HIDE DEF y
  <2>5. /\ UNCHANGED minted /\ partKeys' \subseteq partKeys /\ info'.of \in {info.of, NoSession}
        /\ At(p, "fillKey") => proc[p].ses \notin partKeys'
    BY <1>4 DEF FillKey, TruncateInfo, Emptied, At
  <2> QED BY <2>3, <2>4, <2>5, KeysMove DEF StoringKey
<1>5. CASE FillInfo(p)
  <2>1. /\ UNCHANGED <<minted, partKeys>> /\ At(p, "fillInfo") /\ ~StoringKey(proc[p])
        /\ info'.of \in {info.of, NoSession, proc[p].ses}
    BY <1>5 DEF FillInfo, Filled, File, Torn, StoringKey, At
  <2>2. CASE Exit(p)
    <3>1. proc' = [proc EXCEPT ![p] = Idle] /\ Idle.ses = NoSession /\ ~StoringKey(Idle)
      BY <2>2 DEF Exit, Idle, StoringKey
    <3> QED BY <2>1, <3>1, IdleRecord, KeysMove
  <2>3. CASE Goto(p, "decode")
    <3> DEFINE y == [proc[p] EXCEPT !.pc = "decode"]
    <3>1. y \in Records /\ y.pc = "decode" /\ y.ses = proc[p].ses
      BY <1>0, PcUpdate
    <3>2. proc' = [proc EXCEPT ![p] = y]
      BY <2>3 DEF Goto
    <3> HIDE DEF y
    <3> QED BY <2>1, <3>1, <3>2, KeysMove DEF StoringKey, At
  <2> QED BY <1>5, <2>2, <2>3 DEF FillInfo
<1> QED BY <1>1, <1>2, <1>3, <1>4, <1>5 DEF RequestKeyPair, Fail

\* A command starts, or is ended by a kill or by a file operation that fails,
\* inside the write of its key for one.
LEMMA KeysFaults ==
  ASSUME ClientTypes, KeysInv, NEW p \in Procs,
         (\E c \in Commands : Start(p, c)) \/ IoFails(p) \/ Kill(p)
  PROVE  KeysInv'
<1>1. ASSUME NEW c \in Commands, Start(p, c) PROVE KeysInv'
  <2> DEFINE s == IF c = "test" THEN [id |-> TestId, exp |-> clock + Ttl] ELSE NoSession
             y == [Idle EXCEPT !.pc = FirstPc(c), !.cmd = c, !.ses = s]
  <2>1. s \in AnySession /\ (c = "test" => s.id = TestId) /\ (c # "test" => s = NoSession)
    BY ClientAssumption DEF ClientTypes, AnySession, NoSession, TestId
  <2>2. FirstPc(c) \in Pcs /\ (c # "test" => FirstPc(c) \notin {"storeKey", "fillKey"})
    BY DEF FirstPc, Commands, Pcs
  <2>3. proc' = [proc EXCEPT ![p] = y] /\ UNCHANGED <<info, partKeys, minted>>
    BY <1>1 DEF Start, fileVars
  <2> HIDE DEF s
  <2>4. y \in Records /\ y.pc = FirstPc(c) /\ y.ses = s
    <3>1. Idle \in Records
      BY IdleRecord
    <3> QED BY <2>1, <2>2, <3>1 DEF Records
  <2> HIDE DEF y
  <2>5. y.ses.id = TestId \/ (y.ses = NoSession /\ ~StoringKey(y))
    BY <2>1, <2>2, <2>4 DEF StoringKey
  <2> QED BY <2>3, <2>4, <2>5, KeysMove
<1>2. CASE IoFails(p) \/ Kill(p)
  <2>1. /\ proc' = [proc EXCEPT ![p] = Idle] /\ UNCHANGED <<partKeys, minted>>
        /\ info'.of \in {info.of, NoSession} /\ Idle.ses = NoSession /\ ~StoringKey(Idle)
    BY <1>2 DEF IoFails, Kill, Fail, Exit, Idle, Torn, StoringKey
  <2> QED BY <2>1, IdleRecord, KeysMove
<1> QED BY <1>1, <1>2

\* A session file that can be read never names a key written in part, whatever
\* fails, whoever is killed and however commands overlap.
THEOREM NamedKeysWhole == ClientSpec => []NamedKeyWhole
<1>1. ClientInit => KeysInv
  <2>1. ASSUME ClientInit PROVE KeysInv
    <3>1. Idle.pc = "idle" /\ Idle.ses = NoSession /\ NoSession.id = 0 /\ NoFile.of = NoSession
      BY DEF Idle, NoSession, NoFile
    <3> QED BY <2>1, <3>1, ClientAssumption DEF ClientInit, KeysInv, KnownId, StoringKey
  <2> QED BY <2>1
<1>2. ClientInv /\ KeysInv /\ [ClientNext]_clientVars => KeysInv'
  <2> SUFFICES ASSUME ClientInv, KeysInv, [ClientNext]_clientVars PROVE KeysInv'
    OBVIOUS
  <2>0. ClientTypes
    BY DEF ClientInv
  <2>1. CASE UNCHANGED <<info, partKeys, minted, proc>>
    BY <2>1 DEF KeysInv, KnownId, StoringKey, At
  <2>2. CASE (\E p \in Procs : LinkFails(p) \/ TcpGivesUp(p)) \/ TickClient \/ UNCHANGED clientVars
    BY <2>1, <2>2 DEF LinkFails, TcpGivesUp, TickClient, clientVars, fileVars
  <2> QED BY <2>0, <2>2, KeysReaders, KeysWriters, KeysFaults DEF ClientNext, ProcStep
<1>3. KeysInv => NamedKeyWhole
  BY DEF KeysInv, NamedKeyWhole
<1> QED BY <1>1, <1>2, <1>3, ClientInvariance, PTL DEF ClientSpec

\* With commands run one at a time, a private key leaves the disk only when its
\* session has expired or by `edf keys cleanup`.
THEOREM LiveKeysKept == ClientSpec => LiveKeyKept
<1>1. ClientInv /\ [ClientNext]_clientVars =>
         [~raced' => \A k \in keyFiles \ keyFiles' :
             k.exp < clock \/ \E p \in Procs : proc[p].cmd = "cleanup" /\ proc[p].ses = k]_clientVars
  <2> SUFFICES ASSUME ClientInv, ClientNext, ~raced', NEW k \in keyFiles \ keyFiles'
               PROVE  k.exp < clock \/ \E p \in Procs : proc[p].cmd = "cleanup" /\ proc[p].ses = k
    OBVIOUS
  <2>1. PICK p \in Procs : RemoveKey(p)
    BY DEF ClientNext, ProcStep, Start, LoadExists, LoadRead, LoadKey, LoadKeyRead, CleanExists,
           CleanRead, CleanKey, CleanInfo, RequestKeyPair, StorePrivateKey, FillKey, TruncateInfo,
           FillInfo, Decode, Connect, Authenticate, RequestReverseTunnel, Ask, CheckExpiry, WakeUp,
           SendKeepalive, CloseTunnel, CtrlC, IoFails, Kill, LinkFails, TcpGivesUp, TickClient,
           fileVars
  <2>2. At(p, "removeKey") /\ k = proc[p].ses /\ raced' = raced
    BY <2>1 DEF RemoveKey, historyVars
  <2>3. proc[p].cmd # "cleanup" => k.exp < clock
    BY <2>2 DEF ClientInv, AloneInv, At
  <2> QED BY <2>2, <2>3
<1> QED BY <1>1, ClientInvariance, PTL DEF ClientSpec, LiveKeyKept

-----------------------------------------------------------------------------
(* LocalForward. *)

Messages == [k : {"open", "data", "eof"}, c : Channels]

\* Where message m is in w.
Places(w, m) == {i \in 1..Len(w) : w[i] = m}
Pending(w, c) == Cardinality(Places(w, Message("data", c)))

ForwardTypes ==
    /\ wire \in Seq(Messages)
    /\ copier \in [Channels -> {"none", "connect", "copy", "refused", "broken", "done"}]
    /\ queued \in [Channels -> Nat] /\ sent \in [Channels -> Nat] /\ passed \in [Channels -> Nat]
    /\ eof \in [Channels -> SUBSET {"hub", "local"}]
    /\ lost \in BOOLEAN

\* On the transport, a channel is opened once, and nothing of it follows its end.
InOrder(w, c) ==
    /\ \A i, j \in 1..Len(w) : w[i] = Message("eof", c) /\ i < j =>
          w[j] # Message("data", c) /\ w[j] # Message("eof", c)
    /\ \A i, j \in 1..Len(w) : w[i] = Message("open", c) /\ i < j => w[j] # Message("open", c)

Absent(w, m) == \A i \in 1..Len(w) : w[i] # m

\* A channel whose data is all accounted for.
Counted(c) == ~lost /\ copier[c] \notin {"refused", "broken"}

\* What was sent is on the transport, queued or passed, until the transport is
\* lost or the channel is dropped; what the event loop has seen of a channel is no
\* longer on the transport.
ForwardInv ==
    /\ ForwardTypes
    /\ \A c \in Channels : InOrder(wire, c)
    /\ \A c \in Channels : Counted(c) =>
          sent[c] = passed[c] + queued[c] + Pending(wire, c)
    /\ \A c \in Channels : "hub" \in eof[c] =>
          Absent(wire, Message("data", c)) /\ Absent(wire, Message("eof", c))
    /\ \A c \in Channels : copier[c] # "none" => Absent(wire, Message("open", c))
    /\ \A c \in Channels : copier[c] = "done" => queued[c] = 0 /\ "hub" \in eof[c]

\* Messages of different kinds or channels differ.
LEMMA MessagesDiffer ==
  /\ \A k \in {"open", "data", "eof"} : \A c \in Channels : Message(k, c) \in Messages
  /\ \A k, l, c, d : Message(k, c) = Message(l, d) => k = l /\ c = d
  /\ \A m \in Messages : m = Message(m.k, m.c) /\ m.k \in {"open", "data", "eof"} /\ m.c \in Channels
  BY DEF Message, Messages

\* The places of a message in a sequence are finitely many.
LEMMA PlacesFinite ==
  ASSUME NEW w \in Seq(Messages), NEW m
  PROVE  IsFiniteSet(Places(w, m)) /\ Cardinality(Places(w, m)) \in Nat
<1>1. Len(w) \in Nat
  BY LenProperties
<1>2. IsFiniteSet(1..Len(w)) /\ Places(w, m) \in SUBSET (1..Len(w))
  BY <1>1, FS_Interval DEF Places
<1>3. IsFiniteSet(Places(w, m))
  BY <1>2, FS_Subset
<1> QED BY <1>3, FS_CardinalityType

\* A message that is sent gets one place, the last.
LEMMA PlacesAppend ==
  ASSUME NEW w \in Seq(Messages), NEW n \in Messages, NEW m
  PROVE  Cardinality(Places(Append(w, n), m)) =
            IF n = m THEN Cardinality(Places(w, m)) + 1 ELSE Cardinality(Places(w, m))
<1>1. /\ Len(w) \in Nat /\ Len(Append(w, n)) = Len(w) + 1 /\ Append(w, n)[Len(w) + 1] = n
      /\ \A i \in 1..Len(w) : Append(w, n)[i] = w[i]
  OBVIOUS
<1>2. CASE n = m
  <2>1. Places(Append(w, n), m) = Places(w, m) \cup {Len(w) + 1}
    BY <1>1, <1>2 DEF Places
  <2>2. Len(w) + 1 \notin Places(w, m)
    BY <1>1 DEF Places
  <2> QED BY <1>2, <2>1, <2>2, PlacesFinite, FS_AddElement
<1>3. CASE n # m
  <2>1. Places(Append(w, n), m) = Places(w, m)
    BY <1>1, <1>3 DEF Places
  <2> QED BY <1>3, <2>1
<1> QED BY <1>2, <1>3

\* A message that is taken loses its place, the others move up by one.
LEMMA PlacesTail ==
  ASSUME NEW w \in Seq(Messages), w # <<>>, NEW m
  PROVE  Cardinality(Places(Tail(w), m)) =
            IF w[1] = m THEN Cardinality(Places(w, m)) - 1 ELSE Cardinality(Places(w, m))
<1>1. /\ Len(w) \in Nat /\ Len(w) # 0 /\ Len(Tail(w)) = Len(w) - 1 /\ Tail(w) \in Seq(Messages)
      /\ \A i \in 1..Len(w) - 1 : Tail(w)[i] = w[i + 1]
  OBVIOUS
<1> DEFINE P == Places(Tail(w), m)
           Q == Places(w, m) \ {1}
           f == [i \in P |-> i + 1]
<1>2. /\ \A i \in P : i \in 1..Len(w) - 1 /\ i + 1 \in Q
      /\ \A j \in Q : j \in 2..Len(w) /\ j - 1 \in P
  BY <1>1 DEF Places
<1>3. IsFiniteSet(P) /\ IsFiniteSet(Places(w, m)) /\ Cardinality(Places(w, m)) \in Nat
  BY <1>1, PlacesFinite
<1>4. f \in Bijection(P, Q)
  <2> HIDE DEF P, Q
  <2>1. f \in [P -> Q]
    BY <1>2
  <2>2. \A i, j \in P : f[i] = f[j] => i = j
    BY <1>2
  <2>3. \A j \in Q : \E i \in P : f[i] = j
    <3> TAKE j \in Q
    <3>1. j - 1 \in P /\ j \in Int
      BY <1>1, <1>2
    <3>2. f[j - 1] = j
      BY <3>1
    <3> QED BY <3>1, <3>2
  <2> HIDE DEF f
  <2> QED BY <2>1, <2>2, <2>3 DEF Bijection, Injection, Surjection, IsInjective
<1>5. ExistsBijection(P, Q)
  BY <1>4 DEF ExistsBijection
<1>6. Cardinality(Q) = Cardinality(P)
  <2> HIDE DEF P, Q
  <2> QED BY <1>3, <1>5, FS_Bijection
<1>7. CASE w[1] = m
  <2>1. 1 \in Places(w, m)
    BY <1>1, <1>7 DEF Places
  <2>2. Cardinality(Q) = Cardinality(Places(w, m)) - 1
    BY <1>3, <2>1, FS_RemoveElement
  <2> QED BY <1>6, <1>7, <2>2
<1>8. CASE w[1] # m
  <2>1. Q = Places(w, m)
    BY <1>8 DEF Places
  <2> QED BY <1>6, <1>8, <2>1
<1> QED BY <1>7, <1>8

\* The hub's messages: a new last message keeps the order if it may follow.
LEMMA HubSteps ==
  ASSUME ForwardInv, NEW c \in Channels, HubOpens(c) \/ HubSends(c) \/ HubEnds(c)
  PROVE  ForwardInv'
<1>0. /\ ForwardTypes /\ wire \in Seq(Messages) /\ Len(wire) \in Nat
      /\ UNCHANGED <<copier, queued, eof, passed, lost>>
  BY LenProperties DEF ForwardInv, ForwardTypes, HubOpens, HubSends, HubEnds
<1>1. PICK k \in {"open", "data", "eof"} :
         /\ wire' = Append(wire, Message(k, c))
         /\ k = "open" => copier[c] = "none" /\ ~Seen("open", c)
         /\ k \in {"data", "eof"} => ~Seen("eof", c) /\ "hub" \notin eof[c]
         /\ sent' = IF k = "data" THEN [sent EXCEPT ![c] = @ + 1] ELSE sent
  BY DEF HubOpens, HubSends, HubEnds
<1>2. Message(k, c) \in Messages
  BY MessagesDiffer
<1>3. /\ wire' \in Seq(Messages) /\ Len(wire') = Len(wire) + 1 /\ wire'[Len(wire) + 1] = Message(k, c)
      /\ \A i \in 1..Len(wire) : wire'[i] = wire[i]
  BY <1>0, <1>1, <1>2
<1>4. ForwardTypes'
  BY <1>0, <1>1, <1>3 DEF ForwardTypes
<1>5. ASSUME NEW d \in Channels PROVE InOrder(wire', d)
  <2>1. InOrder(wire, d)
    BY DEF ForwardInv
  <2>2. ASSUME NEW i \in 1..Len(wire'), NEW j \in 1..Len(wire'), i < j
        PROVE  /\ wire'[i] = Message("eof", d) => wire'[j] # Message("data", d) /\ wire'[j] # Message("eof", d)
               /\ wire'[i] = Message("open", d) => wire'[j] # Message("open", d)
    <3>1. i \in 1..Len(wire) /\ wire'[i] = wire[i]
      BY <1>0, <1>3, <2>2
    <3>2. CASE j \in 1..Len(wire)
      <4>1. wire'[j] = wire[j]
        BY <1>3, <3>2
      <4> QED BY <2>1, <2>2, <3>1, <3>2, <4>1 DEF InOrder
    <3>3. CASE j = Len(wire) + 1
      <4>1. wire'[j] = Message(k, c)
        BY <1>3, <3>3
      <4>2. k = "open" => wire[i] # Message("open", c)
        BY <1>1, <3>1 DEF Seen
      <4>3. k \in {"data", "eof"} => wire[i] # Message("eof", c)
        BY <1>1, <3>1 DEF Seen
      <4> QED BY <3>1, <4>1, <4>2, <4>3, MessagesDiffer
    <3> QED BY <1>0, <1>3, <3>2, <3>3
  <2> QED BY <2>2 DEF InOrder
<1>6. ASSUME NEW d \in Channels, Counted(d)'
      PROVE  sent'[d] = passed'[d] + queued'[d] + Pending(wire', d)
  <2>1. sent[d] = passed[d] + queued[d] + Pending(wire, d)
    BY <1>0, <1>6 DEF ForwardInv, Counted
  <2>2. Pending(wire, d) \in Nat
    BY <1>0, PlacesFinite DEF Pending
  <2>3. sent[d] \in Nat /\ passed[d] \in Nat /\ queued[d] \in Nat /\ sent \in [Channels -> Nat]
    BY <1>0 DEF ForwardTypes
  <2>4. CASE d = c /\ k = "data"
    <3>1. Pending(wire', d) = Pending(wire, d) + 1
      BY <1>0, <1>1, <1>2, <2>4, PlacesAppend DEF Pending
    <3>2. sent'[d] = sent[d] + 1
      BY <1>1, <2>3, <2>4
    <3> QED BY <1>0, <2>1, <2>2, <2>3, <3>1, <3>2
  <2>5. CASE ~(d = c /\ k = "data")
    <3>1. Message(k, c) # Message("data", d)
      BY <2>5, MessagesDiffer
    <3>2. Pending(wire', d) = Pending(wire, d)
      BY <1>0, <1>1, <1>2, <3>1, PlacesAppend DEF Pending
    <3>3. sent'[d] = sent[d]
      BY <1>1, <2>3, <2>5
    <3> QED BY <1>0, <2>1, <3>2, <3>3
  <2> QED BY <2>4, <2>5
<1>7. ASSUME NEW m, Absent(wire, m), m # Message(k, c) PROVE Absent(wire', m)
  <2> SUFFICES ASSUME NEW i \in 1..Len(wire') PROVE wire'[i] # m
    BY DEF Absent
  <2>1. i \in 1..Len(wire) \/ i = Len(wire) + 1
    BY <1>0, <1>3
  <2> QED BY <1>3, <1>7, <2>1 DEF Absent
<1>8. ASSUME NEW d \in Channels, "hub" \in eof'[d]
      PROVE  Absent(wire', Message("data", d)) /\ Absent(wire', Message("eof", d))
  <2>1. Absent(wire, Message("data", d)) /\ Absent(wire, Message("eof", d)) /\ "hub" \in eof[d]
    BY <1>0, <1>8 DEF ForwardInv
  <2>2. Message("data", d) # Message(k, c) /\ Message("eof", d) # Message(k, c)
    BY <1>1, <2>1, MessagesDiffer
  <2> QED BY <1>7, <2>1, <2>2
<1>9. ASSUME NEW d \in Channels, copier'[d] # "none" PROVE Absent(wire', Message("open", d))
  <2>1. Absent(wire, Message("open", d)) /\ copier[d] # "none"
    BY <1>0, <1>9 DEF ForwardInv
  <2>2. Message("open", d) # Message(k, c)
    BY <1>1, <2>1, MessagesDiffer
  <2> QED BY <1>7, <2>1, <2>2
<1>10. \A d \in Channels : copier'[d] = "done" => queued'[d] = 0 /\ "hub" \in eof'[d]
  BY <1>0 DEF ForwardInv
<1> QED BY <1>4, <1>5, <1>6, <1>8, <1>9, <1>10 DEF ForwardInv

\* The event loop takes the first message.
LEMMA DispatchStep ==
  ASSUME ForwardInv, Dispatch
  PROVE  ForwardInv'
<1> DEFINE m == Head(wire)
<1>0. /\ ForwardTypes /\ wire \in Seq(Messages) /\ wire # <<>> /\ wire' = Tail(wire)
      /\ UNCHANGED <<sent, passed, lost>>
  BY DEF ForwardInv, ForwardTypes, Dispatch
<1>1. /\ Len(wire) \in Nat \ {0} /\ wire' \in Seq(Messages) /\ Len(wire') = Len(wire) - 1
      /\ \A i \in 1..Len(wire') : wire'[i] = wire[i + 1] /\ i + 1 \in 1..Len(wire)
      /\ m = wire[1] /\ m \in Messages /\ 1 \in 1..Len(wire)
  BY <1>0
<1>2. /\ m = Message(m.k, m.c) /\ m.k \in {"open", "data", "eof"} /\ m.c \in Channels
  BY <1>1, MessagesDiffer
<1>3. \/ /\ m.k = "open" /\ copier' = [copier EXCEPT ![m.c] = "connect"]
         /\ UNCHANGED <<queued, eof>>
      \/ /\ m.k = "data" /\ UNCHANGED <<copier, eof>>
         /\ queued' = [queued EXCEPT ![m.c] = IF Listening(m.c) THEN @ + 1 ELSE @]
      \/ /\ m.k = "eof" /\ UNCHANGED <<copier, queued>>
         /\ eof' = [eof EXCEPT ![m.c] = @ \cup {"hub"}]
  BY DEF Dispatch
<1> HIDE DEF m
<1>t. ForwardTypes'
  <2>1. CASE m.k = "open"
    BY <1>0, <1>1, <1>2, <1>3, <2>1 DEF ForwardTypes
  <2>2. CASE m.k = "data"
    <3>1. queued[m.c] \in Nat /\ queued \in [Channels -> Nat]
      BY <1>0, <1>2 DEF ForwardTypes
    <3>2. queued' \in [Channels -> Nat]
      BY <1>2, <1>3, <2>2, <3>1
    <3> QED BY <1>0, <1>1, <1>3, <2>2, <3>2 DEF ForwardTypes
  <2>3. CASE m.k = "eof"
    <3>1. eof \in [Channels -> SUBSET {"hub", "local"}] /\ eof[m.c] \in SUBSET {"hub", "local"}
      BY <1>0, <1>2 DEF ForwardTypes
    <3>2. eof' \in [Channels -> SUBSET {"hub", "local"}]
      BY <1>2, <1>3, <2>3, <3>1
    <3> QED BY <1>0, <1>1, <1>3, <2>3, <3>2 DEF ForwardTypes
  <2> QED BY <1>2, <2>1, <2>2, <2>3
<1>5. ASSUME NEW d \in Channels PROVE InOrder(wire', d)
  <2>1. InOrder(wire, d)
    BY DEF ForwardInv
  <2>2. ASSUME NEW i \in 1..Len(wire'), NEW j \in 1..Len(wire'), i < j
        PROVE  /\ wire'[i] = Message("eof", d) => wire'[j] # Message("data", d) /\ wire'[j] # Message("eof", d)
               /\ wire'[i] = Message("open", d) => wire'[j] # Message("open", d)
    <3>1. /\ i + 1 \in 1..Len(wire) /\ j + 1 \in 1..Len(wire) /\ i + 1 < j + 1
          /\ wire'[i] = wire[i + 1] /\ wire'[j] = wire[j + 1]
      BY <1>1, <2>2
    <3> QED BY <2>1, <3>1 DEF InOrder
  <2> QED BY <2>2 DEF InOrder
<1>6. \A x : Absent(wire, x) => Absent(wire', x)
  BY <1>1 DEF Absent
\* What is first is not to be found again where the order forbids it.
<1>7. /\ m.k = "eof" => Absent(wire', Message("data", m.c)) /\ Absent(wire', Message("eof", m.c))
      /\ m.k = "open" => Absent(wire', Message("open", m.c))
  <2>1. InOrder(wire, m.c)
    BY <1>2 DEF ForwardInv
  <2>2. \A i \in 1..Len(wire') : wire'[i] = wire[i + 1] /\ i + 1 \in 1..Len(wire) /\ 1 < i + 1
    BY <1>1
  <2> QED BY <1>1, <1>2, <2>1, <2>2 DEF InOrder, Absent
<1>8. ASSUME NEW d \in Channels, Counted(d)'
      PROVE  sent'[d] = passed'[d] + queued'[d] + Pending(wire', d)
  <2>0. Counted(d)
    <3>1. CASE m.k = "open" /\ d = m.c
      BY <1>0, <1>1, <1>2, <1>8, <3>1 DEF ForwardInv, Absent, Counted
    <3>2. CASE ~(m.k = "open" /\ d = m.c)
      BY <1>0, <1>2, <1>3, <1>8, <3>2 DEF ForwardTypes, Counted
    <3> QED BY <3>1, <3>2
  <2>1. sent[d] = passed[d] + queued[d] + Pending(wire, d)
    BY <2>0 DEF ForwardInv
  <2>2. /\ Pending(wire, d) \in Nat /\ sent[d] \in Nat /\ passed[d] \in Nat /\ queued[d] \in Nat
        /\ queued \in [Channels -> Nat]
    BY <1>0, PlacesFinite DEF Pending, ForwardTypes
  <2>3. CASE m.k = "data" /\ d = m.c
    <3>1. Pending(wire', d) = Pending(wire, d) - 1
      BY <1>0, <1>1, <1>2, <2>3, PlacesTail DEF Pending
    <3>2. Listening(d)
      BY <1>1, <1>2, <2>0, <2>3 DEF ForwardInv, Absent, Counted, Listening
    <3>3. queued'[d] = queued[d] + 1
      BY <1>3, <2>2, <2>3, <3>2
    <3>4. sent'[d] = sent[d] /\ passed'[d] = passed[d]
      BY <1>0
    <3> HIDE DEF Pending
    <3> QED BY <2>1, <2>2, <3>1, <3>3, <3>4
  <2>4. CASE ~(m.k = "data" /\ d = m.c)
    <3>1. wire[1] # Message("data", d)
      BY <1>1, <1>2, <2>4, MessagesDiffer
    <3>2. Pending(wire', d) = Pending(wire, d)
      BY <1>0, <3>1, PlacesTail DEF Pending
    <3>3. queued'[d] = queued[d]
      BY <1>3, <2>2, <2>4
    <3> QED BY <1>0, <2>1, <3>2, <3>3
  <2> QED BY <2>3, <2>4
<1>9. ASSUME NEW d \in Channels, "hub" \in eof'[d]
      PROVE  Absent(wire', Message("data", d)) /\ Absent(wire', Message("eof", d))
  <2>1. CASE m.k = "eof" /\ d = m.c
    BY <1>7, <2>1
  <2>2. CASE ~(m.k = "eof" /\ d = m.c)
    <3>1. "hub" \in eof[d]
      BY <1>0, <1>3, <1>9, <2>2 DEF ForwardTypes
    <3> QED BY <1>6, <3>1 DEF ForwardInv
  <2> QED BY <2>1, <2>2
<1>10. ASSUME NEW d \in Channels, copier'[d] # "none" PROVE Absent(wire', Message("open", d))
  <2>1. CASE m.k = "open" /\ d = m.c
    BY <1>7, <2>1
  <2>2. CASE ~(m.k = "open" /\ d = m.c)
    <3>1. copier[d] # "none"
      BY <1>0, <1>2, <1>3, <1>10, <2>2 DEF ForwardTypes
    <3> QED BY <1>6, <3>1 DEF ForwardInv
  <2> QED BY <2>1, <2>2
<1>11. ASSUME NEW d \in Channels, copier'[d] = "done" PROVE queued'[d] = 0 /\ "hub" \in eof'[d]
  <2>1. copier[d] = "done"
    BY <1>0, <1>3, <1>11 DEF ForwardTypes
  <2>2. queued[d] = 0 /\ "hub" \in eof[d]
    BY <2>1 DEF ForwardInv
  <2>3. queued'[d] = queued[d]
    BY <1>0, <1>2, <1>3, <2>1 DEF ForwardTypes, Listening
  <2>4. "hub" \in eof'[d]
    BY <1>0, <1>2, <1>3, <2>2 DEF ForwardTypes
  <2> QED BY <2>2, <2>3, <2>4
<1> QED BY <1>t, <1>5, <1>8, <1>9, <1>10, <1>11 DEF ForwardInv

\* The task of a channel: connecting, copying and its end.
LEMMA CopierSteps ==
  ASSUME ForwardInv, NEW c \in Channels,
         ConnectLocal(c) \/ CopyToLocal(c) \/ LocalEnds(c) \/ CopyEnds(c) \/ CopyFails(c)
  PROVE  ForwardInv'
<1>0. ForwardTypes /\ UNCHANGED <<wire, sent, lost>>
  BY DEF ForwardInv, ConnectLocal, CopyToLocal, LocalEnds, CopyEnds, CopyFails
<1>p. \A d \in Channels : Pending(wire, d) \in Nat
  BY <1>0, PlacesFinite DEF Pending, ForwardTypes
<1>o. /\ \A d \in Channels : InOrder(wire', d)
      /\ \A d \in Channels : Pending(wire', d) = Pending(wire, d)
  BY <1>0 DEF ForwardInv
<1>1. CASE ConnectLocal(c) \/ CopyFails(c)
  <2>0. /\ copier[c] \in {"connect", "copy"} /\ UNCHANGED <<eof, passed>>
        /\ \/ copier' = [copier EXCEPT ![c] = "copy"] /\ UNCHANGED queued
           \/ \E why \in {"refused", "broken"} : /\ copier' = [copier EXCEPT ![c] = why]
                                                 /\ queued' = [queued EXCEPT ![c] = 0]
    BY <1>1 DEF ConnectLocal, CopyFails, DropChannel
  <2>1. ForwardTypes'
    <3>1. CASE copier' = [copier EXCEPT ![c] = "copy"] /\ UNCHANGED queued
      BY <1>0, <2>0, <3>1 DEF ForwardTypes
    <3>2. ASSUME NEW why \in {"refused", "broken"}, copier' = [copier EXCEPT ![c] = why],
                 queued' = [queued EXCEPT ![c] = 0]
          PROVE  ForwardTypes'
      BY <1>0, <2>0, <3>2 DEF ForwardTypes
    <3> QED BY <2>0, <3>1, <3>2
  <2>2. /\ copier'[c] \in {"copy", "refused", "broken"} /\ (copier'[c] = "copy" => UNCHANGED queued)
        /\ \A d \in Channels \ {c} : copier'[d] = copier[d] /\ queued'[d] = queued[d]
    BY <1>0, <2>0 DEF ForwardTypes
  <2>3. \A d \in Channels : Counted(d)' =>
           sent'[d] = passed'[d] + queued'[d] + Pending(wire', d)
    BY <1>0, <1>o, <2>0, <2>2 DEF ForwardInv, Counted
  <2>4. \A d \in Channels : copier'[d] = "done" => queued'[d] = 0 /\ "hub" \in eof'[d]
    BY <2>0, <2>2 DEF ForwardInv
  <2>5. \A d \in Channels : /\ copier'[d] # "none" => copier[d] # "none"
                            /\ "hub" \in eof'[d] => "hub" \in eof[d]
    BY <2>0, <2>2
  <2> QED BY <1>0, <1>o, <2>1, <2>3, <2>4, <2>5 DEF ForwardInv
<1>2. CASE CopyToLocal(c)
  <2>1. /\ ForwardTypes' /\ UNCHANGED <<copier, eof>> /\ copier[c] = "copy"
        /\ queued'[c] = queued[c] - 1 /\ passed'[c] = passed[c] + 1
        /\ \A d \in Channels \ {c} : queued'[d] = queued[d] /\ passed'[d] = passed[d]
        /\ \A d \in Channels : queued[d] \in Nat /\ passed[d] \in Nat
    BY <1>0, <1>2 DEF CopyToLocal, ForwardTypes
  <2>2. \A d \in Channels : queued'[d] + passed'[d] = queued[d] + passed[d]
                            /\ queued'[d] \in Nat /\ passed'[d] \in Nat
    <3> TAKE d \in Channels
    <3>1. queued'[d] \in Nat /\ passed'[d] \in Nat /\ queued[d] \in Nat /\ passed[d] \in Nat
      BY <2>1 DEF ForwardTypes
    <3>2. CASE d = c
      BY <2>1, <3>1, <3>2
    <3>3. CASE d # c
      BY <2>1, <3>1, <3>3
    <3> QED BY <3>2, <3>3
  <2>3. \A d \in Channels : Counted(d)' =>
           sent'[d] = passed'[d] + queued'[d] + Pending(wire', d)
    <3> SUFFICES ASSUME NEW d \in Channels, Counted(d)
                 PROVE  sent[d] = passed'[d] + queued'[d] + Pending(wire, d)
      BY <1>0, <1>o, <2>1 DEF Counted
    <3>1. sent[d] = passed[d] + queued[d] + Pending(wire, d)
      BY DEF ForwardInv
    <3> QED BY <1>p, <2>1, <2>2, <3>1
  <2>4. \A d \in Channels : copier'[d] = "done" => queued'[d] = 0 /\ "hub" \in eof'[d]
    BY <2>1 DEF ForwardInv
  <2> QED BY <1>0, <1>o, <2>1, <2>3, <2>4 DEF ForwardInv
<1>3. CASE LocalEnds(c)
  <2>1. /\ ForwardTypes' /\ UNCHANGED <<copier, queued, passed>>
        /\ \A d \in Channels : "hub" \in eof'[d] <=> "hub" \in eof[d]
    BY <1>0, <1>3 DEF LocalEnds, ForwardTypes
  <2> QED BY <1>0, <1>o, <2>1 DEF ForwardInv, Counted
<1>4. CASE CopyEnds(c)
  <2>1. /\ ForwardTypes' /\ UNCHANGED <<queued, eof, passed>> /\ copier[c] = "copy"
        /\ copier'[c] = "done" /\ queued[c] = 0 /\ "hub" \in eof[c]
        /\ \A d \in Channels \ {c} : copier'[d] = copier[d]
    BY <1>0, <1>4 DEF CopyEnds, Drained, BothEnded, ForwardTypes
  <2>2. \A d \in Channels : /\ copier'[d] # "none" => copier[d] # "none"
                            /\ Counted(d)' => Counted(d)
                            /\ copier'[d] = "done" => queued[d] = 0 /\ "hub" \in eof[d]
    BY <1>0, <2>1 DEF ForwardInv, Counted
  <2> QED BY <1>0, <1>o, <2>1, <2>2 DEF ForwardInv
<1> QED BY <1>1, <1>2, <1>3, <1>4

\* The transport is lost: nothing is on it any more, and nothing is counted.
LEMMA LossStep ==
  ASSUME ForwardInv, TransportLost
  PROVE  ForwardInv'
<1>1. /\ wire' = <<>> /\ Len(wire') = 0 /\ wire' \in Seq(Messages) /\ lost' = TRUE
      /\ UNCHANGED <<copier, queued, sent, passed>>
      /\ \A c \in Channels : eof'[c] = eof[c] \cup {"hub"}
      /\ eof' \in [Channels -> SUBSET {"hub", "local"}]
  BY DEF TransportLost, ForwardInv, ForwardTypes
<1>2. ForwardTypes'
  BY <1>1 DEF ForwardInv, ForwardTypes
<1>3. /\ \A c \in Channels : InOrder(wire', c)
      /\ \A m : Absent(wire', m)
  BY <1>1 DEF InOrder, Absent
<1>4. \A c \in Channels : copier'[c] = "done" => queued'[c] = 0 /\ "hub" \in eof'[c]
  BY <1>1 DEF ForwardInv
<1> QED BY <1>1, <1>2, <1>3, <1>4 DEF ForwardInv, Counted

\* The invariant of the forwarded connections holds in every state they reach.
THEOREM ForwardInvariance == ForwardSpec => []ForwardInv
<1>1. ForwardInit => ForwardInv
  <2> SUFFICES ASSUME ForwardInit PROVE ForwardInv
    OBVIOUS
  <2>1. wire = <<>> /\ Len(wire) = 0 /\ wire \in Seq(Messages)
    BY DEF ForwardInit
  <2>2. \A c \in Channels : Pending(wire, c) = 0
    <3>1. \A m : Places(wire, m) = {}
      BY <2>1 DEF Places
    <3> QED BY <3>1, FS_EmptySet DEF Pending
  <2>3. \A c \in Channels : InOrder(wire, c)
    BY <2>1 DEF InOrder
  <2>4. ForwardTypes
    BY <2>1 DEF ForwardInit, ForwardTypes
  <2> QED BY <2>2, <2>3, <2>4 DEF ForwardInit, ForwardInv
<1>2. ForwardInv /\ [ForwardNext]_fwdVars => ForwardInv'
  <2> SUFFICES ASSUME ForwardInv, [ForwardNext]_fwdVars PROVE ForwardInv'
    OBVIOUS
  <2>1. CASE ForwardNext
    BY <2>1, HubSteps, DispatchStep, CopierSteps, LossStep
       DEF ForwardNext, ForwardStep, PeerEnds, Breaks
  <2>2. CASE UNCHANGED fwdVars
    BY <2>2 DEF fwdVars, ForwardInv, ForwardTypes, InOrder, Absent, Pending, Places, Counted
  <2> QED BY <2>1, <2>2
<1> QED BY <1>1, <1>2, PTL DEF ForwardSpec

\* A copy reported as completed has passed everything the hub sent to the local
\* service, what arrived while the local connection was being made included,
\* unless the transport was lost.
THEOREM AllDataPassed == ForwardSpec => []DataPassed
<1>1. ForwardInv => DataPassed
  <2> SUFFICES ASSUME ForwardInv, NEW c \in Channels, copier[c] = "done", ~lost
               PROVE  passed[c] = sent[c]
    BY DEF DataPassed
  <2>1. /\ queued[c] = 0 /\ sent[c] = passed[c] + queued[c] + Pending(wire, c) /\ passed[c] \in Nat
        /\ Absent(wire, Message("data", c))
    BY DEF ForwardInv, ForwardTypes, Counted
  <2>2. Places(wire, Message("data", c)) = {}
    BY <2>1 DEF Places, Absent
  <2>3. Pending(wire, c) = 0
    BY <2>2, FS_EmptySet DEF Pending
  <2> QED BY <2>1, <2>3
<1> QED BY <1>1, ForwardInvariance, PTL

=============================================================================
