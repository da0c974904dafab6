------------------------------ MODULE EdfClient ------------------------------
(***************************************************************************)
(* The command-line client: ssh_keys.rs, tunnel.rs, ssh_client.rs and      *)
(* main.rs of cmd/edf-cli.  Every command is a process of its own; what    *)
(* they share is the home directory: one session file                      *)
(* (~/.edf/keys/session_info.json) and a private-key file per session      *)
(* (~/.ssh/edf-cli-<expiry>-<id>.priv).  No lock guards them, so each file *)
(* operation is a step.  fs::write empties a file before it fills it; any  *)
(* operation may fail, which ends the command where it is, and a process   *)
(* may be killed between any two steps.                                    *)
(***************************************************************************)
EXTENDS Naturals, FiniteSets

CONSTANTS
    Procs,          \* terminals in which the user runs commands
    MaxSessions,    \* bound: sessions the API hands out
    Ttl,            \* lifetime the commands ask for
    KeepAlive,      \* keep_alive_interval of run_until_expiry
    ConnectTimeout, \* connection_timeout of establish_tunnel
    MaxTime,        \* bound: the clock
    MaxRuns,        \* bound: commands started
    MaxFaults       \* bound: processes killed and file operations that fail

ASSUME ClientAssumption ==
    /\ MaxSessions \in Nat /\ MaxTime \in Nat /\ MaxFaults \in Nat
    /\ MaxRuns \in Nat
    /\ Ttl \in Nat \ {0} /\ KeepAlive \in Nat \ {0} /\ ConnectTimeout \in Nat \ {0}

VARIABLES
    clock,    \* Utc::now()
    info,     \* the session file
    writers,  \* commands that hold the session file of that name open to write it
    keyFiles, \* the private-key files, named by session and expiry
    partKeys, \* those of them that were opened and not written in full
    minted,   \* sessions the API created
    proc,     \* the commands that run
    link,     \* the SSH transport of each process
    runs,     \* commands started so far
    faults,   \* processes killed and file operations failed so far
    raced,    \* whether two commands were ever run at the same time
    forced    \* whether a command stored a session without looking for one first

fileVars == <<info, writers, keyFiles, partKeys>>
historyVars == <<runs, raced, forced>>
clientVars == <<clock, fileVars, minted, proc, link, faults, historyVars>>

Commands == {"forward", "request", "status", "cleanup", "test"}
NoSession == [id |-> 0, exp |-> 0]
NoFile == [st |-> "none", of |-> NoSession]
Emptied == [st |-> "empty", of |-> NoSession]
Torn == [st |-> "torn", of |-> NoSession]
File(s) == [st |-> "ok", of |-> s]
\* The id of the mock session of `edf keys test` is a literal of the source.
TestId == MaxSessions + 1
Sessions == [id : 1 .. TestId, exp : 0 .. MaxTime + Ttl]

Idle == [pc |-> "idle", cmd |-> "status", ses |-> NoSession, wake |-> 0]
NoLink == [st |-> "none", since |-> 0]

ClientInit ==
    /\ clock = 0 /\ info = NoFile /\ writers = {} /\ keyFiles = {} /\ partKeys = {}
    /\ minted = 0
    /\ proc = [p \in Procs |-> Idle]
    /\ link = [p \in Procs |-> NoLink]
    /\ runs = 0 /\ faults = 0 /\ raced = FALSE /\ forced = FALSE

-----------------------------------------------------------------------------
(* Steps of a command. *)

At(p, pc) == proc[p].pc = pc
Goto(p, pc) == proc' = [proc EXCEPT ![p].pc = pc]
With(p, pc, s) == proc' = [proc EXCEPT ![p].pc = pc, ![p].ses = s]
\* The command returns and its process exits, which closes its transport.
Exit(p) ==
    /\ proc' = [proc EXCEPT ![p] = Idle]
    /\ link' = [link EXCEPT ![p] = NoLink]
Fail(p) == Exit(p)

\* Err(NotFound) of load_existing_key_pair: forward asks the API, status says so.
NotFound(p) ==
    IF proc[p].cmd = "forward" THEN Goto(p, "request") /\ UNCHANGED link
                               ELSE Exit(p)

\* main.rs dispatches the command.
FirstPc(c) ==
    CASE c \in {"forward", "status"} -> "load"
      [] c = "cleanup" -> "clean"
      [] c = "request" -> "request"
      [] c = "test" -> "storeKey"

Start(p, c) ==
    /\ At(p, "idle") /\ runs < MaxRuns
    /\ runs' = runs + 1
    /\ LET s == IF c = "test" THEN [id |-> TestId, exp |-> clock + Ttl] ELSE NoSession
       IN proc' = [proc EXCEPT ![p] = [Idle EXCEPT !.pc = FirstPc(c), !.cmd = c, !.ses = s]]
    /\ raced' = (raced \/ \E q \in Procs : proc[q].pc # "idle")
    /\ UNCHANGED <<clock, fileVars, minted, link, faults, forced>>

\* load_existing_key_pair: the file exists, is read and parsed; a session that
\* has expired is cleaned up; then the key file is looked for, and read.
LapsedAtOnce(s) == s.exp < clock + Ttl
Lapsed(s) == s.exp < clock

LoadExists(p) ==
    /\ At(p, "load")
    /\ IF info.st = "none" THEN NotFound(p) ELSE Goto(p, "loadRead") /\ UNCHANGED link
    /\ UNCHANGED <<clock, fileVars, minted, faults, historyVars>>

LoadRead(p) ==
    /\ At(p, "loadRead")
    /\ \/ info.st # "ok" /\ Fail(p)
       \/ /\ info.st = "ok" /\ UNCHANGED link
          /\ IF Lapsed(info.of) THEN Goto(p, "clean") ELSE With(p, "loadKey", info.of)
    /\ UNCHANGED <<clock, fileVars, minted, faults, historyVars>>

LoadKey(p) ==
    /\ At(p, "loadKey")
    /\ \/ proc[p].ses \notin keyFiles /\ NotFound(p)
       \/ proc[p].ses \in keyFiles /\ Goto(p, "loadKeyRead") /\ UNCHANGED link
    /\ UNCHANGED <<clock, fileVars, minted, faults, historyVars>>

LoadKeyRead(p) ==
    /\ At(p, "loadKeyRead")
    /\ \/ proc[p].ses \notin keyFiles /\ Fail(p)
       \/ /\ proc[p].ses \in keyFiles
          /\ IF proc[p].cmd = "forward" THEN Goto(p, "decode") /\ UNCHANGED link
                                        ELSE Exit(p)
    /\ UNCHANGED <<clock, fileVars, minted, faults, historyVars>>

\* cleanup_session: reads the file again, removes the key it names, then the file.
CleanExists(p) ==
    /\ At(p, "clean")
    /\ IF info.st = "none" THEN NotFound(p) ELSE Goto(p, "cleanRead") /\ UNCHANGED link
    /\ UNCHANGED <<clock, fileVars, minted, faults, historyVars>>

CleanRead(p) ==
    /\ At(p, "cleanRead")
    /\ \/ info.st # "ok" /\ Fail(p)
       \/ info.st = "ok" /\ With(p, "cleanKey", info.of) /\ UNCHANGED link
    /\ UNCHANGED <<clock, fileVars, minted, faults, historyVars>>

CleanKey(p) ==
    /\ At(p, "cleanKey")
    /\ Goto(p, IF proc[p].ses \in keyFiles THEN "removeKey" ELSE "cleanInfo")
    /\ UNCHANGED <<clock, fileVars, minted, link, faults, historyVars>>

\* A key that another command removed meanwhile fails the removal, and the
\* session file stays.
RemoveKey(p) ==
    /\ At(p, "removeKey")
    /\ \/ /\ proc[p].ses \in keyFiles
          /\ keyFiles' = keyFiles \ {proc[p].ses}
          /\ partKeys' = partKeys \ {proc[p].ses}
          /\ Goto(p, "cleanInfo") /\ UNCHANGED link
       \/ proc[p].ses \notin keyFiles /\ Fail(p) /\ UNCHANGED <<keyFiles, partKeys>>
    /\ UNCHANGED <<clock, info, writers, minted, faults, historyVars>>

\* The file is unlinked; whoever is writing it writes a file without a name.
CleanInfo(p) ==
    /\ At(p, "cleanInfo")
    /\ \/ info.st = "none" /\ Fail(p) /\ UNCHANGED <<info, writers>>
       \/ info.st # "none" /\ info' = NoFile /\ writers' = {} /\ NotFound(p)
    /\ UNCHANGED <<clock, keyFiles, partKeys, minted, faults, historyVars>>

-----------------------------------------------------------------------------
(* request_key_pair and store_private_key. *)

\* The answer arrives, or the API created the session and the answer is lost or
\* does not parse, or nothing was created.
RequestKeyPair(p) ==
    /\ At(p, "request")
    /\ \/ /\ minted < MaxSessions
          /\ minted' = minted + 1
          /\ \/ /\ With(p, "storeKey", [id |-> minted + 1, exp |-> clock + Ttl])
                /\ UNCHANGED link
             \/ Fail(p)
       \/ Fail(p) /\ UNCHANGED minted
    /\ UNCHANGED <<clock, fileVars, faults, historyVars>>

\* The private key is written first: its file is created, then filled.
StorePrivateKey(p) ==
    /\ At(p, "storeKey")
    /\ keyFiles' = keyFiles \cup {proc[p].ses}
    /\ partKeys' = partKeys \cup {proc[p].ses}
    /\ forced' = (forced \/ proc[p].cmd # "forward")
    /\ Goto(p, "fillKey")
    /\ UNCHANGED <<clock, info, writers, minted, link, faults, runs, raced>>

\* The mutant drops the error of the write.
FillKeyOrNot(p) ==
    /\ At(p, "fillKey")
    /\ partKeys' \in {partKeys, partKeys \ {proc[p].ses}}
    /\ Goto(p, "truncate")
    /\ UNCHANGED <<clock, info, writers, keyFiles, minted, link, faults, historyVars>>

FillKey(p) ==
    /\ At(p, "fillKey")
    /\ partKeys' = partKeys \ {proc[p].ses}
    /\ Goto(p, "truncate")
    /\ UNCHANGED <<clock, info, writers, keyFiles, minted, link, faults, historyVars>>

\* Then the session file, which is opened, and so emptied, and filled.
TruncateInfo(p) ==
    /\ At(p, "truncate")
    /\ info' = Emptied
    /\ writers' = writers \cup {p}
    /\ Goto(p, "fillInfo")
    /\ UNCHANGED <<clock, keyFiles, partKeys, minted, link, faults, historyVars>>

\* Over what another command wrote since, the end of a longer text stays.
Filled(p) ==
    CASE p \notin writers -> {info}
      [] p \in writers /\ info = Emptied -> {File(proc[p].ses)}
      [] OTHER -> {File(proc[p].ses), Torn}

FillInfo(p) ==
    /\ At(p, "fillInfo")
    /\ info' \in Filled(p)
    /\ writers' = writers \ {p}
    /\ IF proc[p].cmd = "forward" THEN Goto(p, "decode") /\ UNCHANGED link ELSE Exit(p)
    /\ UNCHANGED <<clock, keyFiles, partKeys, minted, faults, historyVars>>

\* A file operation returns an error and `?` ends the command.  The files stay as
\* they are; a write of the session file may have put a part of it there.  At
\* "truncate" it is the permissions of the key or the opening that fail.
IoFails(p) ==
    /\ faults < MaxFaults
    /\ faults' = faults + 1
    /\ proc[p].pc \in {"loadRead", "loadKeyRead", "cleanRead", "removeKey", "cleanInfo",
                        "storeKey", "fillKey", "truncate", "fillInfo"}
    /\ info' \in IF At(p, "fillInfo") /\ p \in writers THEN {info, Torn} ELSE {info}
    /\ writers' = writers \ {p}
    /\ Fail(p)
    /\ UNCHANGED <<clock, keyFiles, partKeys, minted, historyVars>>

-----------------------------------------------------------------------------
(* TunnelManager::forward and TunnelClient. *)

\* decode_secret_key, which the mock key does not pass; then the connection
\* attempt starts its timeout.
Decode(p) ==
    /\ At(p, "decode")
    /\ \/ Fail(p)
       \/ /\ proc[p].ses.id # TestId
          /\ proc' = [proc EXCEPT ![p].pc = "connect", ![p].wake = clock + ConnectTimeout]
          /\ UNCHANGED link
    /\ UNCHANGED <<clock, fileVars, minted, faults, historyVars>>

\* establish_tunnel, first half: connected, refused, or timed out.
Connect(p) ==
    /\ At(p, "connect")
    /\ \/ /\ link' = [link EXCEPT ![p] = [st |-> "up", since |-> clock]]
          /\ Goto(p, "authenticate")
       \/ Fail(p)
    /\ UNCHANGED <<clock, fileVars, minted, faults, historyVars>>

\* A request to the hub (authenticate_publickey, tcpip_forward) waits without
\* a timeout: on a silent link it returns only when the transport breaks.
Ask(p, pc, next) ==
    /\ At(p, pc)
    /\ \/ link[p].st = "up" /\ Goto(p, next) /\ UNCHANGED link
       \/ link[p].st \in {"up", "closed"} /\ Fail(p)
    /\ UNCHANGED <<clock, fileVars, minted, faults, historyVars>>

Authenticate(p) == Ask(p, "authenticate", "tcpipForward")
RequestReverseTunnel(p) == Ask(p, "tcpipForward", "check")

\* run_until_expiry: what the loop looks at, and the expiry looked at late.
DueLate(p) == clock > proc[p].ses.exp + 1
Due(p) == clock >= proc[p].ses.exp
IsConnected(p) == link[p].st # "closed"

CheckExpiry(p) ==
    /\ At(p, "check")
    /\ IF Due(p) THEN Goto(p, "close")
       ELSE proc' = [proc EXCEPT ![p].pc = "sleep", ![p].wake = clock + KeepAlive]
    /\ UNCHANGED <<clock, fileVars, minted, link, faults, historyVars>>

WakeUp(p) ==
    /\ At(p, "sleep") /\ clock = proc[p].wake
    /\ IF IsConnected(p) THEN Goto(p, "keepAlive") /\ UNCHANGED link ELSE Fail(p)
    /\ UNCHANGED <<clock, fileVars, minted, faults, historyVars>>

\* send_keepalive opens a channel: granted or refused proves the link; a lost
\* transport fails; a silent one keeps it waiting.
SendKeepalive(p) ==
    /\ At(p, "keepAlive")
    /\ \/ IsConnected(p) /\ link[p].st # "silent" /\ Goto(p, "check") /\ UNCHANGED link
       \/ ~IsConnected(p) /\ Fail(p)
    /\ UNCHANGED <<clock, fileVars, minted, faults, historyVars>>

\* Ctrl-C wins the select and drops run_until_expiry where it waits.
CtrlC(p) ==
    /\ proc[p].pc \in {"sleep", "keepAlive"}
    /\ Goto(p, "close")
    /\ UNCHANGED <<clock, fileVars, minted, link, faults, historyVars>>

\* close_tunnel: the handle is taken and a disconnect sent.
CloseTunnel(p) ==
    /\ At(p, "close")
    /\ Exit(p)
    /\ UNCHANGED <<clock, fileVars, minted, faults, historyVars>>

-----------------------------------------------------------------------------
(* The surroundings: the network, the clock, the user's kill. *)

LinkFails(p) ==
    \/ /\ link[p].st = "up"
       /\ \E s \in {"silent", "closed"} : link' = [link EXCEPT ![p] = [st |-> s, since |-> clock]]
       /\ UNCHANGED <<clock, fileVars, minted, proc, faults, historyVars>>
    \/ /\ link[p].st = "silent"
       /\ link' = [link EXCEPT ![p].st = "up"]
       /\ UNCHANGED <<clock, fileVars, minted, proc, faults, historyVars>>

\* TCP gives up on a peer that does not answer.
TcpGivesUp(p) ==
    /\ link[p].st = "silent"
    /\ link' = [link EXCEPT ![p] = [st |-> "closed", since |-> clock]]
    /\ UNCHANGED <<clock, fileVars, minted, proc, faults, historyVars>>

Kill(p) ==
    /\ faults < MaxFaults /\ ~At(p, "idle")
    /\ faults' = faults + 1
    /\ writers' = writers \ {p}
    /\ Exit(p)
    /\ UNCHANGED <<clock, info, keyFiles, partKeys, minted, historyVars>>

\* Local computation takes no time; waiting does.
Waiting(p) ==
    \/ proc[p].pc \in {"idle", "authenticate", "tcpipForward", "keepAlive", "request"}
    \/ proc[p].pc \in {"connect", "sleep"} /\ clock < proc[p].wake

TickClient ==
    /\ clock < MaxTime
    /\ \A p \in Procs : Waiting(p)
    /\ clock' = clock + 1
    /\ UNCHANGED <<fileVars, minted, proc, link, faults, historyVars>>

ProcStep(p) ==
    \/ LoadExists(p) \/ LoadRead(p) \/ LoadKey(p) \/ LoadKeyRead(p)
    \/ CleanExists(p) \/ CleanRead(p) \/ CleanKey(p) \/ RemoveKey(p) \/ CleanInfo(p)
    \/ RequestKeyPair(p) \/ StorePrivateKey(p) \/ FillKey(p) \/ TruncateInfo(p) \/ FillInfo(p)
    \/ Decode(p) \/ Connect(p) \/ Authenticate(p) \/ RequestReverseTunnel(p)
    \/ CheckExpiry(p) \/ WakeUp(p) \/ SendKeepalive(p) \/ CloseTunnel(p)

ClientNext ==
    \/ \E p \in Procs :
          \/ \E c \in Commands : Start(p, c)
          \/ ProcStep(p) \/ CtrlC(p) \/ IoFails(p) \/ Kill(p) \/ LinkFails(p) \/ TcpGivesUp(p)
    \/ TickClient

ClientSpec == ClientInit /\ [][ClientNext]_clientVars

-----------------------------------------------------------------------------
(* Properties. *)

ClientTypeOK ==
    /\ clock \in 0 .. MaxTime /\ minted \in 0 .. MaxSessions /\ faults \in 0 .. MaxFaults
    /\ info \in {NoFile, Emptied, Torn} \cup {File(s) : s \in Sessions}
    /\ keyFiles \subseteq Sessions /\ partKeys \subseteq keyFiles /\ writers \subseteq Procs
    /\ \A p \in Procs : proc[p].ses \in Sessions \cup {NoSession}
    /\ \A p \in Procs : link[p].st \in {"none", "up", "silent", "closed"}

\* run_until_expiry looks at the clock before it sleeps: a tunnel whose link
\* answers is held at most one keep-alive interval past its expiry.
HeldToExpiry ==
    \A p \in Procs : At(p, "sleep") => clock < proc[p].ses.exp + KeepAlive

\* run_until_expiry, "detected within one keepalive interval": a transport that
\* was closed is noticed within the interval, whatever the loop was waiting for.
DropNoticed ==
    \A p \in Procs :
        At(p, "sleep") /\ link[p].st = "closed" => clock <= link[p].since + KeepAlive

\* store_private_key writes the key before the session file that names it: a
\* session file that can be read never names a key written in part, whatever
\* fails, whoever is killed and however commands overlap.  The mock session of
\* `keys test` has the same name whenever it is made in the same second, so its
\* key may be written again.
NamedKeyWhole ==
    info.st = "ok" /\ info.of.id # TestId => info.of \notin partKeys

\* Refuted: a session file that cannot be parsed, which every command that reads
\* it fails on (`edf keys cleanup` included), is one that is being written.  A
\* kill or a failing write after the file was emptied leaves one behind, and so
\* do two commands that write it at the same time.
NeverWedged ==
    info.st \in {"empty", "torn"} => \E p \in Procs : At(p, "fillInfo")

\* With commands run one at a time and without faults, a private key is on disk
\* only while a session file names it (or the running command is about to): the
\* keys of lapsed sessions do not pile up.  `keys request` and `keys test`, which
\* store a session over the one in place, are the exception.
KeysNamed ==
    ~raced /\ faults = 0 /\ ~forced =>
        \A k \in keyFiles : info.of = k \/ \E p \in Procs : proc[p].ses = k

\* With commands run one at a time, a key that has not expired leaves the disk
\* only by `edf keys cleanup`.
LiveKeyKept ==
    [][~raced' => \A k \in keyFiles \ keyFiles' :
            k.exp < clock \/ \E p \in Procs : proc[p].cmd = "cleanup" /\ proc[p].ses = k]_clientVars
=============================================================================
