------------------------------- MODULE Ipc -------------------------------
(***************************************************************************)
(* The named pipe between the Go controller and the sentinel process, seen *)
(* from the client side (internal/ipc/client.go).                          *)
(*                                                                         *)
(* The sentinel creates ONE instance of the pipe, so at any time at most   *)
(* one connection is served.  Connections are numbered in the order they   *)
(* were dialled; a client of an older connection gets an error from every  *)
(* call.  A Send holds the client's mutex from the write of its request to *)
(* the end of its read, and gives up after cmdTimeout without closing the  *)
(* pipe: the request may still be executed later, and its answer may be    *)
(* read by a later Send.                                                   *)
(***************************************************************************)
EXTENDS Naturals, Sequences

CONSTANTS
  Callers,      \* connections of the control pipe, each served by a goroutine
  MaxTimeouts   \* bound: how many Sends may run into cmdTimeout

ASSUME CallersAssumption  ==
  Callers \cap {"tray", "hotkey", "idler", "sync", "dog", "none"} = {}
ASSUME TimeoutsAssumption == MaxTimeouts \in Nat

\* The goroutines that run LockCommand or UnlockCommand: the connections of the
\* control pipe, the menu of the tray, the global hotkey and the callback of the
\* idle timer; and all those that talk to the sentinel, with the state-sync
\* poller and the watchdog.
Users      == Callers \cup {"tray", "hotkey", "idler"}
Agents     == Users \cup {"sync"}
Goroutines == Agents \cup {"dog"}

Commands == {"LOCK", "UNLOCK", "STATUS", "PING", "SET_COMBO"}
Replies  == {"OK", "PONG", "LOCKED", "UNLOCKED"}

VARIABLES
  live,      \* number of the connection the pipe instance serves, 0 if none
  dials,     \* number of connections made so far
  hungup,    \* the client closed its end of live; the server has yet to see it
  req,       \* requests written to live and not yet read by the sentinel
  resp,      \* answers written to live and not yet read by a client
  using,     \* the client whose mutex a goroutine holds in Send, 0 if none
  timeouts   \* number of Sends that have timed out

ipcVars == <<live, dials, hungup, req, resp, using, timeouts>>

-----------------------------------------------------------------------------

\* A mistake of Free: clients have no mutex.
FreeAlways(c) == TRUE

\* The mutex of client c is free: no Send is in progress on it.
Free(c) == \A g \in Goroutines : using[g] # c

\* A write to client c reaches the sentinel.
Connected(c) == c = live /\ ~hungup

\* Send, first half: take the client's mutex and write the request.
Send(g, c, cmd) ==
  /\ Free(c)
  /\ Connected(c)
  /\ req' = Append(req, cmd)
  /\ using' = [using EXCEPT ![g] = c]
  /\ UNCHANGED <<live, dials, hungup, resp, timeouts>>

\* Send on a client whose pipe is closed or broken: the write fails.
Refused(c) ==
  /\ Free(c)
  /\ ~Connected(c)
  /\ UNCHANGED ipcVars

\* Send, second half: the reply line r.  A read returns what the pipe holds by
\* then; each Send has a bufio.Reader of its own, so whatever the read returned
\* after the first line is lost.
Answered(g, r) ==
  /\ using[g] # 0 /\ using[g] = live
  /\ resp # <<>>
  /\ r = Head(resp)
  /\ \E n \in 1..Len(resp) : resp' = SubSeq(resp, n + 1, Len(resp))
  /\ using' = [using EXCEPT ![g] = 0]
  /\ UNCHANGED <<live, dials, hungup, req, timeouts>>

\* A mistake of Failed: the error path leaves the client's mutex locked.
FailedKeepsMutex(g) ==
  /\ using[g] # 0
  /\ \/ timeouts < MaxTimeouts /\ timeouts' = timeouts + 1
     \/ using[g] # live /\ timeouts' = timeouts
  /\ UNCHANGED <<live, dials, hungup, req, resp, using>>

\* Send, second half: the read fails, because the deadline passed or because
\* the other end of the pipe is gone.
Failed(g) ==
  /\ using[g] # 0
  /\ \/ timeouts < MaxTimeouts /\ timeouts' = timeouts + 1
     \/ using[g] # live /\ timeouts' = timeouts
  /\ using' = [using EXCEPT ![g] = 0]
  /\ UNCHANGED <<live, dials, hungup, req, resp>>

\* A mistake of Close: it does not wait for a Send in progress.
CloseAtOnce(c) ==
  /\ hungup' = (hungup \/ c = live)
  /\ UNCHANGED <<live, dials, req, resp, using, timeouts>>

\* Close waits for the client's mutex, so it never cuts off a Send.
Close(c) ==
  /\ Free(c)
  /\ hungup' = (hungup \/ c = live)
  /\ UNCHANGED <<live, dials, req, resp, using, timeouts>>

\* Connect: dial the pipe instance, which must be waiting for a client.
Dial ==
  /\ live = 0
  /\ dials' = dials + 1
  /\ live' = dials'
  /\ UNCHANGED <<hungup, req, resp, using, timeouts>>

IpcTypeOK ==
  /\ live \in Nat /\ dials \in Nat /\ live <= dials
  /\ hungup \in BOOLEAN
  /\ req \in Seq(Commands)
  /\ resp \in Seq(Replies)
  /\ using \in [Goroutines -> 0..dials]
  /\ timeouts \in 0..MaxTimeouts

\* main.go connects once, and asks for the unlock combo, before any goroutine is
\* started.  If that Send timed out, its request may still be unread.
IpcInit ==
  /\ live = 1 /\ dials = 1 /\ hungup = FALSE
  /\ \/ timeouts = 0 /\ req = <<>>
     \/ MaxTimeouts > 0 /\ timeouts = 1 /\ req = <<"SET_COMBO">>
  /\ resp = <<>>
  /\ using = [g \in Goroutines |-> 0]
=============================================================================
