---------------------------- MODULE SessionHost ----------------------------
(***************************************************************************)
(* Session with a host that is gone in the middle of its work, and, where   *)
(* Returns is TRUE, a new one that sends HANDSHAKE until it is answered.    *)
(* The host is not part of the repository: what it does is assumed.        *)
(***************************************************************************)
EXTENDS Session

CONSTANTS
  Returns,        \* whether a new host comes
  RetryPeriod,    \* the ticks it waits at least before it sends HANDSHAKE again
  MaxFrames       \* bound: the frames the first host sends

VARIABLES
  host,       \* "first", "gone", "new", or "connected": the new one was answered
  frames,     \* the frames the first host has sent
  retry       \* the ticks before the new host sends again

hostVars == <<host, frames, retry>>
allVars == <<vars, hostVars>>

HostInit == Init /\ host = "first" /\ frames = 0 /\ retry = 0

\* The first host sends a frame, or dies having sent a part of it.
SendFrame(c) ==
  /\ host = "first" /\ frames < MaxFrames
  /\ frames' = frames + 1
  /\ \E n \in 1 .. FrameLength[c] :
       /\ Arrive(SubSeq(FrameOf(c), 1, n))
       /\ host' = IF n = FrameLength[c] THEN "first" ELSE "gone"
  /\ UNCHANGED retry

Die == host = "first" /\ host' = "gone" /\ UNCHANGED <<vars, frames, retry>>

\* Another program of the same machine, which finds the endpoint as it is.
Return == Returns /\ host = "gone" /\ host' = "new" /\ UNCHANGED <<vars, frames, retry>>

\* __cdcacm_set_config: another machine, which enumerates the device.  The endpoints
\* are set up afresh, and a reply not taken is lost; the ring, the session and the
\* command being read know nothing of it.
SetConfig ==
  /\ Returns /\ host = "gone"
  /\ host' = "new"
  /\ endpoint' = NoReply
  /\ UNCHANGED <<ring, clock, pc, reading, state, message, frames, retry>>

\* It takes what its predecessor left before it sends.
SendHandshake ==
  /\ host = "new" /\ retry = 0 /\ endpoint = NoReply
  /\ Arrive(FrameOf("HANDSHAKE"))
  /\ retry' = RetryPeriod
  /\ UNCHANGED <<host, frames>>

\* A host that is there takes the reply; only one to HANDSHAKE connects the new
\* one.
TakeReply ==
  /\ host # "gone"
  /\ Take
  /\ host' = IF host = "new" /\ endpoint.to = "HANDSHAKE" THEN "connected" ELSE host
  /\ UNCHANGED <<frames, retry>>

HostTick == Tick /\ retry' = (IF retry > 0 THEN retry - 1 ELSE 0) /\ UNCHANGED <<host, frames>>

Device == Listen /\ UNCHANGED hostVars

HostNext ==
  \/ Device \/ HostTick \/ TakeReply \/ Die \/ Return \/ SetConfig \/ SendHandshake
  \/ \E c \in Command : SendFrame(c)

\* The program and the clock run; the new host comes, retries and reads.  The
\* first host owes nothing.
Fairness ==
  /\ WF_allVars(Device) /\ WF_allVars(HostTick)
  /\ WF_allVars(Return \/ SetConfig) /\ WF_allVars(SendHandshake) /\ WF_allVars(TakeReply)

HostSpec == HostInit /\ [][HostNext]_allVars /\ Fairness

-----------------------------------------------------------------------------
\* A new host gets its handshake answered, wherever its predecessor left the
\* program: in the middle of a frame, inside a session, with a reply not taken.
\* This needs a host that stays silent long enough for the session to end,
\* because HANDSHAKE means nothing inside one (bl.c:95-106, protocol.h:12-14).
HandshakeIsAnswered == host = "new" ~> host = "connected"

\* The session of a host that is gone for good ends (bl.c:84-88).
DepartedHostEndsSession == host = "gone" ~> state = "NONE"

=============================================================================
