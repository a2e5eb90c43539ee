------------------------------ MODULE WsBounds ------------------------------
(***************************************************************************)
(* The deadlines put on the HTTP library (ws_bounds.py): a call of the     *)
(* library is a loop of single socket calls, and holds the program until   *)
(* it ends.  What a socket call answers is the peer's doing: pieces, fewer *)
(* than are wanted, none yet, or that the peer has gone; a peer may        *)
(* dribble, or fall silent in the middle of a frame.  A request comes over *)
(* a socket that waits up to its timeout; a client's frames come over one  *)
(* that does not wait, in pieces of a stream.  What is written, a reply or *)
(* the answer to a client's ping, waits longer: lwIP, out of buffers,      *)
(* sleeps inside one send(), whatever the timeout of the socket.           *)
(***************************************************************************)
EXTENDS Integers

CONSTANTS
  Bound,      \* REQ_BOUND_S, RECV_BOUND_S, SEND_BOUND_S: one for all
  RecvWait,   \* server.socket_timeout
  SendWait,   \* LWIP_ERR_MEM_S: the most one send() may take
  HeadLen,    \* the pieces of a frame's header
  FrameLen,   \* the pieces of a frame: header, length, mask, payload
  MaxSpan     \* bound: how long a call is timed

ASSUME BoundsAssumption ==
  /\ Bound \in Nat /\ RecvWait \in Nat \ {0} /\ SendWait \in Nat \ {0}
  /\ FrameLen \in Nat /\ HeadLen \in 1..(FrameLen - 1)
  /\ MaxSpan \in Nat /\ MaxSpan > Bound + RecvWait + SendWait

VARIABLES
  call,     \* the library call under way: "none", "header", "body", "reply",
            \* "frame", or "answer", to a ping or a close
  span,     \* the time since it began
  before,   \* the time that earlier calls of this exchange took
  wait,     \* the time its socket call under way has taken
  pos,      \* how much of a frame has been taken from the client's stream
  client,   \* whether there is a client
  astray    \* it sent a fragment the reader does not support, and left lying

ioVars == <<call, span, before, wait, pos, client, astray>>

IoNew   == call = "none" /\ span = 0 /\ before = 0 /\ wait = 0 /\ pos = 0 /\ client = FALSE /\ astray = FALSE
IoAnew  == /\ call' = "none" /\ span' = 0 /\ before' = 0 /\ wait' = 0
           /\ pos' = 0 /\ client' = FALSE /\ astray' = FALSE

\* What is read comes within the timeout of its socket, where a client's answers
\* at once and time passes when it has nothing to give; what is written may
\* meet lwIP's sleep.
Writes == {"reply", "answer"}
Patience == IF call \in Writes THEN SendWait ELSE IF call = "frame" THEN 1 ELSE RecvWait

\* Mutant: nobody looks at the clock.
Late_Never == FALSE

\* The deadline, looked at between two socket calls.
Late == span > Bound

GoesOn == call' = call /\ span' = span /\ before' = before /\ wait' = 0
GoesOnAtOnce == call' = call /\ span' = span /\ before' = before /\ wait' = Patience
Over   == call' = "none" /\ span' = 0 /\ before' = 0 /\ wait' = 0

\* The next part of an exchange: its deadline counts anew.
Begins(what) == call' = what /\ span' = 0 /\ before' = before + span /\ wait' = 0

-----------------------------------------------------------------------------
\* A connection is accepted, or a client is asked for a frame.
Accepts == call = "none" /\ Begins("header") /\ UNCHANGED <<pos, client, astray>>
Receives ==
  /\ call = "none" /\ client
  /\ call' = "frame" /\ span' = 0 /\ before' = 0 /\ wait' = 1
  /\ UNCHANGED <<pos, client, astray>>

\* bounded_receive_header_bytes: pieces until the header is whole; the timeout
\* of the socket, a peer that has gone and the deadline end it as well.  What
\* follows is the body, the reply, or nothing.
Header ==
  /\ call = "header"
  /\ \/ ~Late /\ GoesOn
     \/ Begins("body")
     \/ Begins("reply")
     \/ Over
  /\ UNCHANGED <<pos, client, astray>>

\* bounded_receive_body_bytes: the same.
Body ==
  /\ call = "body"
  /\ \/ ~Late /\ GoesOn
     \/ Begins("reply")
     \/ Over
  /\ UNCHANGED <<pos, client, astray>>

\* bounded_send_bytes: EAGAIN and part of the bytes until the deadline, which
\* raises.  All the bytes, of a handshake: there is a client, at the start of
\* its stream; or of a page.  A reset counts as sent, and is noticed.
Reply ==
  /\ call = "reply"
  /\ \/ ~Late /\ GoesOn /\ UNCHANGED <<pos, client, astray>>
     \/ Over /\ UNCHANGED <<pos, client, astray>>
     \/ ~client /\ Over /\ pos' = 0 /\ client' = TRUE /\ UNCHANGED astray

\* The client is dropped.
Dropped == Over /\ pos' = 0 /\ client' = FALSE /\ astray' = FALSE

\* The same, of the answer to a client's ping or close; what fails drops it.
Answer ==
  /\ call = "answer"
  /\ \/ ~Late /\ GoesOn /\ UNCHANGED <<pos, client, astray>>
     \/ Over /\ UNCHANGED <<pos, client, astray>>
     \/ Dropped

\* Mutant: an error that the library takes for no frame yet.
CutOff_Swallowed == Over /\ UNCHANGED <<pos, client, astray>>

\* A frame cut off leaves the stream out of step: an error that drops the client.
CutOff == Dropped

\* n more pieces: the frame is whole, and perhaps to be answered; or the header
\* is, of a fragment that is neither the first nor the last: the rest stays.
Takes(n) ==
  \/ pos + n < FrameLen /\ GoesOnAtOnce /\ pos' = pos + n /\ UNCHANGED <<client, astray>>
  \/ pos + n = FrameLen /\ (Over \/ Begins("answer")) /\ pos' = 0 /\ UNCHANGED <<client, astray>>
  \/ pos + n = HeadLen /\ Over /\ pos' = HeadLen /\ UNCHANGED client /\ astray' = TRUE

\* bounded_read_frame, _read_n: nothing there before the frame has begun is no
\* frame yet; after that it is waited for, until the deadline.
Frame ==
  /\ call = "frame" /\ ~astray
  /\ \/ pos = 0 /\ Over /\ UNCHANGED <<pos, client, astray>>
     \/ pos > 0 /\ ~Late /\ GoesOn /\ UNCHANGED <<pos, client, astray>>
     \/ pos > 0 /\ Late /\ CutOff
     \/ Dropped
     \/ \E n \in 1..(FrameLen - pos) : Takes(n)

\* Once astray, whatever comes next is taken for a header: anything may follow.
Misread ==
  /\ call = "frame" /\ astray
  /\ \/ ~Late /\ GoesOn /\ UNCHANGED <<pos, client, astray>>
     \/ Over /\ UNCHANGED <<pos, client, astray>>
     \/ Begins("answer") /\ UNCHANGED <<pos, client, astray>>
     \/ Dropped

\* The client's socket is closed elsewhere: superseded, silent, a write failed.
Closed == call = "none" /\ client /\ Dropped

IoStep == Header \/ Body \/ Reply \/ Answer \/ Frame \/ Misread

\* Time passes, within a socket call.
IoTick ==
  /\ call # "none" /\ wait < Patience
  /\ span' = IF span < MaxSpan THEN span + 1 ELSE MaxSpan
  /\ wait' = wait + 1
  /\ UNCHANGED <<call, before, pos, client, astray>>

-----------------------------------------------------------------------------
\* A call of the library ends within its bound and one socket call more; that
\* one is lwIP's sleep at worst, where something is written.  A whole exchange,
\* of header, body and reply, counts its bound for each of the three.
CallsAreBounded ==
  /\ span <= Bound + Patience
  /\ before + span <= 3 * Bound + 2 * RecvWait + SendWait

\* The next read of a client begins at the start of a frame, which is taken
\* whole, or the client is dropped: unless it sent a fragment that is neither
\* the first nor the last of its message, which the reader returns from.
FramesStayWhole == call = "none" /\ pos # 0 => astray

=============================================================================
