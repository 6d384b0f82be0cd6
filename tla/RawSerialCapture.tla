-------------------------- MODULE RawSerialCapture --------------------------
(***************************************************************************)
(* The line capture under every detector adapter,                          *)
(* esp32-bridge/include/RawSerialCapture.h, with its caller: each adapter  *)
(* calls poll() and, when a line is ready, takes it at once.               *)
(*                                                                         *)
(* The UART is external.  Its bytes arrive while poll() is reading, so a   *)
(* byte is a step of its own.                                              *)
(***************************************************************************)
EXTENDS LineQueue

VARIABLES
    capture,    \* _lineReady, _buffer, _line
    input,      \* how many bytes of the stream have been read
    caller      \* where the adapter's poll() stands

captureVars == <<sent, delivered, capture, input, caller>>

EmptyCapture == [ready |-> FALSE, buffer |-> <<>>, line |-> <<>>]

\* begin() has been called.
CaptureInit ==
    /\ LineQueueInit
    /\ capture = EmptyCapture
    /\ input = 0
    /\ caller = "idle"

ByteArrives ==
    /\ Len(sent) < StreamLimit
    /\ Send
    /\ UNCHANGED <<capture, input, caller>>

Available == Len(sent) > input

-----------------------------------------------------------------------------
Trimmed(buffer) ==
    LET solid == {i \in DOMAIN buffer : buffer[i] # Blank}
    IN  IF solid = {} THEN <<>> ELSE SubSeq(buffer, Min(solid), Max(solid))

\* A buffer with nothing in it commits no line.
CommitLine(c) ==
    IF Trimmed(c.buffer) = <<>>
    THEN [c EXCEPT !.buffer = <<>>]
    ELSE [ready |-> TRUE, buffer |-> <<>>, line |-> Trimmed(c.buffer)]

\* Fault variant: the last element of the array is used for text.
StoreUpToTheEnd(c, char) ==
    IF Len(c.buffer) <= LineCapacity THEN [c EXCEPT !.buffer = Append(@, char)] ELSE c

\* What does not fit is dropped and the line goes on.
Store(c, char) ==
    IF Len(c.buffer) < LineCapacity THEN [c EXCEPT !.buffer = Append(@, char)] ELSE c

\* poll() does nothing while a line has not been taken.
BeginPoll ==
    /\ caller = "idle"
    /\ caller' = IF capture.ready THEN "polled" ELSE "reading"
    /\ UNCHANGED <<sent, delivered, capture, input>>

\* Fault variant: poll() reads on until the stream is empty.
ReadsOn(c) == "reading"

AfterByte(c) == IF c.ready THEN "polled" ELSE "reading"

ReadByte ==
    /\ caller = "reading"
    /\ Available
    /\ input' = input + 1
    /\ LET char == sent[input + 1] IN
        \/ char = LineEnd /\ capture' = CommitLine(capture)
        \/ char = Junk /\ UNCHANGED capture
        \/ char \in Letters \cup {Blank} /\ capture' = Store(capture, char)
    /\ caller' = AfterByte(capture')
    /\ UNCHANGED <<sent, delivered>>

StreamIsEmpty ==
    /\ caller = "reading"
    /\ ~Available
    /\ caller' = "polled"
    /\ UNCHANGED <<sent, delivered, capture, input>>

\* hasLine(), then getLine().
GetLine ==
    /\ caller = "polled"
    /\ caller' = "idle"
    /\ \/ /\ capture.ready
          /\ delivered' = Append(delivered, capture.line)
          /\ capture' = [capture EXCEPT !.ready = FALSE]
       \/ /\ ~capture.ready
          /\ UNCHANGED <<delivered, capture>>
    /\ UNCHANGED <<sent, input>>

Poll == BeginPoll \/ ReadByte \/ StreamIsEmpty \/ GetLine

CaptureNext == ByteArrives \/ Poll

CaptureSpec == CaptureInit /\ [][CaptureNext]_captureVars

\* loop() polls the detector in every iteration.
CaptureFairSpec == CaptureSpec /\ WF_captureVars(Poll)

-----------------------------------------------------------------------------
(* Properties.                                                              *)

\* The two arrays are never written past their end, and a line that is ready or
\* was delivered has text in it.
CaptureTypeOK ==
    /\ sent \in Seq(Bytes)
    /\ capture \in [ready: BOOLEAN,
                    buffer: Seq(Letters \cup {Blank}),
                    line: Seq(Letters \cup {Blank})]
    /\ Len(capture.buffer) <= LineCapacity
    /\ Len(capture.line) <= LineCapacity
    /\ capture.ready => capture.line # <<>>
    /\ input \in 0..Len(sent)
    /\ caller \in {"idle", "reading", "polled"}

\* The capture is a queue of lines: none is lost, doubled, merged with its
\* neighbour or overwritten before it was taken, and every line that has been
\* sent whole is delivered in the end.
CaptureDelivers == LineQueueSpec
=============================================================================
