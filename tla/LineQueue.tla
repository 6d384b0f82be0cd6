----------------------------- MODULE LineQueue ------------------------------
(***************************************************************************)
(* What the adapters rely on when they call RawSerialCapture: a queue of   *)
(* lines.  Every line of the byte stream is delivered once, in the order   *)
(* of the stream, whatever the moments at which its bytes arrive.          *)
(*                                                                         *)
(* A line is what stands before a line end, without the bytes that are not *)
(* printable, cut to what the buffer holds, without blanks around it.  A   *)
(* line with nothing left is no line.                                      *)
(***************************************************************************)
EXTENDS Naturals, Sequences, FiniteSets, FiniteSetsExt

CONSTANTS
    Letters,        \* printable bytes that are not blank
    Blank,          \* a space
    LineEnd,        \* CR or LF: the code treats them alike
    Junk,           \* a byte that is not printable ASCII, a tab included
    LineCapacity,   \* MAX_LINE_LENGTH - 1
    StreamLimit     \* bound: how many bytes are sent

ASSUME LineQueueAssumption ==
    /\ Blank # LineEnd /\ Blank # Junk /\ LineEnd # Junk
    /\ {Blank, LineEnd, Junk} \cap Letters = {}
    /\ LineCapacity \in Nat \ {0}
    /\ StreamLimit \in Nat

Bytes == Letters \cup {Blank, LineEnd, Junk}

VARIABLES
    sent,       \* the bytes the detector has sent
    delivered   \* the lines getLine() has returned

LineEnds(bytes) == {i \in DOMAIN bytes : bytes[i] = LineEnd}

\* The bytes between the line end at e and the one before it.
Between(bytes, e) ==
    LET earlier == {i \in LineEnds(bytes) : i < e}
        begin == IF earlier = {} THEN 1 ELSE Max(earlier) + 1
    IN  SubSeq(bytes, begin, e - 1)

\* The part of a sequence from its first to its last byte that is not blank.
WithoutBlanksAround(s) ==
    LET solid == {i \in DOMAIN s : s[i] # Blank}
    IN  IF solid = {} THEN <<>> ELSE SubSeq(s, Min(solid), Max(solid))

Cut(s) == SubSeq(s, 1, Min({Len(s), LineCapacity}))

\* The sequence without the elements that are x.
Without(s, x) ==
    LET upTo[n \in 0..Len(s)] ==
            IF n = 0 THEN <<>>
            ELSE IF s[n] = x THEN upTo[n - 1] ELSE Append(upTo[n - 1], s[n])
    IN  upTo[Len(s)]

LineOf(raw) == WithoutBlanksAround(Cut(Without(raw, Junk)))

\* The line each byte ends, <<>> where it ends none.
LineEndingAt(bytes) ==
    [i \in DOMAIN bytes |->
        IF bytes[i] = LineEnd THEN LineOf(Between(bytes, i)) ELSE <<>>]

LinesOf(bytes) == Without(LineEndingAt(bytes), <<>>)

-----------------------------------------------------------------------------
LineQueueInit == sent = <<>> /\ delivered = <<>>

Send ==
    /\ \E c \in Bytes : sent' = Append(sent, c)
    /\ UNCHANGED delivered

Deliver ==
    /\ LET lines == LinesOf(sent) IN
        /\ Len(delivered) < Len(lines)
        /\ delivered' = Append(delivered, lines[Len(delivered) + 1])
    /\ UNCHANGED sent

\* What is delivered is right, and what is there to deliver is delivered.
LineQueueSafety == LineQueueInit /\ [][Send \/ Deliver]_<<sent, delivered>>

LineQueueSpec == LineQueueSafety /\ WF_<<sent, delivered>>(Deliver)
=============================================================================
