----------------------------- MODULE SealedFrames -----------------------------
(***************************************************************************)
(* crypto.go: frames over the byte stream of a TCP connection, one         *)
(* direction.  A frame is a length followed by nonce and sealed text; the  *)
(* stream delivers its bytes in pieces of any size and may end anywhere.   *)
(* A byte is represented by its place: the frame and the position in it,   *)
(* header first; a byte changed on the way is no longer intact.            *)
(***************************************************************************)
EXTENDS Integers, Sequences

CONSTANTS
  HeaderLen,    \* bytes of the length field (4 in the code)
  Overhead,     \* bytes of nonce and tag (12 + 16 in the code)
  NonceSize,    \* shortest body ReadFrame accepts (12 in the code)
  maxFrameLen,  \* longest body ReadFrame accepts (1 MB in the code)
  Sizes,        \* lengths of the texts that are written
  MaxFrames,    \* bound: frames written
  MaxCorrupted  \* bound: bytes changed on the way

ASSUME FrameAssumption ==
  /\ HeaderLen \in Nat \ {0}
  /\ NonceSize \in Nat \ {0} /\ Overhead \in Nat /\ NonceSize <= Overhead
  /\ maxFrameLen \in Nat /\ maxFrameLen >= NonceSize
  /\ Sizes \subseteq Nat
  /\ MaxFrames \in Nat /\ MaxCorrupted \in Nat

VARIABLES
  sent,       \* sent[i]: the length of the text of the i-th frame
  wire,       \* bytes on the way
  open,       \* does the writer still hold its end open?
  part,       \* what ReadFrame is reading: "header", "body", or "failed"
  got,        \* what io.ReadFull has collected
  need,       \* how many bytes it must collect
  delivered,  \* frames ReadFrame has returned
  corrupted   \* bytes changed so far

vars == <<sent, wire, open, part, got, need, delivered, corrupted>>

Byte(frame, pos) == [frame |-> frame, pos |-> pos, intact |-> TRUE]

BodyLen(n) == Overhead + n

Frame(i, n) == [k \in 1..(HeaderLen + BodyLen(n)) |-> Byte(i, k)]

Init ==
  /\ sent = <<>> /\ wire = <<>> /\ open = TRUE
  /\ part = "header" /\ got = <<>> /\ need = HeaderLen
  /\ delivered = 0 /\ corrupted = 0

-----------------------------------------------------------------------------

(* WriteFrame hands the whole frame to one Write, which stops anywhere if the
   connection breaks; there is no upper bound on the length. *)
WriteFrame ==
  /\ open /\ Len(sent) < MaxFrames
  /\ \E n \in Sizes :
       LET frame == Frame(Len(sent) + 1, n)
       IN  /\ sent' = Append(sent, n)
           /\ \/ wire' = wire \o frame /\ UNCHANGED open
              \/ /\ \E k \in 0..(Len(frame) - 1) :
                      wire' = wire \o SubSeq(frame, 1, k)
                 /\ open' = FALSE
  /\ UNCHANGED <<part, got, need, delivered, corrupted>>

CloseWriter ==
  /\ open
  /\ open' = FALSE
  /\ UNCHANGED <<sent, wire, part, got, need, delivered, corrupted>>

CorruptByte ==
  /\ corrupted < MaxCorrupted
  /\ \E k \in 1..Len(wire) :
       wire[k].intact /\ wire' = [wire EXCEPT ![k].intact = FALSE]
  /\ corrupted' = corrupted + 1
  /\ UNCHANGED <<sent, open, part, got, need, delivered>>

(* Mutant: one Read is taken for the whole. *)
CompleteAfterOneRead == got # <<>>

(* io.ReadFull: one Read after the other, none beyond what it needs; the next
   reader of the connection finds the rest. *)
Complete == Len(got) = need

(* Mutant: a buffered reader takes what there is. *)
ReadAhead ==
  /\ part # "failed" /\ ~Complete
  /\ wire # <<>>
  /\ got' = got \o wire
  /\ wire' = <<>>
  /\ UNCHANGED <<sent, open, part, need, delivered, corrupted>>

Read ==
  /\ part # "failed" /\ ~Complete
  /\ \E k \in 1..Len(wire) :
       /\ k <= need - Len(got)
       /\ got' = got \o SubSeq(wire, 1, k)
       /\ wire' = SubSeq(wire, k + 1, Len(wire))
  /\ UNCHANGED <<sent, open, part, need, delivered, corrupted>>

(* The length a header holds: that of its frame, or anything if its bytes are
   not those of a header. *)
Lengths(header) ==
  LET i == header[1].frame
  IN  IF header = [k \in 1..HeaderLen |-> Byte(i, k)]
      THEN {BodyLen(sent[i])}
      ELSE 0..(maxFrameLen + 1)

(* Mutant: the bound itself is refused. *)
InBoundsStrictly(n) == NonceSize <= n /\ n < maxFrameLen

InBounds(n) == NonceSize <= n /\ n <= maxFrameLen

ReadHeader ==
  /\ part = "header" /\ Complete
  /\ \E n \in Lengths(got) :
       IF InBounds(n) THEN part' = "body" /\ need' = n
       ELSE part' = "failed" /\ UNCHANGED need
  /\ got' = <<>>
  /\ UNCHANGED <<sent, wire, open, delivered, corrupted>>

(* The tag opens for the body of a frame as it was sealed, whole. *)
Opens(body, i) ==
  /\ i \in 1..Len(sent)
  /\ body = [k \in 1..BodyLen(sent[i]) |-> Byte(i, HeaderLen + k)]

(* Mutant: a frame that does not open is skipped. *)
ReadBodySkipping ==
  /\ part = "body" /\ Complete
  /\ delivered' = IF Opens(got, got[1].frame) THEN got[1].frame ELSE delivered
  /\ part' = "header" /\ need' = HeaderLen
  /\ got' = <<>>
  /\ UNCHANGED <<sent, wire, open, corrupted>>

ReadBody ==
  /\ part = "body" /\ Complete
  /\ IF got # <<>> /\ Opens(got, got[1].frame)
     THEN delivered' = got[1].frame /\ part' = "header" /\ need' = HeaderLen
     ELSE part' = "failed" /\ UNCHANGED <<delivered, need>>
  /\ got' = <<>>
  /\ UNCHANGED <<sent, wire, open, corrupted>>

(* The stream ends within a frame, or between two. *)
StreamEnds ==
  /\ part # "failed" /\ ~Complete
  /\ wire = <<>> /\ ~open
  /\ part' = "failed"
  /\ UNCHANGED <<sent, wire, open, got, need, delivered, corrupted>>

Failed == part = "failed" /\ UNCHANGED vars

Next ==
  \/ WriteFrame
  \/ CloseWriter
  \/ CorruptByte
  \/ Read
  \/ ReadHeader
  \/ ReadBody
  \/ StreamEnds
  \/ Failed

Spec == Init /\ [][Next]_vars

FairSpec ==
  Spec /\ WF_vars(Read) /\ WF_vars(ReadHeader) /\ WF_vars(ReadBody)
       /\ WF_vars(StreamEnds)

-----------------------------------------------------------------------------

TypeOK ==
  /\ sent \in Seq(Sizes) /\ Len(sent) <= MaxFrames
  /\ Len(got) <= need
  /\ need \in {HeaderLen} \cup NonceSize..maxFrameLen
  /\ part \in {"header", "body", "failed"}
  /\ delivered \in 0..Len(sent)
  /\ open \in BOOLEAN
  /\ corrupted \in 0..MaxCorrupted

Channel == INSTANCE FrameChannel

(* However the stream is cut into pieces, broken off or corrupted, the frames
   that are returned are those written, in order (crypto.go:58-111). *)
ImplementsChannel == Channel!Spec

(* The reader fails only for a reason: the writer has closed, a byte was
   changed, or a frame was longer than the reader accepts
   (crypto.go:91-111). *)
FailureHasCause ==
  part = "failed" =>
    ~open \/ corrupted > 0
    \/ \E i \in 1..Len(sent) : BodyLen(sent[i]) > maxFrameLen

(* Frames the reader accepts all arrive on an intact connection
   (crypto.go:89-111). *)
FramesArrive ==
  \A i \in 1..MaxFrames :
    Len(sent) >= i ~>
      delivered >= i \/ ~open \/ corrupted > 0
      \/ \E j \in 1..Len(sent) : BodyLen(sent[j]) > maxFrameLen

=============================================================================
