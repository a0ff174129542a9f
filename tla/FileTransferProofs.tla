------------------------- MODULE FileTransferProofs -------------------------
(***************************************************************************)
(* A file transfer over a link that comes and goes, for files, windows and *)
(* channels of any size and any number of losses: losing the link costs    *)
(* the transfer nothing, and the two ends implement the abstract delivery. *)
(*                                                                         *)
(* The heart of the argument is Flow: as long as the sink receives, the    *)
(* chunks on their way to it are one unbroken run that begins with the     *)
(* chunk it needs next, and ends where the source goes on.                 *)
(***************************************************************************)
EXTENDS FileTransfer, SequenceTheorems, TLAPS

\* The frames under way to the sink and to the source.
toSink   == chan["source"]
toSource == chan["sink"]
written  == position["sink"]

Under(c) == {c[i] : i \in 1..Len(c)}

NoChunk(c) == \A f \in Under(c) : f.kind # "Chunk"

\* The chunks of c are the frames after "lo", they have the offsets from, ...,
\* to - 1, and nothing stands between them.
Flow(c, from, to, lo) ==
  /\ from <= to
  /\ lo + (to - from) <= Len(c)
  /\ \A i \in 1..Len(c) :
       IF lo < i /\ i <= lo + (to - from)
       THEN c[i].kind = "Chunk" /\ c[i].offset = from + (i - lo - 1)
       ELSE c[i].kind # "Chunk"

-----------------------------------------------------------------------------
(* The inductive invariant.                                                *)

Early == {"Absent", "Incoming"}

\* What each end believes of the link, and what a new link starts with.
Links ==
  /\ \A e \in Ends : connected[e] => link[e] = "open"
  /\ link["source"] = "open" /\ ~connected["source"] => terminal("source")
  /\ phase["source"] = "Sending" => connected["source"]
  /\ link["source"] = "opening" => toSink = <<>>
  /\ link["sink"] = "opening" =>
       toSource = <<>> /\ NoChunk(toSink) /\ phase["source"] # "Sending"

\* The phases of the two ends, and how far each knows the other to be.
Stages ==
  /\ phase["source"] \in {"Hashing", "Offered", "Sending"} \cup Terminal
  /\ phase["sink"] \in Early \cup {"Receiving"} \cup Terminal
  /\ \A e \in Ends : dismissed[e] => terminal(e)
  /\ phase["source"] = "Sending" => phase["sink"] \notin Early
  /\ phase["source"] = "Complete" => phase["sink"] = "Complete"
  /\ phase["sink"] = "Complete" => written = Size

\* What the sink says, or is about to say, is true when the source reads it.
Answers ==
  /\ reply["source"] # Nothing =>
       reply["source"] = Frame("Cancel", 0) /\ phase["source"] \in {"Cancelled", "Failed"}
  /\ reply["sink"].kind \in {"None", "Accept", "Ack", "Complete", "Cancel"}
  /\ reply["sink"].kind = "None" => reply["sink"] = Nothing
  /\ reply["sink"].kind = "Accept" => reply["sink"].offset = written
  /\ \A f \in Under(toSource) \cup {reply["sink"]} :
       /\ f.kind \in {"Accept", "Ack"} => f.offset <= written
       /\ f.kind = "Accept" => phase["sink"] \notin Early
       /\ f.kind = "Complete" => phase["sink"] = "Complete"
  /\ \A f \in Under(toSource) : f.kind \in {"Accept", "Ack", "Complete", "Cancel"}

\* What the source has sent.  Before it is told where to go on, no chunk is
\* under way on its link, so an accept cannot be out of date.
Offers ==
  /\ \A f \in Under(toSink) :
       /\ f.kind \in {"Offer", "Chunk", "Finish", "Cancel"}
       /\ f.kind = "Finish" => written = Size
       /\ f.kind = "Chunk" /\ ~f.good => modified
  /\ phase["sink"] \in Early => NoChunk(toSink)
  /\ link["source"] # "none" /\ phase["source"] \in {"Hashing", "Offered"} =>
       /\ NoChunk(toSink)
       /\ \A f \in Under(toSource) : f.kind = "Accept" => f.offset = written
  /\ ~intact => modified

\* As long as the sink receives, the chunks under way are those it needs, in
\* their order, and reach to where the source goes on.
InFlow ==
  phase["sink"] = "Receiving" =>
    \E lo \in 0..Len(toSink), to \in 0..Size :
      /\ Flow(toSink, written, to, lo)
      /\ phase["source"] = "Sending" =>
           to = sent /\ (sent < Size => lo + (sent - written) = Len(toSink))

Inv ==
  LossesAreHarmless /\ Links /\ Stages /\ Answers /\ Offers /\ InFlow

-----------------------------------------------------------------------------
(* Channels.                                                               *)

\* What is read is one of the frames under way, and the others stay.
LEMMA Reading ==
  ASSUME NEW c \in Seq(Frames), c # <<>>
  PROVE  /\ Tail(c) \in Seq(Frames)
         /\ Head(c) \in Frames
         /\ Head(c) = c[1]
         /\ Head(c) \in Under(c)
         /\ Under(Tail(c)) \subseteq Under(c)
         /\ Len(c) \in Nat \ {0}
<1>1. /\ Head(c) \in Frames
      /\ Tail(c) \in Seq(Frames)
      /\ Len(Tail(c)) = Len(c) - 1
      /\ \A i \in 1..Len(Tail(c)) : Tail(c)[i] = c[i + 1]
  BY HeadTailProperties
<1>2. Len(c) \in Nat \ {0}
  BY EmptySeq
<1>3. Head(c) = c[1]
  OBVIOUS
<1>4. Head(c) \in Under(c)
  BY <1>2, <1>3 DEF Under
<1>5. ASSUME NEW f \in Under(Tail(c))
      PROVE  f \in Under(c)
  <2>1. PICK i \in 1..Len(Tail(c)) : f = Tail(c)[i]
    BY <1>5 DEF Under
  <2>2. i + 1 \in 1..Len(c) /\ f = c[i + 1]
    BY <1>1, <1>2, <2>1
  <2> QED
    BY <2>2 DEF Under
<1> QED
  BY <1>1, <1>2, <1>3, <1>4, <1>5

\* A frame that is sent joins those under way.
LEMMA Sending ==
  ASSUME NEW c \in Seq(Frames), NEW f \in Frames
  PROVE  /\ Append(c, f) \in Seq(Frames)
         /\ Append(c, f) # <<>>
         /\ Under(Append(c, f)) \subseteq Under(c) \cup {f}
<1>1. /\ Append(c, f) \in Seq(Frames)
      /\ Append(c, f) # <<>>
      /\ Len(Append(c, f)) = Len(c) + 1
      /\ \A i \in 1..Len(c) : Append(c, f)[i] = c[i]
      /\ Append(c, f)[Len(c) + 1] = f
  BY AppendProperties
<1>2. Len(c) \in Nat
  OBVIOUS
<1>3. ASSUME NEW g \in Under(Append(c, f))
      PROVE  g \in Under(c) \cup {f}
  <2>1. PICK i \in 1..Len(Append(c, f)) : g = Append(c, f)[i]
    BY <1>3 DEF Under
  <2>2. CASE i = Len(c) + 1
    BY <1>1, <2>1, <2>2
  <2>3. CASE i \in 1..Len(c)
    BY <1>1, <2>1, <2>3 DEF Under
  <2> QED
    BY <1>1, <1>2, <2>1, <2>2, <2>3
<1> QED
  BY <1>1, <1>3

\* A run of chunks shortens by the one that is read, which is the first.
LEMMA FlowReadChunk ==
  ASSUME NEW c \in Seq(Frames), c # <<>>, NEW from \in Nat, NEW to \in Nat, NEW lo \in 0..Len(c),
         Flow(c, from, to, lo), Head(c).kind = "Chunk"
  PROVE  /\ lo = 0
         /\ from < to
         /\ Head(c).offset = from
         /\ Flow(Tail(c), from + 1, to, 0)
<1>1. /\ Len(c) \in Nat \ {0}
      /\ Head(c) = c[1]
  BY Reading
<1>2. /\ lo = 0
      /\ from < to
      /\ Head(c).offset = from
  BY <1>1 DEF Flow
<1>3. /\ Len(Tail(c)) = Len(c) - 1
      /\ \A i \in 1..Len(Tail(c)) : Tail(c)[i] = c[i + 1]
  BY HeadTailProperties
<1>4. Flow(Tail(c), from + 1, to, 0)
  BY <1>1, <1>2, <1>3 DEF Flow
<1> QED
  BY <1>2, <1>4

\* Reading another frame brings the run of chunks nearer.
LEMMA FlowReadOther ==
  ASSUME NEW c \in Seq(Frames), c # <<>>, NEW from \in Nat, NEW to \in Nat, NEW lo \in 0..Len(c),
         Flow(c, from, to, lo), Head(c).kind # "Chunk"
  PROVE  \/ /\ lo > 0
            /\ lo - 1 \in 0..Len(Tail(c))
            /\ Flow(Tail(c), from, to, lo - 1)
         \/ /\ lo = 0
            /\ from = to
            /\ Flow(Tail(c), from, to, 0)
<1>1. /\ Len(c) \in Nat \ {0}
      /\ Head(c) = c[1]
  BY Reading
<1>2. /\ Len(Tail(c)) = Len(c) - 1
      /\ \A i \in 1..Len(Tail(c)) : Tail(c)[i] = c[i + 1]
  BY HeadTailProperties
<1>3. CASE lo > 0
  BY <1>1, <1>2, <1>3 DEF Flow
<1>4. CASE lo = 0
  BY <1>1, <1>2, <1>4 DEF Flow
<1> QED
  BY <1>3, <1>4

\* Another frame sent behind a run of chunks leaves it as it is.
LEMMA FlowSendOther ==
  ASSUME NEW c \in Seq(Frames), NEW f \in Frames, f.kind # "Chunk",
         NEW from \in Nat, NEW to \in Nat, NEW lo \in 0..Len(c), Flow(c, from, to, lo)
  PROVE  /\ Flow(Append(c, f), from, to, lo)
         /\ lo \in 0..Len(Append(c, f))
<1>1. /\ Len(c) \in Nat
      /\ Len(Append(c, f)) = Len(c) + 1
      /\ \A i \in 1..Len(c) : Append(c, f)[i] = c[i]
      /\ Append(c, f)[Len(c) + 1] = f
  BY AppendProperties
<1> QED
  BY <1>1 DEF Flow

\* A channel without chunks has an empty run, wherever one looks for it.
LEMMA FlowEmpty ==
  ASSUME NEW c \in Seq(Frames), NoChunk(c), NEW from \in Nat, NEW lo \in 0..Len(c)
  PROVE  Flow(c, from, from, lo)
BY DEF Flow, NoChunk, Under

\* d is c with the chunks behind it that go on with its run.
Prolongs(d, c, from, lo) ==
  /\ \A i \in 1..Len(c) : d[i] = c[i]
  /\ \A i \in Len(c) + 1..Len(d) : d[i].kind = "Chunk" /\ d[i].offset = from + (i - lo - 1)

\* A burst sent right behind a run that ends the channel goes on with it.
LEMMA FlowSendChunks ==
  ASSUME NEW c, Len(c) \in Nat, NEW d, Len(d) \in Nat,
         NEW from \in Nat, NEW to \in Nat, NEW last \in Nat, NEW lo \in Nat,
         Flow(c, from, to, lo), lo + (to - from) = Len(c),
         to <= last, lo + (last - from) = Len(d),
         Prolongs(d, c, from, lo)
  PROVE  Flow(d, from, last, lo)
<1>1. from <= last /\ lo + (last - from) <= Len(d)
  BY DEF Flow
<1>2. ASSUME NEW i \in 1..Len(d)
      PROVE  IF lo < i
             THEN d[i].kind = "Chunk" /\ d[i].offset = from + (i - lo - 1)
             ELSE d[i].kind # "Chunk"
  <2>1. CASE i \in 1..Len(c)
    <3>1. IF lo < i
          THEN c[i].kind = "Chunk" /\ c[i].offset = from + (i - lo - 1)
          ELSE c[i].kind # "Chunk"
      BY <2>1 DEF Flow
    <3>2. d[i] = c[i]
      BY <2>1 DEF Prolongs
    <3> QED
      BY <3>1, <3>2
  <2>2. CASE i \in Len(c) + 1..Len(d)
    <3>1. lo < i
      BY <2>2 DEF Flow
    <3> QED
      BY <2>2, <3>1 DEF Prolongs
  <2> QED
    BY <2>1, <2>2
<1>3. \A i \in 1..Len(d) : i <= lo + (last - from)
  OBVIOUS
<1> QED
  BY <1>1, <1>2, <1>3 DEF Flow

-----------------------------------------------------------------------------
(* Steps that leave the channels alone.                                    *)

USE DEF Ends, Terminal, terminal, Early, toSink, toSource, written, linkVars, progressVars

\* The frames the two ends send are frames.
LEMMA FrameTypes ==
  /\ \A k \in {"Offer", "Accept", "Ack", "Finish", "Complete", "Cancel", "None"}, n \in 0..Size :
       Frame(k, n) \in Frames /\ Frame(k, n).kind = k /\ Frame(k, n).offset = n
  /\ \A n \in 0..Size : TypeOK => Chunk(n) \in Frames
  /\ Nothing \in Frames /\ Nothing.kind = "None"
  /\ 0 \in 0..Size /\ Size \in 0..Size
BY SizeAssumption DEF Frames, Frame, Nothing, Chunk, TypeOK

\* The sink may accept at any time: no chunk is under way before it has.
LEMMA InvAccept ==
  ASSUME Inv, accept
  PROVE  Inv'
<1>1. TypeOK'
  BY FrameTypes DEF Inv, LossesAreHarmless, TypeOK, Phases, accept
<1>2. OrderNeverBreaks' /\ IntegrityBlamesTheFile'
  BY DEF Inv, LossesAreHarmless, TypeOK, OrderNeverBreaks, IntegrityBlamesTheFile, accept
<1>3. AcksAreWritten' /\ SinkWithinSent'
  BY DEF Inv, LossesAreHarmless, TypeOK, AcksAreWritten, SinkWithinSent, accept
<1>4. Links'
  BY DEF Inv, LossesAreHarmless, TypeOK, Links, Stages, accept
<1>5. Stages'
  BY DEF Inv, LossesAreHarmless, TypeOK, Stages, accept
<1>6. Answers'
  BY FrameTypes DEF Inv, LossesAreHarmless, TypeOK, Stages, Answers, Nothing, accept
<1>7. Offers'
  BY DEF Inv, LossesAreHarmless, TypeOK, Stages, Links, Offers, accept
<1>8. InFlow'
  <2>1. NoChunk(toSink) /\ phase["source"] # "Sending"
    BY DEF Inv, Offers, Stages, accept
  <2>2. /\ toSink \in Seq(Frames) /\ written \in 0..Size /\ written \in Nat
        /\ 0 \in 0..Len(toSink)
    BY SizeAssumption DEF Inv, LossesAreHarmless, TypeOK
  <2>3. Flow(toSink, written, written, 0)
    BY <2>1, <2>2, FlowEmpty
  <2> QED
    BY <2>1, <2>2, <2>3 DEF InFlow, accept
<1> QED
  BY <1>1, <1>2, <1>3, <1>4, <1>5, <1>6, <1>7, <1>8 DEF Inv, LossesAreHarmless

\* Changing the file excuses what the integrity check finds.
LEMMA InvModify ==
  ASSUME Inv, Modify
  PROVE  Inv'
<1>1. TypeOK'
  BY FrameTypes DEF Inv, LossesAreHarmless, TypeOK, Phases, Modify
<1>2. OrderNeverBreaks' /\ IntegrityBlamesTheFile'
  BY DEF Inv, LossesAreHarmless, TypeOK, OrderNeverBreaks, IntegrityBlamesTheFile, Modify
<1>3. AcksAreWritten' /\ SinkWithinSent'
  BY DEF Inv, LossesAreHarmless, TypeOK, AcksAreWritten, SinkWithinSent, Modify
<1>4. Links'
  BY DEF Inv, LossesAreHarmless, TypeOK, Links, Stages, Modify
<1>5. Stages'
  BY DEF Inv, LossesAreHarmless, TypeOK, Stages, Modify
<1>6. Answers'
  BY FrameTypes DEF Inv, LossesAreHarmless, TypeOK, Stages, Answers, Nothing, Modify
<1>7. Offers'
  BY DEF Inv, LossesAreHarmless, TypeOK, Stages, Links, Offers, Modify
<1>8. InFlow'
  BY DEF Inv, LossesAreHarmless, TypeOK, Stages, InFlow, Modify
<1> QED
  BY <1>1, <1>2, <1>3, <1>4, <1>5, <1>6, <1>7, <1>8 DEF Inv, LossesAreHarmless

\* The hashing ends, well or not.
LEMMA InvHash ==
  ASSUME Inv, Hash
  PROVE  Inv'
<1>1. TypeOK'
  BY FrameTypes DEF Inv, LossesAreHarmless, TypeOK, Phases, Hash, fail
<1>2. OrderNeverBreaks' /\ IntegrityBlamesTheFile'
  BY DEF Inv, LossesAreHarmless, TypeOK, OrderNeverBreaks, IntegrityBlamesTheFile, Hash, fail
<1>3. AcksAreWritten' /\ SinkWithinSent'
  BY DEF Inv, LossesAreHarmless, TypeOK, AcksAreWritten, SinkWithinSent, Hash, fail
<1>4. Links'
  BY DEF Inv, LossesAreHarmless, TypeOK, Links, Stages, Hash, fail
<1>5. Stages'
  BY DEF Inv, LossesAreHarmless, TypeOK, Stages, Hash, fail
<1>6. Answers'
  BY FrameTypes DEF Inv, LossesAreHarmless, TypeOK, Stages, Answers, Nothing, Hash, fail
<1>7. Offers'
  BY DEF Inv, LossesAreHarmless, TypeOK, Stages, Links, Offers, Hash, fail
<1>8. InFlow'
  BY DEF Inv, LossesAreHarmless, TypeOK, Stages, InFlow, Hash, fail
<1> QED
  BY <1>1, <1>2, <1>3, <1>4, <1>5, <1>6, <1>7, <1>8 DEF Inv, LossesAreHarmless

\* A source that can no longer read the file gives up.
LEMMA InvReadFails ==
  ASSUME Inv, ReadFails
  PROVE  Inv'
<1>1. TypeOK'
  BY FrameTypes DEF Inv, LossesAreHarmless, TypeOK, Phases, ReadFails, fail
<1>2. OrderNeverBreaks' /\ IntegrityBlamesTheFile'
  BY DEF Inv, LossesAreHarmless, TypeOK, OrderNeverBreaks, IntegrityBlamesTheFile, ReadFails, fail
<1>3. AcksAreWritten' /\ SinkWithinSent'
  BY DEF Inv, LossesAreHarmless, TypeOK, AcksAreWritten, SinkWithinSent, ReadFails, fail
<1>4. Links'
  BY DEF Inv, LossesAreHarmless, TypeOK, Links, Stages, ReadFails, fail
<1>5. Stages'
  BY DEF Inv, LossesAreHarmless, TypeOK, Stages, ReadFails, fail
<1>6. Answers'
  BY FrameTypes DEF Inv, LossesAreHarmless, TypeOK, Stages, Answers, Nothing, ReadFails, fail
<1>7. Offers'
  BY DEF Inv, LossesAreHarmless, TypeOK, Stages, Links, Offers, ReadFails, fail
<1>8. InFlow'
  BY DEF Inv, LossesAreHarmless, TypeOK, Stages, InFlow, ReadFails, fail
<1> QED
  BY <1>1, <1>2, <1>3, <1>4, <1>5, <1>6, <1>7, <1>8 DEF Inv, LossesAreHarmless

\* Either user cancels.
LEMMA InvCancel ==
  ASSUME Inv, NEW e \in Ends, cancel(e)
  PROVE  Inv'
<1>1. TypeOK'
  BY FrameTypes DEF Inv, LossesAreHarmless, TypeOK, Phases, cancel, Active
<1>2. OrderNeverBreaks' /\ IntegrityBlamesTheFile'
  BY DEF Inv, LossesAreHarmless, TypeOK, OrderNeverBreaks, IntegrityBlamesTheFile, cancel, Active
<1>3. AcksAreWritten' /\ SinkWithinSent'
  BY DEF Inv, LossesAreHarmless, TypeOK, AcksAreWritten, SinkWithinSent, cancel, Active
<1>4. Links'
  BY DEF Inv, LossesAreHarmless, TypeOK, Links, Stages, cancel, Active
<1>5. Stages'
  BY DEF Inv, LossesAreHarmless, TypeOK, Stages, cancel, Active
<1>6. Answers'
  BY FrameTypes DEF Inv, LossesAreHarmless, TypeOK, Stages, Answers, Nothing, cancel, Active
<1>7. Offers'
  BY DEF Inv, LossesAreHarmless, TypeOK, Stages, Links, Offers, cancel, Active
<1>8. InFlow'
  BY DEF Inv, LossesAreHarmless, TypeOK, Stages, InFlow, cancel, Active
<1> QED
  BY <1>1, <1>2, <1>3, <1>4, <1>5, <1>6, <1>7, <1>8 DEF Inv, LossesAreHarmless

\* Either user dismisses a transfer that has ended.
LEMMA InvDismiss ==
  ASSUME Inv, NEW e \in Ends, dismiss(e)
  PROVE  Inv'
<1>1. TypeOK'
  BY FrameTypes DEF Inv, LossesAreHarmless, TypeOK, Phases, dismiss, LastWord
<1>2. OrderNeverBreaks' /\ IntegrityBlamesTheFile'
  BY DEF Inv, LossesAreHarmless, TypeOK, OrderNeverBreaks, IntegrityBlamesTheFile, dismiss,
    LastWord
<1>3. AcksAreWritten' /\ SinkWithinSent'
  BY DEF Inv, LossesAreHarmless, TypeOK, AcksAreWritten, SinkWithinSent, dismiss, LastWord
<1>4. Links'
  BY DEF Inv, LossesAreHarmless, TypeOK, Links, Stages, dismiss, LastWord
<1>5. Stages'
  BY DEF Inv, LossesAreHarmless, TypeOK, Stages, dismiss, LastWord
<1>6. Answers'
  BY FrameTypes DEF Inv, LossesAreHarmless, TypeOK, Stages, Answers, Nothing, dismiss, LastWord
<1>7. Offers'
  BY DEF Inv, LossesAreHarmless, TypeOK, Stages, Links, Offers, dismiss, LastWord
<1>8. InFlow'
  BY DEF Inv, LossesAreHarmless, TypeOK, Stages, InFlow, dismiss, LastWord
<1> QED
  BY <1>1, <1>2, <1>3, <1>4, <1>5, <1>6, <1>7, <1>8 DEF Inv, LossesAreHarmless

\* The peer leaves the conversation.
LEMMA InvRemovePeer ==
  ASSUME Inv, NEW e \in Ends, removePeer(e)
  PROVE  Inv'
<1>1. TypeOK'
  BY SizeAssumption, FrameTypes DEF Inv, LossesAreHarmless, TypeOK, Phases, removePeer, Loss,
    Active
<1>2. OrderNeverBreaks' /\ IntegrityBlamesTheFile'
  BY DEF Inv, LossesAreHarmless, TypeOK, OrderNeverBreaks, IntegrityBlamesTheFile, removePeer,
    Loss, Active
<1>3. AcksAreWritten' /\ SinkWithinSent'
  BY DEF Inv, LossesAreHarmless, TypeOK, AcksAreWritten, SinkWithinSent, removePeer, Loss, Active
<1>4. Links'
  BY DEF Inv, LossesAreHarmless, TypeOK, Links, Stages, removePeer, Loss, Active
<1>5. Stages'
  BY DEF Inv, LossesAreHarmless, TypeOK, Stages, removePeer, Loss, Active
<1>6. Answers'
  BY FrameTypes DEF Inv, LossesAreHarmless, TypeOK, Stages, Answers, Nothing, removePeer, Loss,
    Active
<1>7. Offers'
  BY DEF Inv, LossesAreHarmless, TypeOK, Stages, Links, Offers, removePeer, Loss, Active
<1>8. InFlow'
  BY DEF Inv, LossesAreHarmless, TypeOK, Stages, InFlow, removePeer, Loss, Active
<1> QED
  BY <1>1, <1>2, <1>3, <1>4, <1>5, <1>6, <1>7, <1>8 DEF Inv, LossesAreHarmless

\* A link opens at one end.
LEMMA InvOpened ==
  ASSUME Inv, NEW e \in Ends, LinkOpened(e)
  PROVE  Inv'
<1>1. TypeOK'
  <2>1. phase[e] \in Phases /\ Reoffered(e) \in Phases
    BY DEF Inv, LossesAreHarmless, TypeOK, Phases, Reoffered
  <2>2. connected' \in [Ends -> BOOLEAN] /\ phase' \in [Ends -> Phases]
    BY <2>1, ZenonT(30) DEF Inv, LossesAreHarmless, TypeOK, LinkOpened, setPeerConnected
  <2>3. link' \in [Ends -> {"none", "opening", "open"}]
    BY DEF Inv, LossesAreHarmless, TypeOK, LinkOpened
  <2> QED
    BY <2>2, <2>3 DEF Inv, LossesAreHarmless, TypeOK, LinkOpened
<1>2. OrderNeverBreaks' /\ IntegrityBlamesTheFile'
  BY DEF Inv, LossesAreHarmless, TypeOK, OrderNeverBreaks, IntegrityBlamesTheFile, LinkOpened,
    setPeerConnected, Reoffered
<1>3. AcksAreWritten' /\ SinkWithinSent'
  BY DEF Inv, LossesAreHarmless, TypeOK, AcksAreWritten, SinkWithinSent, LinkOpened,
    setPeerConnected, Reoffered
<1>4. Links'
  BY DEF Inv, LossesAreHarmless, TypeOK, Links, Stages, LinkOpened, setPeerConnected, Reoffered
<1>5. Stages'
  BY DEF Inv, LossesAreHarmless, TypeOK, Stages, LinkOpened, setPeerConnected, Reoffered
<1>6. Answers'
  BY FrameTypes DEF Inv, LossesAreHarmless, TypeOK, Stages, Answers, Nothing, LinkOpened,
    setPeerConnected, Reoffered
<1>7. Offers'
  BY DEF Inv, LossesAreHarmless, TypeOK, Stages, Links, Offers, LinkOpened, setPeerConnected,
    Reoffered
<1>8. InFlow'
  BY DEF Inv, LossesAreHarmless, TypeOK, Stages, InFlow, LinkOpened, setPeerConnected, Reoffered
<1> QED
  BY <1>1, <1>2, <1>3, <1>4, <1>5, <1>6, <1>7, <1>8 DEF Inv, LossesAreHarmless

\* An end is without its link: the source offers the file again.
LEMMA InvRemoved ==
  ASSUME Inv, NEW e \in Ends, LinkRemoved(e), losses' \in 0..MaxLosses
  PROVE  Inv'
<1>1. TypeOK'
  <2>1. phase[e] \in Phases /\ Reoffered(e) \in Phases
    BY DEF Inv, LossesAreHarmless, TypeOK, Phases, Reoffered
  <2>2. connected' \in [Ends -> BOOLEAN] /\ phase' \in [Ends -> Phases]
    BY <2>1, ZenonT(30) DEF Inv, LossesAreHarmless, TypeOK, LinkRemoved, setPeerConnected
  <2>3. link' \in [Ends -> {"none", "opening", "open"}]
    BY DEF Inv, LossesAreHarmless, TypeOK, LinkRemoved
  <2> QED
    BY <2>2, <2>3 DEF Inv, LossesAreHarmless, TypeOK, LinkRemoved
<1>2. OrderNeverBreaks' /\ IntegrityBlamesTheFile'
  BY DEF Inv, LossesAreHarmless, TypeOK, OrderNeverBreaks, IntegrityBlamesTheFile, LinkRemoved,
    setPeerConnected, Reoffered
<1>3. AcksAreWritten' /\ SinkWithinSent'
  BY DEF Inv, LossesAreHarmless, TypeOK, AcksAreWritten, SinkWithinSent, LinkRemoved,
    setPeerConnected, Reoffered
<1>4. Links'
  BY DEF Inv, LossesAreHarmless, TypeOK, Links, Stages, LinkRemoved, setPeerConnected, Reoffered
<1>5. Stages'
  BY DEF Inv, LossesAreHarmless, TypeOK, Stages, LinkRemoved, setPeerConnected, Reoffered
<1>6. Answers'
  BY FrameTypes DEF Inv, LossesAreHarmless, TypeOK, Stages, Answers, Nothing, LinkRemoved,
    setPeerConnected, Reoffered
<1>7. Offers'
  BY DEF Inv, LossesAreHarmless, TypeOK, Stages, Links, Offers, LinkRemoved, setPeerConnected,
    Reoffered
<1>8. InFlow'
  BY DEF Inv, LossesAreHarmless, TypeOK, Stages, InFlow, LinkRemoved, setPeerConnected, Reoffered
<1> QED
  BY <1>1, <1>2, <1>3, <1>4, <1>5, <1>6, <1>7, <1>8 DEF Inv, LossesAreHarmless

-----------------------------------------------------------------------------
(* Steps that send.                                                        *)

\* What sending a frame does to the two channels.
LEMMA SourceSends ==
  ASSUME Inv, NEW f \in Frames, Send("source", f)
  PROVE  /\ chan' \in [Ends -> Seq(Frames)]
         /\ toSource' = toSource
         /\ toSink' = Append(toSink, f)
         /\ Under(toSink') \subseteq Under(toSink) \cup {f}
<1>1. toSink \in Seq(Frames)
  BY DEF Inv, LossesAreHarmless, TypeOK
<1>2. /\ toSource' = toSource
      /\ toSink' = Append(toSink, f)
      /\ chan' = [chan EXCEPT !["source"] = Append(toSink, f)]
  BY DEF Inv, LossesAreHarmless, TypeOK, Send
<1>3. /\ Append(toSink, f) \in Seq(Frames)
      /\ Under(Append(toSink, f)) \subseteq Under(toSink) \cup {f}
  BY <1>1, Sending
<1> QED
  BY <1>2, <1>3 DEF Inv, LossesAreHarmless, TypeOK

\* The same at the sink.
LEMMA SinkSends ==
  ASSUME Inv, NEW f \in Frames, Send("sink", f)
  PROVE  /\ chan' \in [Ends -> Seq(Frames)]
         /\ toSink' = toSink
         /\ Under(toSource') \subseteq Under(toSource) \cup {f}
<1>1. toSource \in Seq(Frames)
  BY DEF Inv, LossesAreHarmless, TypeOK
<1>2. /\ toSink' = toSink
      /\ toSource' = Append(toSource, f)
      /\ chan' = [chan EXCEPT !["sink"] = Append(toSource, f)]
  BY DEF Inv, LossesAreHarmless, TypeOK, Send
<1>3. /\ Append(toSource, f) \in Seq(Frames)
      /\ Under(Append(toSource, f)) \subseteq Under(toSource) \cup {f}
  BY <1>1, Sending
<1> QED
  BY <1>2, <1>3 DEF Inv, LossesAreHarmless, TypeOK

\* A frame that is not a chunk does not break the run of chunks, as the source
\* sends one only when it has sent its last chunk, or sends none.
LEMMA FlowGoesOn ==
  ASSUME Inv, NEW f \in Frames, f.kind # "Chunk", Send("source", f),
         position' = position, sent' = sent,
         phase'["sink"] = phase["sink"] \/ phase'["sink"] # "Receiving",
         phase'["source"] = "Sending" => phase["source"] = "Sending" /\ sent = Size
  PROVE  InFlow'
<1> SUFFICES ASSUME phase["sink"] = "Receiving", phase'["sink"] = "Receiving"
             PROVE  InFlow'
  BY DEF InFlow
<1>1. PICK lo \in 0..Len(toSink), to \in 0..Size :
        /\ Flow(toSink, written, to, lo)
        /\ phase["source"] = "Sending" => to = sent
  BY DEF Inv, InFlow
<1>2. toSink \in Seq(Frames) /\ written \in Nat /\ to \in Nat
  BY SizeAssumption DEF Inv, LossesAreHarmless, TypeOK
<1>3. /\ Flow(Append(toSink, f), written, to, lo)
      /\ lo \in 0..Len(Append(toSink, f))
  BY <1>1, <1>2, FlowSendOther
<1>4. toSink' = Append(toSink, f) /\ written' = written
  BY SourceSends
<1>5. phase'["source"] = "Sending" => to = sent' /\ ~(sent' < Size)
  BY <1>1, SizeAssumption
<1> QED
  BY <1>1, <1>3, <1>4, <1>5 DEF InFlow

\* The source tells the sink that it has stopped.
LEMMA InvSourceReply ==
  ASSUME Inv, SendReply("source")
  PROVE  Inv'
<1>a. /\ reply["source"] = Frame("Cancel", 0)
      /\ phase["source"] \in {"Cancelled", "Failed"}
      /\ link["source"] = "open"
      /\ Send("source", Frame("Cancel", 0))
      /\ Frame("Cancel", 0) \in Frames /\ Frame("Cancel", 0).kind = "Cancel"
  BY FrameTypes DEF Inv, Answers, SendReply, CanSend
<1>b. /\ chan' \in [Ends -> Seq(Frames)]
      /\ toSource' = toSource
      /\ Under(toSink') \subseteq Under(toSink) \cup {Frame("Cancel", 0)}
  BY <1>a, SourceSends
<1>1. TypeOK'
  BY <1>a, <1>b, FrameTypes DEF Inv, LossesAreHarmless, TypeOK, Phases, NoChunk, SendReply
<1>2. OrderNeverBreaks' /\ IntegrityBlamesTheFile'
  BY <1>a, <1>b, FrameTypes DEF Inv, LossesAreHarmless, TypeOK, OrderNeverBreaks,
    IntegrityBlamesTheFile, NoChunk, SendReply
<1>3. AcksAreWritten' /\ SinkWithinSent'
  BY <1>a, <1>b, FrameTypes DEF Inv, LossesAreHarmless, TypeOK, AcksAreWritten, SinkWithinSent,
    NoChunk, SendReply
<1>4. Links'
  BY <1>a, <1>b, FrameTypes DEF Inv, LossesAreHarmless, TypeOK, Links, Stages, NoChunk, SendReply
<1>5. Stages'
  BY <1>a, <1>b, FrameTypes DEF Inv, LossesAreHarmless, TypeOK, Stages, NoChunk, SendReply
<1>6. Answers'
  BY <1>a, <1>b, FrameTypes DEF Inv, LossesAreHarmless, TypeOK, Stages, Answers, Nothing,
    NoChunk, SendReply
<1>7. Offers'
  BY <1>a, <1>b, FrameTypes DEF Inv, LossesAreHarmless, TypeOK, Stages, Links, Offers, NoChunk,
    SendReply
<1>8. InFlow'
  BY <1>a, FlowGoesOn DEF SendReply
<1> QED
  BY <1>1, <1>2, <1>3, <1>4, <1>5, <1>6, <1>7, <1>8 DEF Inv, LossesAreHarmless

\* The sink sends its reply, which is true at that time.
LEMMA InvSinkReply ==
  ASSUME Inv, SendReply("sink")
  PROVE  Inv'
<1>a. /\ link["sink"] = "open"
      /\ reply["sink"] \in Frames /\ reply["sink"].kind # "None"
      /\ Send("sink", reply["sink"])
  BY DEF Inv, LossesAreHarmless, TypeOK, Answers, SendReply, CanSend
<1>b. /\ chan' \in [Ends -> Seq(Frames)]
      /\ toSink' = toSink
      /\ Under(toSource') \subseteq Under(toSource) \cup {reply["sink"]}
  BY <1>a, SinkSends
<1>1. TypeOK'
  BY <1>a, <1>b, FrameTypes DEF Inv, LossesAreHarmless, TypeOK, Phases, NoChunk, SendReply
<1>2. OrderNeverBreaks' /\ IntegrityBlamesTheFile'
  BY <1>a, <1>b, FrameTypes DEF Inv, LossesAreHarmless, TypeOK, OrderNeverBreaks,
    IntegrityBlamesTheFile, NoChunk, SendReply
<1>3. AcksAreWritten' /\ SinkWithinSent'
  BY <1>a, <1>b, FrameTypes DEF Inv, LossesAreHarmless, TypeOK, AcksAreWritten, SinkWithinSent,
    NoChunk, SendReply
<1>4. Links'
  BY <1>a, <1>b, FrameTypes DEF Inv, LossesAreHarmless, TypeOK, Links, Stages, NoChunk, SendReply
<1>5. Stages'
  BY <1>a, <1>b, FrameTypes DEF Inv, LossesAreHarmless, TypeOK, Stages, NoChunk, SendReply
<1>6. Answers'
  BY <1>a, <1>b, FrameTypes DEF Inv, LossesAreHarmless, TypeOK, Stages, Answers, Nothing,
    NoChunk, SendReply
<1>7. Offers'
  BY <1>a, <1>b, FrameTypes DEF Inv, LossesAreHarmless, TypeOK, Stages, Answers, Links, Offers,
    NoChunk, SendReply
<1>8. InFlow'
  BY <1>a, <1>b, FrameTypes DEF Inv, LossesAreHarmless, TypeOK, Stages, InFlow, NoChunk, SendReply
<1> QED
  BY <1>1, <1>2, <1>3, <1>4, <1>5, <1>6, <1>7, <1>8 DEF Inv, LossesAreHarmless

\* The source offers the file.
LEMMA InvSendOffer ==
  ASSUME Inv, SendOffer
  PROVE  Inv'
<1>a. /\ link["source"] = "open"
      /\ Send("source", Frame("Offer", Size))
      /\ Frame("Offer", Size) \in Frames /\ Frame("Offer", Size).kind = "Offer"
  BY FrameTypes DEF SendOffer, CanSend
<1>b. /\ chan' \in [Ends -> Seq(Frames)]
      /\ toSource' = toSource
      /\ Under(toSink') \subseteq Under(toSink) \cup {Frame("Offer", Size)}
  BY <1>a, SourceSends
<1>1. TypeOK'
  BY <1>a, <1>b DEF Inv, LossesAreHarmless, TypeOK, Phases, NoChunk, SendOffer, CanSend
<1>2. OrderNeverBreaks' /\ IntegrityBlamesTheFile'
  BY <1>a, <1>b DEF Inv, LossesAreHarmless, TypeOK, OrderNeverBreaks, IntegrityBlamesTheFile,
    NoChunk, SendOffer, CanSend
<1>3. AcksAreWritten' /\ SinkWithinSent'
  BY <1>a, <1>b DEF Inv, LossesAreHarmless, TypeOK, AcksAreWritten, SinkWithinSent, NoChunk,
    SendOffer, CanSend
<1>4. Links'
  BY <1>a, <1>b DEF Inv, LossesAreHarmless, TypeOK, Links, Stages, NoChunk, SendOffer, CanSend
<1>5. Stages'
  BY <1>a, <1>b DEF Inv, LossesAreHarmless, TypeOK, Stages, NoChunk, SendOffer, CanSend
<1>6. Answers'
  BY <1>a, <1>b DEF Inv, LossesAreHarmless, TypeOK, Stages, Answers, Nothing, NoChunk,
    SendOffer, CanSend
<1>7. Offers'
  BY <1>a, <1>b DEF Inv, LossesAreHarmless, TypeOK, Stages, Links, Offers, NoChunk, SendOffer,
    CanSend
<1>8. InFlow'
  BY <1>a, FlowGoesOn DEF SendOffer
<1> QED
  BY <1>1, <1>2, <1>3, <1>4, <1>5, <1>6, <1>7, <1>8 DEF Inv, LossesAreHarmless

\* The source says that the file is complete, once it has been acknowledged.
LEMMA InvSendFinish ==
  ASSUME Inv, SendFinish
  PROVE  Inv'
<1>a. /\ link["source"] = "open"
      /\ Send("source", Frame("Finish", 0))
      /\ Frame("Finish", 0) \in Frames /\ Frame("Finish", 0).kind = "Finish"
  BY FrameTypes DEF SendFinish, CanSend
<1>b. /\ chan' \in [Ends -> Seq(Frames)]
      /\ toSource' = toSource
      /\ Under(toSink') \subseteq Under(toSink) \cup {Frame("Finish", 0)}
  BY <1>a, SourceSends
<1>c. written = Size /\ sent = Size
  BY SizeAssumption DEF Inv, LossesAreHarmless, TypeOK, AcksAreWritten, SinkWithinSent, SendFinish
<1>1. TypeOK'
  BY <1>a, <1>b, <1>c DEF Inv, LossesAreHarmless, TypeOK, Phases, NoChunk, SendFinish, CanSend
<1>2. OrderNeverBreaks' /\ IntegrityBlamesTheFile'
  BY <1>a, <1>b, <1>c DEF Inv, LossesAreHarmless, TypeOK, OrderNeverBreaks,
    IntegrityBlamesTheFile, NoChunk, SendFinish, CanSend
<1>3. AcksAreWritten' /\ SinkWithinSent'
  BY <1>a, <1>b, <1>c DEF Inv, LossesAreHarmless, TypeOK, AcksAreWritten, SinkWithinSent,
    NoChunk, SendFinish, CanSend
<1>4. Links'
  BY <1>a, <1>b, <1>c DEF Inv, LossesAreHarmless, TypeOK, Links, Stages, NoChunk, SendFinish,
    CanSend
<1>5. Stages'
  BY <1>a, <1>b, <1>c DEF Inv, LossesAreHarmless, TypeOK, Stages, NoChunk, SendFinish, CanSend
<1>6. Answers'
  BY <1>a, <1>b, <1>c DEF Inv, LossesAreHarmless, TypeOK, Stages, Answers, Nothing, NoChunk,
    SendFinish, CanSend
<1>7. Offers'
  BY <1>a, <1>b, <1>c DEF Inv, LossesAreHarmless, TypeOK, Stages, Links, Offers, NoChunk,
    SendFinish, CanSend
<1>8. InFlow'
  BY <1>a, <1>c, FlowGoesOn DEF SendFinish
<1> QED
  BY <1>1, <1>2, <1>3, <1>4, <1>5, <1>6, <1>7, <1>8 DEF Inv, LossesAreHarmless

\* The frames of a burst are the next chunks of the file.
LEMMA BurstFrames ==
  ASSUME Inv, Burst > 0, phase["source"] = "Sending"
  PROVE  /\ Burst \in Nat /\ sent + Burst <= Size
         /\ [i \in 1..Burst |-> Chunk(sent + i - 1)] \in Seq(Frames)
         /\ Len([i \in 1..Burst |-> Chunk(sent + i - 1)]) = Burst
<1>1. /\ toSink \in Seq(Frames)
      /\ sent \in 0..Size /\ position["source"] \in 0..Size /\ Size \in Nat
      /\ Window \in Nat /\ Budget \in Nat /\ Capacity \in Nat
  BY SizeAssumption DEF Inv, LossesAreHarmless, TypeOK
<1>2. Len(toSink) \in Nat
  BY <1>1
<1>3. Burst \in Int /\ Burst <= Size - sent
  BY <1>1, <1>2 DEF Burst, Least
<1>4. Burst \in Nat /\ sent + Burst <= Size
  BY <1>1, <1>3
<1>5. \A i \in 1..Burst : Chunk(sent + i - 1) \in Frames
  BY <1>1, <1>4, FrameTypes DEF Inv, LossesAreHarmless
<1>6. [i \in 1..Burst |-> Chunk(sent + i - 1)] \in [1..Burst -> Frames]
  BY <1>5
<1>7. [i \in 1..Burst |-> Chunk(sent + i - 1)] \in Seq(Frames)
  BY <1>4, <1>6, SeqDef
<1>8. Len([i \in 1..Burst |-> Chunk(sent + i - 1)]) = Burst
  BY <1>4
<1> QED
  BY <1>4, <1>7, <1>8

\* The source sends chunks, and the run of chunks goes on.
LEMMA InvSendChunks ==
  ASSUME Inv, SendChunks
  PROVE  Inv'
<1> DEFINE b == [i \in 1..Burst |-> Chunk(sent + i - 1)]
           n == Burst
<1>a. /\ link["source"] = "open" /\ phase["source"] = "Sending"
      /\ toSink \in Seq(Frames)
      /\ sent \in 0..Size /\ written \in 0..Size /\ Size \in Nat
  BY SizeAssumption DEF Inv, LossesAreHarmless, TypeOK, SendChunks, CanSend
<1>b. /\ n \in Nat /\ n > 0 /\ sent + n <= Size
      /\ b \in Seq(Frames)
      /\ Len(b) = n
  BY <1>a, BurstFrames DEF SendChunks
<1>c. \A i \in 1..n :
        b[i].kind = "Chunk" /\ b[i].offset = sent + i - 1 /\ b[i].good = ~modified
  BY DEF Chunk
<1>d. /\ chan' = [chan EXCEPT !["source"] = toSink \o b]
      /\ sent' = sent + n
      /\ UNCHANGED <<link, losses, connected, phase, error, reply, dismissed, position, intact, modified>>
  BY DEF SendChunks
<1> HIDE DEF b, n
<1>e. toSink \o b \in Seq(Frames)
  BY <1>a, <1>b, ConcatProperties
<1>f. /\ chan' \in [Ends -> Seq(Frames)]
      /\ toSource' = toSource
      /\ toSink' = toSink \o b
  BY <1>d, <1>e DEF Inv, LossesAreHarmless, TypeOK
<1>g. /\ Len(toSink') = Len(toSink) + n
      /\ \A i \in 1..Len(toSink) : toSink'[i] = toSink[i]
      /\ \A i \in Len(toSink) + 1..Len(toSink) + n :
           /\ toSink'[i].kind = "Chunk" /\ toSink'[i].good = ~modified
           /\ toSink'[i].offset = sent + (i - Len(toSink)) - 1
  <2>0. /\ Len(toSink \o b) = Len(toSink) + Len(b)
        /\ \A i \in 1..Len(toSink) + Len(b) :
             (toSink \o b)[i] = IF i <= Len(toSink) THEN toSink[i] ELSE b[i - Len(toSink)]
    BY <1>a, <1>b, ConcatProperties, Zenon
  <2>1. /\ Len(toSink') = Len(toSink) + n
        /\ \A i \in 1..Len(toSink) + n :
             toSink'[i] = IF i <= Len(toSink) THEN toSink[i] ELSE b[i - Len(toSink)]
    BY <1>b, <1>f, <2>0, Zenon
  <2>2. Len(toSink) \in Nat
    BY <1>a
  <2>3. \A i \in 1..Len(toSink) : toSink'[i] = toSink[i]
    BY <1>b, <2>1, <2>2
  <2>4. ASSUME NEW i \in Len(toSink) + 1..Len(toSink) + n
        PROVE  /\ toSink'[i].kind = "Chunk" /\ toSink'[i].good = ~modified
               /\ toSink'[i].offset = sent + (i - Len(toSink)) - 1
    <3>1. i - Len(toSink) \in 1..n
      BY <1>b, <2>2
    <3>2. toSink'[i] = b[i - Len(toSink)]
      BY <1>b, <2>1, <2>2
    <3> QED
      BY <1>c, <3>1, <3>2
  <2> QED
    BY <2>1, <2>3, <2>4
<1>h. ASSUME NEW f \in Under(toSink')
      PROVE  f \in Under(toSink) \/ (f.kind = "Chunk" /\ f.good = ~modified)
  <2>1. PICK i \in 1..Len(toSink') : f = toSink'[i]
    BY <1>h DEF Under
  <2>2. Len(toSink) \in Nat
    BY <1>a
  <2>3. CASE i \in 1..Len(toSink)
    <3>1. f = toSink[i]
      BY <1>g, <2>1, <2>3
    <3> QED
      BY <2>3, <3>1 DEF Under
  <2>4. CASE i \in Len(toSink) + 1..Len(toSink) + n
    BY <1>g, <2>1, <2>4
  <2> QED
    BY <1>b, <1>g, <2>2, <2>3, <2>4
<1>1. TypeOK'
  BY <1>a, <1>b, <1>d, <1>f, <1>h DEF Inv, LossesAreHarmless, TypeOK, Phases, NoChunk, SendChunks
<1>2. OrderNeverBreaks' /\ IntegrityBlamesTheFile'
  BY <1>a, <1>b, <1>d, <1>f, <1>h DEF Inv, LossesAreHarmless, TypeOK, OrderNeverBreaks,
    IntegrityBlamesTheFile, NoChunk, SendChunks
<1>3. AcksAreWritten' /\ SinkWithinSent'
  BY <1>a, <1>b, <1>d DEF Inv, LossesAreHarmless, TypeOK, AcksAreWritten, SinkWithinSent
<1>4. Links'
  BY <1>a, <1>b, <1>d, <1>f, <1>h DEF Inv, LossesAreHarmless, TypeOK, Links, Stages, NoChunk,
    SendChunks
<1>5. Stages'
  BY <1>a, <1>b, <1>d, <1>f, <1>h DEF Inv, LossesAreHarmless, TypeOK, Stages, NoChunk, SendChunks
<1>6. Answers'
  BY <1>a, <1>b, <1>d, <1>f, <1>h DEF Inv, LossesAreHarmless, TypeOK, Stages, Answers, Nothing,
    NoChunk, SendChunks
<1>7. Offers'
  BY <1>a, <1>b, <1>d, <1>f, <1>h DEF Inv, LossesAreHarmless, TypeOK, Stages, Links, Offers,
    NoChunk, SendChunks
<1>8. InFlow'
  <2> SUFFICES ASSUME phase["sink"] = "Receiving"
               PROVE  InFlow'
    BY <1>d DEF InFlow
  <2>1. PICK lo \in 0..Len(toSink) :
          /\ Flow(toSink, written, sent, lo)
          /\ sent < Size => lo + (sent - written) = Len(toSink)
    BY <1>a DEF Inv, InFlow
  <2>2. /\ Len(toSink) \in Nat /\ Len(toSink') \in Nat
        /\ lo \in Nat /\ written \in Nat /\ sent \in Nat /\ n \in Nat
        /\ Len(toSink') = Len(toSink) + n /\ sent' = sent + n
    BY <1>a, <1>b, <1>d, <1>g
  <2>a. lo + (sent - written) = Len(toSink)
    BY <1>a, <1>b, <2>1
  <2>b. lo + (sent' - written) = Len(toSink')
    BY <2>2, <2>a
  <2>c. sent' \in Nat /\ sent <= sent' /\ sent' \in 0..Size
    BY <1>a, <1>b, <2>2
  <2>3. Prolongs(toSink', toSink, written, lo)
    <3>1. \A i \in Int : sent + (i - Len(toSink)) - 1 = written + (i - lo - 1)
      <4>1. PICK m \in Int, s \in Int, w \in Int : m = Len(toSink) /\ s = sent /\ w = written
        BY <2>2
      <4>2. lo + (s - w) = m
        BY <2>a, <4>1
      <4>3. \A i \in Int : s + (i - m) - 1 = w + (i - lo - 1)
        BY <4>2
      <4> QED
        BY <4>1, <4>3
    <3>2. \A i \in Len(toSink) + 1..Len(toSink') : i \in Int
      BY <2>2
    <3> QED
      BY <1>g, <2>2, <3>1, <3>2 DEF Prolongs
  <2>4. Flow(toSink', written, sent', lo)
    BY <2>1, <2>2, <2>a, <2>b, <2>c, <2>3, FlowSendChunks
  <2>5. lo \in 0..Len(toSink')
    BY <2>2, <2>a, <2>b, <2>c
  <2> QED
    BY <1>d, <2>b, <2>c, <2>4, <2>5 DEF InFlow
<1> QED
  BY <1>1, <1>2, <1>3, <1>4, <1>5, <1>6, <1>7, <1>8 DEF Inv, LossesAreHarmless

\* The user leaves the conversation, and the peer may be told.
LEMMA InvClear ==
  ASSUME Inv, NEW e \in Ends, clear(e)
  PROVE  Inv'
<1>a. /\ Frame("Cancel", 0) \in Frames /\ Frame("Cancel", 0).kind = "Cancel"
  BY FrameTypes
<1>c. \/ chan' = chan
      \/ link[e] = "open" /\ Send(e, Frame("Cancel", 0))
  BY DEF clear, CanSend
<1>b. /\ chan' \in [Ends -> Seq(Frames)]
      /\ Under(toSource') \subseteq Under(toSource) \cup {Frame("Cancel", 0)}
      /\ Under(toSink') \subseteq Under(toSink) \cup {Frame("Cancel", 0)}
      /\ toSource' = toSource \/ link["sink"] = "open"
      /\ toSink' = toSink \/ link["source"] = "open"
  <2>1. CASE chan' = chan
    BY <2>1 DEF Inv, LossesAreHarmless, TypeOK
  <2>2. CASE e = "source" /\ link[e] = "open" /\ Send(e, Frame("Cancel", 0))
    BY <1>a, <2>2, SourceSends
  <2>3. CASE e = "sink" /\ link[e] = "open" /\ Send(e, Frame("Cancel", 0))
    BY <1>a, <2>3, SinkSends
  <2> QED
    BY <1>c, <2>1, <2>2, <2>3
<1>1. TypeOK'
  BY <1>b, FrameTypes, SizeAssumption DEF Inv, LossesAreHarmless, TypeOK, Phases, clear, Loss,
    Active
<1>2. OrderNeverBreaks' /\ IntegrityBlamesTheFile'
  BY <1>a, <1>b DEF Inv, LossesAreHarmless, TypeOK, OrderNeverBreaks, IntegrityBlamesTheFile,
    NoChunk, clear, Loss, Active
<1>3. AcksAreWritten' /\ SinkWithinSent'
  BY <1>a, <1>b DEF Inv, LossesAreHarmless, TypeOK, AcksAreWritten, SinkWithinSent, NoChunk,
    clear, Loss, Active
<1>4. Links'
  BY <1>a, <1>b DEF Inv, LossesAreHarmless, TypeOK, Links, Stages, NoChunk, clear, Loss, Active
<1>5. Stages'
  BY <1>a, <1>b DEF Inv, LossesAreHarmless, TypeOK, Stages, NoChunk, clear, Loss, Active
<1>6. Answers'
  BY <1>a, <1>b, FrameTypes DEF Inv, LossesAreHarmless, TypeOK, Stages, Answers, clear, Active
<1>7. Offers'
  BY <1>a, <1>b DEF Inv, LossesAreHarmless, TypeOK, Stages, Links, Offers, NoChunk, clear,
    Loss, Active
<1>8. InFlow'
  <2>1. CASE toSink' = toSink
    BY <2>1 DEF Inv, InFlow, clear
  <2>2. CASE e = "source" /\ Send(e, Frame("Cancel", 0))
    <3>1. phase'["sink"] = phase["sink"] /\ phase'["source"] # "Sending"
      BY <2>2 DEF Inv, LossesAreHarmless, TypeOK, Stages, clear, Active
    <3> QED
      BY <1>a, <2>2, <3>1, FlowGoesOn DEF clear
  <2>3. CASE e = "sink" /\ Send(e, Frame("Cancel", 0))
    BY <2>1, <2>3 DEF Send
  <2> QED
    BY <1>c, <2>1, <2>2, <2>3
<1> QED
  BY <1>1, <1>2, <1>3, <1>4, <1>5, <1>6, <1>7, <1>8 DEF Inv, LossesAreHarmless

-----------------------------------------------------------------------------
(* Steps of the source that read.                                          *)

\* What the receive of an end starts with.
Reads(e) ==
  /\ link[e] = "open"
  /\ chan[Other(e)] # <<>>
  /\ UNCHANGED <<link, losses, connected, dismissed>>

\* What reading a frame does to the two channels.
LEMMA SourceReads ==
  ASSUME Inv, toSource # <<>>, Read("source")
  PROVE  /\ chan' \in [Ends -> Seq(Frames)]
         /\ toSink' = toSink
         /\ Under(toSource') \subseteq Under(toSource)
         /\ Incoming("source") \in Under(toSource)
         /\ Incoming("source") \in Frames
         /\ toSource' = <<>> \/ link["sink"] # "opening"
<1>1. toSource \in Seq(Frames)
  BY DEF Inv, LossesAreHarmless, TypeOK
<1>2. /\ toSink' = toSink
      /\ toSource' = Tail(toSource)
      /\ chan' = [chan EXCEPT !["sink"] = Tail(toSource)]
      /\ Incoming("source") = Head(toSource)
  BY DEF Inv, LossesAreHarmless, TypeOK, Read, Incoming, Other
<1>3. /\ Tail(toSource) \in Seq(Frames)
      /\ Under(Tail(toSource)) \subseteq Under(toSource)
      /\ Head(toSource) \in Under(toSource)
      /\ Head(toSource) \in Frames
  BY <1>1, Reading
<1>4. link["sink"] # "opening"
  BY DEF Inv, Links
<1> QED
  BY <1>2, <1>3, <1>4 DEF Inv, LossesAreHarmless, TypeOK

\* A source that has been dismissed reads on.
LEMMA InvSourceRetired ==
  ASSUME Inv, Reads("source"), dismissed["source"], ReceiveRetired("source")
  PROVE  Inv'
<1>b. Read("source")
  <2>1. toSource # <<>> /\ toSource \in Seq(Frames)
    BY DEF Reads, Other, Inv, LossesAreHarmless, TypeOK
  <2>2. Incoming("source") \in Under(toSource)
    BY <2>1, Reading DEF Incoming, Other
  <2> QED
    BY <2>2 DEF ReceiveRetired, Inv, Answers
<1>a. /\ chan' \in [Ends -> Seq(Frames)]
      /\ toSink' = toSink
      /\ Under(toSource') \subseteq Under(toSource)
      /\ Incoming("source") \in Under(toSource)
      /\ Incoming("source") \in Frames
      /\ link["sink"] # "opening"
  BY <1>b, SourceReads DEF Reads, Other, Inv, Links, ReceiveRetired
<1>1. TypeOK'
  BY <1>a DEF Inv, LossesAreHarmless, TypeOK, Phases, NoChunk, Reads, ReceiveRetired
<1>2. OrderNeverBreaks' /\ IntegrityBlamesTheFile'
  BY <1>a DEF Inv, LossesAreHarmless, TypeOK, OrderNeverBreaks, IntegrityBlamesTheFile,
    NoChunk, Reads, ReceiveRetired
<1>3. AcksAreWritten' /\ SinkWithinSent'
  BY <1>a DEF Inv, LossesAreHarmless, TypeOK, AcksAreWritten, SinkWithinSent, NoChunk, Reads,
    ReceiveRetired
<1>4. Links'
  BY <1>a DEF Inv, LossesAreHarmless, TypeOK, Links, Stages, NoChunk, Reads, ReceiveRetired
<1>5. Stages'
  BY <1>a DEF Inv, LossesAreHarmless, TypeOK, Stages, NoChunk, Reads, ReceiveRetired
<1>6. Answers'
  BY <1>a DEF Inv, LossesAreHarmless, TypeOK, Stages, Answers, Nothing, NoChunk, Reads,
    ReceiveRetired
<1>7. Offers'
  BY <1>a DEF Inv, LossesAreHarmless, TypeOK, Stages, Links, Offers, NoChunk, Reads,
    ReceiveRetired
<1>8. InFlow'
  BY <1>a DEF Inv, LossesAreHarmless, TypeOK, Stages, InFlow, NoChunk, Reads, ReceiveRetired
<1> QED
  BY <1>1, <1>2, <1>3, <1>4, <1>5, <1>6, <1>7, <1>8 DEF Inv, LossesAreHarmless

\* The sink has stopped.
LEMMA InvSourceCancel ==
  ASSUME Inv, Reads("source"), ~dismissed["source"], ReceiveCancel("source")
  PROVE  Inv'
<1>a. /\ chan' \in [Ends -> Seq(Frames)]
      /\ toSink' = toSink
      /\ Under(toSource') \subseteq Under(toSource)
      /\ Incoming("source") \in Under(toSource)
      /\ Incoming("source") \in Frames
      /\ link["sink"] # "opening"
  BY SourceReads DEF Reads, Other, Inv, Links, ReceiveCancel
<1>1. TypeOK'
  BY <1>a, FrameTypes DEF Inv, LossesAreHarmless, TypeOK, Phases, NoChunk, Reads,
    ReceiveCancel, Phase, Answer, Active
<1>2. OrderNeverBreaks' /\ IntegrityBlamesTheFile'
  BY <1>a, FrameTypes DEF Inv, LossesAreHarmless, TypeOK, OrderNeverBreaks,
    IntegrityBlamesTheFile, NoChunk, Reads, ReceiveCancel, Phase, Answer, Active
<1>3. AcksAreWritten' /\ SinkWithinSent'
  BY <1>a, FrameTypes DEF Inv, LossesAreHarmless, TypeOK, AcksAreWritten, SinkWithinSent,
    NoChunk, Reads, ReceiveCancel, Phase, Answer, Active
<1>4. Links'
  BY <1>a, FrameTypes DEF Inv, LossesAreHarmless, TypeOK, Links, Stages, NoChunk, Reads,
    ReceiveCancel, Phase, Answer, Active
<1>5. Stages'
  BY <1>a, FrameTypes DEF Inv, LossesAreHarmless, TypeOK, Stages, NoChunk, Reads,
    ReceiveCancel, Phase, Answer, Active
<1>6. Answers'
  BY <1>a, FrameTypes DEF Inv, LossesAreHarmless, TypeOK, Stages, Answers, Nothing, NoChunk,
    Reads, ReceiveCancel, Phase, Answer, Active
<1>7. Offers'
  BY <1>a, FrameTypes DEF Inv, LossesAreHarmless, TypeOK, Stages, Links, Offers, NoChunk,
    Reads, ReceiveCancel, Phase, Answer, Active
<1>8. InFlow'
  BY <1>a, FrameTypes DEF Inv, LossesAreHarmless, TypeOK, Stages, InFlow, NoChunk, Reads,
    ReceiveCancel, Phase, Answer, Active
<1> QED
  BY <1>1, <1>2, <1>3, <1>4, <1>5, <1>6, <1>7, <1>8 DEF Inv, LossesAreHarmless

\* The source is told where to go on: that is what the sink needs next, as no
\* chunk is under way.
LEMMA InvAccepted ==
  ASSUME Inv, Reads("source"), ~dismissed["source"], Incoming("source").kind = "Accept", ReceiveAccept
  PROVE  Inv'
<1>a. /\ chan' \in [Ends -> Seq(Frames)]
      /\ toSink' = toSink
      /\ Under(toSource') \subseteq Under(toSource)
      /\ Incoming("source") \in Under(toSource)
      /\ Incoming("source") \in Frames
      /\ link["sink"] # "opening"
  BY SourceReads DEF Reads, Other, Inv, Links, ReceiveAccept
<1>b. /\ Incoming("source").offset \in 0..Size
      /\ Incoming("source").offset <= written
      /\ phase["sink"] \notin Early
  BY <1>a DEF Inv, Answers, Frames
<1>c. phase["source"] = "Offered" =>
        Incoming("source").offset = written /\ NoChunk(toSink)
  BY <1>a DEF Inv, Offers, Reads
<1>d. written \in 0..Size /\ toSink \in Seq(Frames) /\ Size \in Nat
  BY SizeAssumption DEF Inv, LossesAreHarmless, TypeOK
<1>e. /\ written' = written
      /\ phase'["sink"] = phase["sink"]
      /\ \/ /\ phase'["source"] = "Sending" /\ phase["source"] = "Offered"
            /\ sent' = written
         \/ /\ phase'["source"] \in {phase["source"], "Failed"} \ {"Sending"}
            /\ sent' = sent
         \/ /\ phase'["source"] = phase["source"]
            /\ sent' = sent
  BY <1>c DEF Inv, LossesAreHarmless, TypeOK, ReceiveAccept, ResumeAt, Phase, fail
<1>1. TypeOK'
  BY <1>a, <1>b, FrameTypes DEF Inv, LossesAreHarmless, TypeOK, Phases, Reads, ReceiveAccept,
    ResumeAt, Phase, fail
<1>2. OrderNeverBreaks' /\ IntegrityBlamesTheFile'
  BY <1>a, <1>b, FrameTypes DEF Inv, LossesAreHarmless, TypeOK, OrderNeverBreaks,
    IntegrityBlamesTheFile, Reads, ReceiveAccept, ResumeAt, Phase, fail
<1>3. AcksAreWritten' /\ SinkWithinSent'
  BY <1>a, <1>b, <1>c, <1>d DEF Inv, LossesAreHarmless, TypeOK, AcksAreWritten, SinkWithinSent,
    ReceiveAccept, ResumeAt, Phase, fail
<1>4. Links'
  BY <1>a, <1>b, FrameTypes DEF Inv, LossesAreHarmless, TypeOK, Links, Stages, Reads,
    ReceiveAccept, ResumeAt, Phase, fail
<1>5. Stages'
  BY <1>a, <1>b, FrameTypes DEF Inv, LossesAreHarmless, TypeOK, Stages, Reads, ReceiveAccept,
    ResumeAt, Phase, fail
<1>6. Answers'
  BY <1>a, <1>b, FrameTypes DEF Inv, LossesAreHarmless, TypeOK, Stages, Answers, Nothing,
    Reads, ReceiveAccept, ResumeAt, Phase, fail
<1>7. Offers'
  BY <1>a, <1>b, FrameTypes DEF Inv, LossesAreHarmless, TypeOK, Stages, Links, Offers, Reads,
    ReceiveAccept, ResumeAt, Phase, fail
<1>8. InFlow'
  <2> SUFFICES ASSUME phase["sink"] = "Receiving"
               PROVE  InFlow'
    BY <1>e DEF InFlow
  <2>1. CASE phase'["source"] = "Sending" /\ phase["source"] = "Offered" /\ sent' = written
    <3>1. Len(toSink) \in 0..Len(toSink) /\ written \in Nat
      BY <1>d
    <3>2. Flow(toSink, written, written, Len(toSink))
      BY <1>c, <1>d, <2>1, <3>1, FlowEmpty
    <3>3. Len(toSink) + (sent' - written) = Len(toSink)
      BY <1>d, <2>1
    <3> QED
      BY <1>a, <1>d, <1>e, <2>1, <3>1, <3>2, <3>3 DEF InFlow
  <2>2. CASE ~(phase'["source"] = "Sending" /\ phase["source"] = "Offered" /\ sent' = written)
    BY <1>a, <1>e, <2>2 DEF Inv, InFlow
  <2> QED
    BY <2>1, <2>2
<1> QED
  BY <1>1, <1>2, <1>3, <1>4, <1>5, <1>6, <1>7, <1>8 DEF Inv, LossesAreHarmless

\* An acknowledgement never runs ahead of the sink.
LEMMA InvAcknowledged ==
  ASSUME Inv, Reads("source"), ~dismissed["source"], Incoming("source").kind = "Ack", ReceiveAck
  PROVE  Inv'
<1>a. /\ chan' \in [Ends -> Seq(Frames)]
      /\ toSink' = toSink
      /\ Under(toSource') \subseteq Under(toSource)
      /\ Incoming("source") \in Under(toSource)
      /\ Incoming("source") \in Frames
      /\ link["sink"] # "opening"
  BY SourceReads DEF Reads, Other, Inv, Links, ReceiveAck
<1>b. Incoming("source").offset \in 0..Size /\ Incoming("source").offset <= written
  BY <1>a DEF Inv, Answers, Frames
<1>1. TypeOK'
  BY <1>a, <1>b DEF Inv, LossesAreHarmless, TypeOK, Phases, NoChunk, Reads, ReceiveAck
<1>2. OrderNeverBreaks' /\ IntegrityBlamesTheFile'
  BY <1>a, <1>b DEF Inv, LossesAreHarmless, TypeOK, OrderNeverBreaks, IntegrityBlamesTheFile,
    NoChunk, Reads, ReceiveAck
<1>3. AcksAreWritten' /\ SinkWithinSent'
  BY <1>a, <1>b DEF Inv, LossesAreHarmless, TypeOK, AcksAreWritten, SinkWithinSent, NoChunk,
    Reads, ReceiveAck
<1>4. Links'
  BY <1>a, <1>b DEF Inv, LossesAreHarmless, TypeOK, Links, Stages, NoChunk, Reads, ReceiveAck
<1>5. Stages'
  BY <1>a, <1>b DEF Inv, LossesAreHarmless, TypeOK, Stages, NoChunk, Reads, ReceiveAck
<1>6. Answers'
  BY <1>a, <1>b DEF Inv, LossesAreHarmless, TypeOK, Stages, Answers, Nothing, NoChunk, Reads,
    ReceiveAck
<1>7. Offers'
  BY <1>a, <1>b DEF Inv, LossesAreHarmless, TypeOK, Stages, Links, Offers, NoChunk, Reads,
    ReceiveAck
<1>8. InFlow'
  BY <1>a, <1>b DEF Inv, LossesAreHarmless, TypeOK, Stages, InFlow, NoChunk, Reads, ReceiveAck
<1> QED
  BY <1>1, <1>2, <1>3, <1>4, <1>5, <1>6, <1>7, <1>8 DEF Inv, LossesAreHarmless

\* The source hears that the file was saved, and it was.
LEMMA InvCompleted ==
  ASSUME Inv, Reads("source"), ~dismissed["source"], Incoming("source").kind = "Complete", ReceiveComplete
  PROVE  Inv'
<1>a. /\ chan' \in [Ends -> Seq(Frames)]
      /\ toSink' = toSink
      /\ Under(toSource') \subseteq Under(toSource)
      /\ Incoming("source") \in Under(toSource)
      /\ Incoming("source") \in Frames
      /\ link["sink"] # "opening"
  BY SourceReads DEF Reads, Other, Inv, Links, ReceiveComplete
<1>b. phase["sink"] = "Complete" /\ written = Size /\ Size \in 0..Size /\ Size <= Size
  BY <1>a, SizeAssumption DEF Inv, Answers, Stages
<1>1. TypeOK'
  BY <1>a, <1>b DEF Inv, LossesAreHarmless, TypeOK, Phases, NoChunk, Reads, ReceiveComplete, Phase
<1>2. OrderNeverBreaks' /\ IntegrityBlamesTheFile'
  BY <1>a, <1>b DEF Inv, LossesAreHarmless, TypeOK, OrderNeverBreaks, IntegrityBlamesTheFile,
    NoChunk, Reads, ReceiveComplete, Phase
<1>3. AcksAreWritten' /\ SinkWithinSent'
  BY <1>a, <1>b DEF Inv, LossesAreHarmless, TypeOK, AcksAreWritten, SinkWithinSent, NoChunk,
    Reads, ReceiveComplete, Phase
<1>4. Links'
  BY <1>a, <1>b DEF Inv, LossesAreHarmless, TypeOK, Links, Stages, NoChunk, Reads,
    ReceiveComplete, Phase
<1>5. Stages'
  BY <1>a, <1>b DEF Inv, LossesAreHarmless, TypeOK, Stages, NoChunk, Reads, ReceiveComplete, Phase
<1>6. Answers'
  BY <1>a, <1>b DEF Inv, LossesAreHarmless, TypeOK, Stages, Answers, Nothing, NoChunk, Reads,
    ReceiveComplete, Phase
<1>7. Offers'
  BY <1>a, <1>b DEF Inv, LossesAreHarmless, TypeOK, Stages, Links, Offers, NoChunk, Reads,
    ReceiveComplete, Phase
<1>8. InFlow'
  BY <1>a, <1>b DEF Inv, LossesAreHarmless, TypeOK, Stages, InFlow, NoChunk, Reads,
    ReceiveComplete, Phase
<1> QED
  BY <1>1, <1>2, <1>3, <1>4, <1>5, <1>6, <1>7, <1>8 DEF Inv, LossesAreHarmless

\* What comes before the link is open at the source is dropped.
LEMMA InvSourceIgnores ==
  ASSUME Inv, Ignore("source")
  PROVE  Inv'
<1>a. /\ chan' \in [Ends -> Seq(Frames)]
      /\ toSink' = toSink
      /\ Under(toSource') \subseteq Under(toSource)
      /\ link["sink"] # "opening"
  BY SourceReads DEF Ignore, Other, Inv, Links
<1>1. TypeOK'
  BY <1>a DEF Inv, LossesAreHarmless, TypeOK, Phases, NoChunk, Ignore
<1>2. OrderNeverBreaks' /\ IntegrityBlamesTheFile'
  BY <1>a DEF Inv, LossesAreHarmless, TypeOK, OrderNeverBreaks, IntegrityBlamesTheFile,
    NoChunk, Ignore
<1>3. AcksAreWritten' /\ SinkWithinSent'
  BY <1>a DEF Inv, LossesAreHarmless, TypeOK, AcksAreWritten, SinkWithinSent, NoChunk, Ignore
<1>4. Links'
  BY <1>a DEF Inv, LossesAreHarmless, TypeOK, Links, Stages, NoChunk, Ignore
<1>5. Stages'
  BY <1>a DEF Inv, LossesAreHarmless, TypeOK, Stages, NoChunk, Ignore
<1>6. Answers'
  BY <1>a DEF Inv, LossesAreHarmless, TypeOK, Stages, Answers, Nothing, NoChunk, Ignore
<1>7. Offers'
  BY <1>a DEF Inv, LossesAreHarmless, TypeOK, Stages, Links, Offers, NoChunk, Ignore
<1>8. InFlow'
  BY <1>a DEF Inv, LossesAreHarmless, TypeOK, Stages, InFlow, NoChunk, Ignore
<1> QED
  BY <1>1, <1>2, <1>3, <1>4, <1>5, <1>6, <1>7, <1>8 DEF Inv, LossesAreHarmless

-----------------------------------------------------------------------------
(* Steps of the sink that read.                                            *)

\* What reading a frame does to the two channels.
LEMMA SinkReads ==
  ASSUME Inv, toSink # <<>>, Read("sink")
  PROVE  /\ chan' \in [Ends -> Seq(Frames)]
         /\ toSource' = toSource
         /\ toSink' = Tail(toSink)
         /\ Under(toSink') \subseteq Under(toSink)
         /\ Incoming("sink") = Head(toSink)
         /\ Incoming("sink") \in Under(toSink)
         /\ Incoming("sink") \in Frames
         /\ link["source"] # "opening"
<1>1. toSink \in Seq(Frames)
  BY DEF Inv, LossesAreHarmless, TypeOK
<1>2. /\ toSource' = toSource
      /\ toSink' = Tail(toSink)
      /\ chan' = [chan EXCEPT !["source"] = Tail(toSink)]
      /\ Incoming("sink") = Head(toSink)
  BY DEF Inv, LossesAreHarmless, TypeOK, Read, Incoming, Other
<1>3. /\ Tail(toSink) \in Seq(Frames)
      /\ Under(Tail(toSink)) \subseteq Under(toSink)
      /\ Head(toSink) \in Under(toSink)
      /\ Head(toSink) \in Frames
  BY <1>1, Reading
<1>4. link["source"] # "opening"
  BY DEF Inv, Links
<1> QED
  BY <1>2, <1>3, <1>4 DEF Inv, LossesAreHarmless, TypeOK

\* The sink reads and answers on the spot, or the channel is full.
LEMMA SinkReadsAndSends ==
  ASSUME Inv, toSink # <<>>, NEW f \in Frames, ReadAndSend("sink", f)
  PROVE  /\ chan' \in [Ends -> Seq(Frames)]
         /\ Under(toSource') \subseteq Under(toSource) \cup {f}
         /\ toSink' = Tail(toSink)
         /\ Under(toSink') \subseteq Under(toSink)
         /\ Incoming("sink") = Head(toSink)
         /\ Incoming("sink") \in Under(toSink)
         /\ Incoming("sink") \in Frames
         /\ link["source"] # "opening"
<1>1. toSink \in Seq(Frames) /\ toSource \in Seq(Frames)
  BY DEF Inv, LossesAreHarmless, TypeOK
<1>2. /\ toSink' = Tail(toSink)
      /\ toSource' \in {toSource, Append(toSource, f)}
      /\ DOMAIN chan' = Ends /\ chan' = [e \in Ends |-> chan'[e]]
      /\ Incoming("sink") = Head(toSink)
  BY DEF Inv, LossesAreHarmless, TypeOK, ReadAndSend, Incoming, Other
<1>3. /\ Tail(toSink) \in Seq(Frames)
      /\ Under(Tail(toSink)) \subseteq Under(toSink)
      /\ Head(toSink) \in Under(toSink)
      /\ Head(toSink) \in Frames
  BY <1>1, Reading
<1>4. /\ Append(toSource, f) \in Seq(Frames)
      /\ Under(Append(toSource, f)) \subseteq Under(toSource) \cup {f}
  BY <1>1, Sending
<1>5. toSource' \in Seq(Frames) /\ Under(toSource') \subseteq Under(toSource) \cup {f}
  BY <1>1, <1>2, <1>4
<1>6. \A e \in Ends : chan'[e] \in Seq(Frames)
  BY <1>2, <1>3, <1>5
<1>7. chan' \in [Ends -> Seq(Frames)]
  BY <1>2, <1>6
<1>8. link["source"] # "opening"
  BY DEF Inv, Links
<1> QED
  BY <1>2, <1>3, <1>5, <1>7, <1>8

\* Reading a frame that is not a chunk brings the run of chunks nearer.
LEMMA FlowReads ==
  ASSUME Inv, toSink # <<>>, toSink' = Tail(toSink), Head(toSink).kind # "Chunk",
         position' = position, sent' = sent, phase'["source"] = phase["source"],
         phase'["sink"] = phase["sink"] \/ phase'["sink"] # "Receiving"
  PROVE  InFlow'
<1> SUFFICES ASSUME phase["sink"] = "Receiving"
             PROVE  InFlow'
  BY DEF InFlow
<1>1. PICK lo \in 0..Len(toSink), to \in 0..Size :
        /\ Flow(toSink, written, to, lo)
        /\ phase["source"] = "Sending" =>
             to = sent /\ (sent < Size => lo + (sent - written) = Len(toSink))
  BY DEF Inv, InFlow
<1>2. /\ toSink \in Seq(Frames) /\ written \in Nat /\ to \in Nat /\ sent \in Nat
      /\ Len(toSink) \in Nat \ {0}
      /\ Len(Tail(toSink)) = Len(toSink) - 1
  <2>1. toSink \in Seq(Frames) /\ written \in Nat /\ to \in Nat /\ sent \in Nat
    BY SizeAssumption DEF Inv, LossesAreHarmless, TypeOK
  <2> QED
    BY <2>1, Reading, HeadTailProperties
<1>3. CASE lo > 0 /\ lo - 1 \in 0..Len(Tail(toSink)) /\ Flow(Tail(toSink), written, to, lo - 1)
  <2>1. lo + (sent - written) = Len(toSink) => (lo - 1) + (sent - written) = Len(Tail(toSink))
    <3>1. PICK m \in Int, s \in Int, w \in Int : m = Len(toSink) /\ s = sent /\ w = written
      BY <1>2
    <3>2. lo + (s - w) = m => (lo - 1) + (s - w) = m - 1
      OBVIOUS
    <3> QED
      BY <1>2, <3>1, <3>2
  <2> QED
    BY <1>1, <1>3, <2>1 DEF InFlow
<1>4. CASE lo = 0 /\ written = to /\ Flow(Tail(toSink), written, to, 0)
  <2>1. 0 \in 0..Len(Tail(toSink))
    BY <1>2
  <2>2. phase["source"] = "Sending" => to = sent /\ ~(sent < Size)
    <3>1. PICK m \in Int, s \in Int, w \in Int : m = Len(toSink) /\ s = sent /\ w = written
      BY <1>2
    <3>2. ~(s = w /\ lo + (s - w) = m)
      BY <1>2, <1>4, <3>1
    <3> QED
      BY <1>1, <1>4, <3>1, <3>2
  <2> QED
    BY <1>1, <1>4, <2>1, <2>2 DEF InFlow
<1> QED
  BY <1>1, <1>2, <1>3, <1>4, FlowReadOther

\* A sink that has been dismissed keeps its last word.
LEMMA InvSinkRetired ==
  ASSUME Inv, Reads("sink"), dismissed["sink"], ReceiveRetired("sink")
  PROVE  Inv'
<1>a. /\ LastWord("sink") \in Frames
      /\ LastWord("sink").kind \in {"Complete", "Cancel"}
      /\ LastWord("sink").kind = "Complete" => phase["sink"] = "Complete"
  BY FrameTypes DEF LastWord
<1>b. /\ chan' \in [Ends -> Seq(Frames)]
      /\ Under(toSource') \subseteq Under(toSource) \cup {LastWord("sink")}
      /\ toSink # <<>> /\ toSink' = Tail(toSink)
      /\ Under(toSink') \subseteq Under(toSink)
      /\ Incoming("sink") = Head(toSink)
      /\ link["source"] # "opening"
  BY <1>a, SinkReads, SinkReadsAndSends DEF Reads, Other, ReceiveRetired
<1>1. TypeOK'
  BY <1>a, <1>b DEF Inv, LossesAreHarmless, TypeOK, Phases, NoChunk, Reads, ReceiveRetired
<1>2. OrderNeverBreaks' /\ IntegrityBlamesTheFile'
  BY <1>a, <1>b DEF Inv, LossesAreHarmless, TypeOK, OrderNeverBreaks, IntegrityBlamesTheFile,
    NoChunk, Reads, ReceiveRetired
<1>3. AcksAreWritten' /\ SinkWithinSent'
  BY <1>a, <1>b DEF Inv, LossesAreHarmless, TypeOK, AcksAreWritten, SinkWithinSent, NoChunk,
    Reads, ReceiveRetired
<1>4. Links'
  BY <1>a, <1>b DEF Inv, LossesAreHarmless, TypeOK, Links, Stages, NoChunk, Reads, ReceiveRetired
<1>5. Stages'
  BY <1>a, <1>b DEF Inv, LossesAreHarmless, TypeOK, Stages, NoChunk, Reads, ReceiveRetired
<1>6. Answers'
  BY <1>a, <1>b DEF Inv, LossesAreHarmless, TypeOK, Stages, Answers, Nothing, NoChunk, Reads,
    ReceiveRetired
<1>7. Offers'
  BY <1>a, <1>b DEF Inv, LossesAreHarmless, TypeOK, Stages, Links, Offers, NoChunk, Reads,
    ReceiveRetired
<1>8. InFlow'
  BY DEF Inv, Stages, InFlow, ReceiveRetired
<1> QED
  BY <1>1, <1>2, <1>3, <1>4, <1>5, <1>6, <1>7, <1>8 DEF Inv, LossesAreHarmless

\* The source has stopped.
LEMMA InvSinkCancel ==
  ASSUME Inv, Reads("sink"), ~dismissed["sink"], Incoming("sink").kind = "Cancel", ReceiveCancel("sink")
  PROVE  Inv'
<1>a. /\ chan' \in [Ends -> Seq(Frames)]
      /\ toSource' = toSource
      /\ toSink # <<>> /\ toSink' = Tail(toSink)
      /\ Under(toSink') \subseteq Under(toSink)
      /\ Incoming("sink") = Head(toSink)
      /\ Incoming("sink") \in Under(toSink)
      /\ link["source"] # "opening"
  BY SinkReads DEF Reads, Other, ReceiveCancel
<1>1. TypeOK'
  BY <1>a, FrameTypes DEF Inv, LossesAreHarmless, TypeOK, Phases, NoChunk, Reads,
    ReceiveCancel, Phase, Answer, Active
<1>2. OrderNeverBreaks' /\ IntegrityBlamesTheFile'
  BY <1>a, FrameTypes DEF Inv, LossesAreHarmless, TypeOK, OrderNeverBreaks,
    IntegrityBlamesTheFile, NoChunk, Reads, ReceiveCancel, Phase, Answer, Active
<1>3. AcksAreWritten' /\ SinkWithinSent'
  BY <1>a, FrameTypes DEF Inv, LossesAreHarmless, TypeOK, AcksAreWritten, SinkWithinSent,
    NoChunk, Reads, ReceiveCancel, Phase, Answer, Active
<1>4. Links'
  BY <1>a, FrameTypes DEF Inv, LossesAreHarmless, TypeOK, Links, Stages, NoChunk, Reads,
    ReceiveCancel, Phase, Answer, Active
<1>5. Stages'
  BY <1>a, FrameTypes DEF Inv, LossesAreHarmless, TypeOK, Stages, NoChunk, Reads,
    ReceiveCancel, Phase, Answer, Active
<1>6. Answers'
  BY <1>a, FrameTypes DEF Inv, LossesAreHarmless, TypeOK, Stages, Answers, Nothing, NoChunk,
    Reads, ReceiveCancel, Phase, Answer, Active
<1>7. Offers'
  BY <1>a, FrameTypes DEF Inv, LossesAreHarmless, TypeOK, Stages, Links, Offers, NoChunk,
    Reads, ReceiveCancel, Phase, Answer, Active
<1>8. InFlow'
  BY <1>a, FlowReads DEF ReceiveCancel, Phase, Active, Inv, LossesAreHarmless, TypeOK
<1> QED
  BY <1>1, <1>2, <1>3, <1>4, <1>5, <1>6, <1>7, <1>8 DEF Inv, LossesAreHarmless

\* What comes before the link is open at the sink is dropped.
LEMMA InvSinkIgnores ==
  ASSUME Inv, Ignore("sink")
  PROVE  Inv'
<1>a. /\ chan' \in [Ends -> Seq(Frames)]
      /\ toSource' = toSource
      /\ toSink # <<>> /\ toSink' = Tail(toSink)
      /\ Under(toSink') \subseteq Under(toSink)
      /\ Incoming("sink") = Head(toSink)
      /\ Incoming("sink") \in Under(toSink)
      /\ link["source"] # "opening"
  BY SinkReads DEF Other, Ignore
<1>1. TypeOK'
  BY <1>a DEF Inv, LossesAreHarmless, TypeOK, Phases, NoChunk, Ignore
<1>2. OrderNeverBreaks' /\ IntegrityBlamesTheFile'
  BY <1>a DEF Inv, LossesAreHarmless, TypeOK, OrderNeverBreaks, IntegrityBlamesTheFile,
    NoChunk, Ignore
<1>3. AcksAreWritten' /\ SinkWithinSent'
  BY <1>a DEF Inv, LossesAreHarmless, TypeOK, AcksAreWritten, SinkWithinSent, NoChunk, Ignore
<1>4. Links'
  BY <1>a DEF Inv, LossesAreHarmless, TypeOK, Links, Stages, NoChunk, Ignore
<1>5. Stages'
  BY <1>a DEF Inv, LossesAreHarmless, TypeOK, Stages, NoChunk, Ignore
<1>6. Answers'
  BY <1>a DEF Inv, LossesAreHarmless, TypeOK, Stages, Answers, Nothing, NoChunk, Ignore
<1>7. Offers'
  BY <1>a DEF Inv, LossesAreHarmless, TypeOK, Stages, Links, Offers, NoChunk, Ignore
<1>8. InFlow'
  <2>1. Head(toSink).kind # "Chunk"
    BY <1>a DEF Inv, Links, NoChunk, Ignore
  <2> QED
    BY <1>a, <2>1, FlowReads DEF Ignore
<1> QED
  BY <1>1, <1>2, <1>3, <1>4, <1>5, <1>6, <1>7, <1>8 DEF Inv, LossesAreHarmless

\* The sink is told that the file is complete; it lacks nothing then.
LEMMA InvFinished ==
  ASSUME Inv, Reads("sink"), ~dismissed["sink"], Incoming("sink").kind = "Finish", ReceiveFinish
  PROVE  Inv'
<1>a. /\ chan' \in [Ends -> Seq(Frames)]
      /\ toSource' = toSource
      /\ toSink # <<>> /\ toSink' = Tail(toSink)
      /\ Under(toSink') \subseteq Under(toSink)
      /\ Incoming("sink") = Head(toSink)
      /\ Incoming("sink") \in Under(toSink)
      /\ link["source"] # "opening"
  BY SinkReads DEF Reads, Other, ReceiveFinish
<1>b. written = Size /\ (~intact => modified)
  BY <1>a DEF Inv, Offers
<1>1. TypeOK'
  <2>1. phase' \in [Ends -> Phases]
    BY DEF Inv, LossesAreHarmless, TypeOK, Phases, ReceiveFinish, Phase, fail
  <2>2. reply' \in [Ends -> Frames]
    BY FrameTypes DEF Inv, LossesAreHarmless, TypeOK, ReceiveFinish, Answer, fail
  <2>3. error' \in [Ends -> {"none", "file", "order", "disk", "integrity"}]
    BY DEF Inv, LossesAreHarmless, TypeOK, ReceiveFinish, fail
  <2> QED
    BY <1>a, <2>1, <2>2, <2>3 DEF Inv, LossesAreHarmless, TypeOK, Reads, ReceiveFinish
<1>2. OrderNeverBreaks' /\ IntegrityBlamesTheFile'
  BY <1>a, <1>b, FrameTypes DEF Inv, LossesAreHarmless, TypeOK, OrderNeverBreaks,
    IntegrityBlamesTheFile, NoChunk, Reads, ReceiveFinish, Phase, Answer, fail
<1>3. AcksAreWritten' /\ SinkWithinSent'
  BY <1>a, <1>b, FrameTypes DEF Inv, LossesAreHarmless, TypeOK, AcksAreWritten, SinkWithinSent,
    NoChunk, Reads, ReceiveFinish, Phase, Answer, fail
<1>4. Links'
  BY <1>a, <1>b, FrameTypes DEF Inv, LossesAreHarmless, TypeOK, Links, Stages, NoChunk, Reads,
    ReceiveFinish, Phase, Answer, fail
<1>5. Stages'
  BY <1>a, <1>b, FrameTypes DEF Inv, LossesAreHarmless, TypeOK, Stages, NoChunk, Reads,
    ReceiveFinish, Phase, Answer, fail
<1>6. Answers'
  BY <1>a, <1>b, FrameTypes DEF Inv, LossesAreHarmless, TypeOK, Stages, Answers, Nothing,
    NoChunk, Reads, ReceiveFinish, Phase, Answer, fail
<1>7. Offers'
  BY <1>a, <1>b, FrameTypes DEF Inv, LossesAreHarmless, TypeOK, Stages, Links, Offers, NoChunk,
    Reads, ReceiveFinish, Phase, Answer, fail
<1>8. InFlow'
  BY <1>a, FlowReads DEF ReceiveFinish, Phase, fail, Inv, LossesAreHarmless, TypeOK
<1> QED
  BY <1>1, <1>2, <1>3, <1>4, <1>5, <1>6, <1>7, <1>8 DEF Inv, LossesAreHarmless

\* An offer, first or repeated, is answered with what the sink needs next, or
\* with how the transfer ended.
LEMMA InvOffered ==
  ASSUME Inv, Reads("sink"), ~dismissed["sink"], Incoming("sink").kind = "Offer", ReceiveOffer
  PROVE  Inv'
<1>b. /\ LastWord("sink") \in Frames
      /\ LastWord("sink").kind \in {"Complete", "Cancel"}
      /\ LastWord("sink").kind = "Complete" => phase["sink"] = "Complete"
      /\ Frame("Cancel", 0) \in Frames /\ Frame("Cancel", 0).kind = "Cancel"
  BY FrameTypes DEF LastWord
<1>c. written \in 0..Size
  BY DEF Inv, LossesAreHarmless, TypeOK
<1>d. /\ Frame("Accept", written) \in Frames /\ Frame("Accept", written).kind = "Accept"
      /\ Frame("Accept", written).offset = written /\ written <= written
  BY <1>c, FrameTypes, SizeAssumption
<1>e. /\ chan' \in [Ends -> Seq(Frames)]
      /\ Under(toSource') \subseteq Under(toSource) \cup {Frame("Cancel", 0)}
      /\ toSink # <<>> /\ toSink' = Tail(toSink)
      /\ Under(toSink') \subseteq Under(toSink)
      /\ Incoming("sink") = Head(toSink)
      /\ link["source"] # "opening"
  BY <1>b, SinkReads, SinkReadsAndSends DEF Reads, Other, ReceiveOffer
<1>f. \/ UNCHANGED <<phase, reply>>
      \/ /\ phase["sink"] = "Absent"
         /\ phase' = [phase EXCEPT !["sink"] = "Incoming"]
         /\ UNCHANGED reply
      \/ /\ phase["sink"] = "Receiving"
         /\ reply' = [reply EXCEPT !["sink"] = Frame("Accept", written)]
         /\ UNCHANGED phase
      \/ /\ phase["sink"] \in Terminal
         /\ reply' = [reply EXCEPT !["sink"] = LastWord("sink")]
         /\ UNCHANGED phase
  BY DEF ReceiveOffer, Phase, Answer, Inv, Stages
<1>g. UNCHANGED <<link, losses, connected, dismissed, error, progressVars>>
  BY DEF ReceiveOffer, Reads
<1>1. TypeOK'
  BY <1>b, <1>d, <1>e, <1>f, <1>g DEF Inv, LossesAreHarmless, TypeOK, Phases, NoChunk
<1>2. OrderNeverBreaks' /\ IntegrityBlamesTheFile'
  BY <1>g DEF Inv, LossesAreHarmless, OrderNeverBreaks, IntegrityBlamesTheFile
<1>3. AcksAreWritten' /\ SinkWithinSent'
  BY <1>f, <1>g DEF Inv, LossesAreHarmless, TypeOK, AcksAreWritten, SinkWithinSent
<1>4. Links'
  <2>1. phase'["source"] = phase["source"] /\ link["sink"] = "open"
    BY <1>f DEF Inv, LossesAreHarmless, TypeOK, Reads
  <2> QED
    BY <1>e, <1>g, <2>1 DEF Inv, Links
<1>5. Stages'
  BY <1>b, <1>d, <1>e, <1>f, <1>g DEF Inv, LossesAreHarmless, TypeOK, Stages, NoChunk
<1>6. Answers'
  BY <1>b, <1>d, <1>e, <1>f, <1>g DEF Inv, LossesAreHarmless, TypeOK, Stages, Answers, Nothing,
    NoChunk
<1>7. Offers'
  BY <1>b, <1>d, <1>e, <1>f, <1>g DEF Inv, LossesAreHarmless, TypeOK, Stages, Links, Offers,
    NoChunk
<1>8. InFlow'
  BY <1>e, <1>f, <1>g, FlowReads DEF Inv, LossesAreHarmless, TypeOK
<1> QED
  BY <1>1, <1>2, <1>3, <1>4, <1>5, <1>6, <1>7, <1>8 DEF Inv, LossesAreHarmless

\* A chunk that arrives is the one the sink needs next, so it is written, or
\* the disk fails; the run of chunks begins with the one after it.
LEMMA InvReceiveChunk ==
  ASSUME Inv, Reads("sink"), ~dismissed["sink"], Incoming("sink").kind = "Chunk", ReceiveChunk
  PROVE  Inv'
<1>a. /\ chan' \in [Ends -> Seq(Frames)]
      /\ toSource' = toSource
      /\ toSink # <<>> /\ toSink' = Tail(toSink)
      /\ Under(toSink') \subseteq Under(toSink)
      /\ Incoming("sink") = Head(toSink)
      /\ Incoming("sink") \in Under(toSink)
      /\ link["source"] # "opening"
  BY SinkReads DEF Reads, Other, ReceiveChunk
<1>b. CASE phase["sink"] # "Receiving"
  <2>1. UNCHANGED <<link, losses, connected, dismissed, phase, error, reply, progressVars>>
    BY <1>b DEF ReceiveChunk, Reads
  <2>2. TypeOK'
    BY <1>a, <2>1 DEF Inv, LossesAreHarmless, TypeOK
  <2>3. (OrderNeverBreaks /\ IntegrityBlamesTheFile /\ AcksAreWritten /\ SinkWithinSent)'
    BY <2>1 DEF Inv, LossesAreHarmless, OrderNeverBreaks, IntegrityBlamesTheFile, AcksAreWritten,
      SinkWithinSent
  <2>4. Links' /\ Stages'
    BY <1>a, <2>1 DEF Inv, Links, Stages, NoChunk, Reads
  <2>5. Answers' /\ Offers'
    BY <1>a, <2>1 DEF Inv, Answers, Offers, NoChunk
  <2>6. InFlow'
    BY <1>b, <2>1 DEF InFlow
  <2> QED
    BY <2>2, <2>3, <2>4, <2>5, <2>6 DEF Inv, LossesAreHarmless
<1>c. CASE phase["sink"] = "Receiving"
  <2>1. PICK lo \in 0..Len(toSink), to \in 0..Size :
          /\ Flow(toSink, written, to, lo)
          /\ phase["source"] = "Sending" =>
               to = sent /\ (sent < Size => lo + (sent - written) = Len(toSink))
    BY <1>c DEF Inv, InFlow
  <2>2. /\ toSink \in Seq(Frames) /\ written \in 0..Size /\ written \in Nat /\ to \in Nat
        /\ sent \in 0..Size /\ Size \in Nat
    BY SizeAssumption DEF Inv, LossesAreHarmless, TypeOK
  <2>3. /\ lo = 0
        /\ written < to
        /\ Head(toSink).offset = written
        /\ Flow(Tail(toSink), written + 1, to, 0)
    BY <1>a, <2>1, <2>2, FlowReadChunk
  <2>4. written # Size /\ written + 1 \in 0..Size
    BY <2>2, <2>3
  <2>5. \A f \in Under(toSink) : f.kind # "Finish"
    BY <2>4 DEF Inv, Offers
  <2>6. /\ ~(link["source"] # "none" /\ phase["source"] \in {"Hashing", "Offered"})
        /\ link["source"] # "opening" /\ link["sink"] = "open"
        /\ ~Head(toSink).good => modified
    BY <1>a DEF Inv, Offers, NoChunk, Reads
  <2>7. UNCHANGED <<link, losses, connected, dismissed, sent, modified>>
    BY DEF ReceiveChunk, Reads
  <2>8. \/ /\ position' = [position EXCEPT !["sink"] = written + 1]
           /\ intact' = (intact /\ Head(toSink).good)
           /\ reply' = [reply EXCEPT !["sink"] = Frame("Ack", written + 1)]
           /\ UNCHANGED <<phase, error>>
        \/ fail("sink", "disk") /\ UNCHANGED <<position, intact>>
    BY <1>a, <1>c, <2>3, <2>4 DEF ReceiveChunk, Answer
  <2>9. CASE fail("sink", "disk") /\ UNCHANGED <<position, intact>>
    <3>1. TypeOK'
      BY <1>a, <2>7, <2>9, FrameTypes DEF Inv, LossesAreHarmless, TypeOK, Phases, fail
    <3>2. (OrderNeverBreaks /\ IntegrityBlamesTheFile /\ AcksAreWritten /\ SinkWithinSent)'
      BY <2>7, <2>9 DEF Inv, LossesAreHarmless, TypeOK, OrderNeverBreaks, IntegrityBlamesTheFile,
        AcksAreWritten, SinkWithinSent, fail
    <3>3. Links' /\ Stages'
      BY <1>a, <1>c, <2>6, <2>7, <2>9 DEF Inv, LossesAreHarmless, TypeOK, Links, Stages, fail
    <3>4. Answers'
      BY <1>a, <1>c, <2>7, <2>9, FrameTypes DEF Inv, LossesAreHarmless, TypeOK, Answers, fail
    <3>5. Offers'
      BY <1>a, <1>c, <2>6, <2>7, <2>9 DEF Inv, LossesAreHarmless, TypeOK, Offers, NoChunk, fail
    <3>6. InFlow'
      BY <2>9 DEF Inv, LossesAreHarmless, TypeOK, InFlow, fail
    <3> QED
      BY <3>1, <3>2, <3>3, <3>4, <3>5, <3>6 DEF Inv, LossesAreHarmless
  <2>10. CASE /\ position' = [position EXCEPT !["sink"] = written + 1]
              /\ intact' = (intact /\ Head(toSink).good)
              /\ reply' = [reply EXCEPT !["sink"] = Frame("Ack", written + 1)]
              /\ UNCHANGED <<phase, error>>
    <3>1. /\ Frame("Ack", written + 1) \in Frames
          /\ Frame("Ack", written + 1).kind = "Ack"
          /\ Frame("Ack", written + 1).offset = written + 1
      BY <2>4, FrameTypes
    <3>2. /\ written' = written + 1
          /\ position'["source"] = position["source"]
          /\ \A n \in Int : n <= written => n <= written'
      BY <2>2, <2>10 DEF Inv, LossesAreHarmless, TypeOK
    <3>3. Head(toSink) \in Frames /\ Head(toSink).kind = "Chunk" /\ Head(toSink).good \in BOOLEAN
      BY <1>a, <2>2, Reading DEF Frames
    <3>4. TypeOK'
      BY <1>a, <2>4, <2>7, <2>10, <3>1, <3>3 DEF Inv, LossesAreHarmless, TypeOK
    <3>5. (OrderNeverBreaks /\ IntegrityBlamesTheFile)'
      BY <2>7, <2>10 DEF Inv, LossesAreHarmless, OrderNeverBreaks, IntegrityBlamesTheFile
    <3>6. AcksAreWritten'
      BY <2>2, <3>2 DEF Inv, LossesAreHarmless, TypeOK, AcksAreWritten
    <3>7. SinkWithinSent'
      BY <2>1, <2>2, <2>3, <2>7, <2>10, <3>2 DEF SinkWithinSent
    <3>8. Links' /\ Stages'
      BY <1>a, <1>c, <2>6, <2>7, <2>10 DEF Inv, Links, Stages
    <3>9. Answers'
      <4>1. \A f \in Under(toSource) : f.kind \in {"Accept", "Ack"} => f.offset <= written'
        <5> SUFFICES ASSUME NEW f \in Under(toSource), f.kind \in {"Accept", "Ack"}
                     PROVE  f.offset <= written'
          OBVIOUS
        <5>1. f.offset <= written
          BY DEF Inv, Answers
        <5>2. toSource \in Seq(Frames)
          BY DEF Inv, LossesAreHarmless, TypeOK
        <5>3. f \in Frames
          BY <5>2 DEF Under
        <5>4. f.offset \in Int
          BY <2>2, <5>3 DEF Frames
        <5> QED
          BY <3>2, <5>1, <5>4
      <4>2. /\ reply'["sink"] = Frame("Ack", written + 1)
            /\ reply'["source"] = reply["source"]
        BY <2>10 DEF Inv, LossesAreHarmless, TypeOK
      <4>3. written + 1 <= written'
        BY <2>2, <3>2
      <4> QED
        BY <1>a, <1>c, <2>10, <3>1, <3>2, <4>1, <4>2, <4>3 DEF Inv, Answers
    <3>10. Offers'
      BY <1>a, <1>c, <2>5, <2>6, <2>7, <2>10 DEF Inv, Offers
    <3>11. InFlow'
      <4>1. 0 \in 0..Len(Tail(toSink)) /\ Len(Tail(toSink)) = Len(toSink) - 1
        BY <1>a, <2>2, Reading, HeadTailProperties
      <4>2. 0 + (sent - written) = Len(toSink) => 0 + (sent' - written') = Len(Tail(toSink))
        <5>1. PICK m \in Int, s \in Int, w \in Int : m = Len(toSink) /\ s = sent /\ w = written
          BY <2>2
        <5>2. 0 + (s - w) = m => 0 + (s - (w + 1)) = m - 1
          OBVIOUS
        <5> QED
          BY <2>7, <3>2, <4>1, <5>1, <5>2
      <4>3. to = sent => to = sent'
        BY <2>7
      <4> QED
        BY <1>a, <2>1, <2>3, <2>7, <2>10, <3>2, <4>1, <4>2, <4>3 DEF InFlow
    <3> QED
      BY <3>4, <3>5, <3>6, <3>7, <3>8, <3>9, <3>10, <3>11 DEF Inv, LossesAreHarmless
  <2> QED
    BY <2>8, <2>9, <2>10
<1> QED
  BY <1>b, <1>c

-----------------------------------------------------------------------------
(* The theorems.                                                           *)

\* The invariant holds when the file is offered for hashing.
LEMMA InvInit == Init => Inv
<1> SUFFICES ASSUME Init
             PROVE  Inv
  OBVIOUS
<1>1. TypeOK
  <2>1. <<>> \in Seq(Frames) /\ 0 \in 0..MaxLosses
    BY SizeAssumption
  <2>2. chan \in [Ends -> Seq(Frames)] /\ reply \in [Ends -> Frames] /\ position \in [Ends -> 0..Size]
    BY <2>1, FrameTypes DEF Init
  <2>3. phase \in [Ends -> Phases]
    BY DEF Init, Phases
  <2> QED
    BY <2>1, <2>2, <2>3, FrameTypes DEF Init, TypeOK
<1>2. OrderNeverBreaks /\ IntegrityBlamesTheFile /\ AcksAreWritten /\ SinkWithinSent
  BY DEF Init, OrderNeverBreaks, IntegrityBlamesTheFile, AcksAreWritten, SinkWithinSent
<1>3. Under(toSink) = {} /\ Under(toSource) = {}
  BY DEF Init, Under
<1>4. Links /\ Stages
  BY <1>3 DEF Init, Links, Stages, NoChunk
<1>5. Answers /\ Offers
  BY <1>3, FrameTypes DEF Init, Answers, Offers, NoChunk
<1>6. InFlow
  BY DEF Init, InFlow
<1> QED
  BY <1>1, <1>2, <1>4, <1>5, <1>6 DEF Inv, LossesAreHarmless

\* A new link has nothing under way.
LEMMA InvEstablish ==
  ASSUME Inv, Establish
  PROVE  Inv'
<1>1. /\ toSink' = <<>> /\ toSource' = <<>>
      /\ Under(toSink') = {} /\ Under(toSource') = {}
      /\ chan' \in [Ends -> Seq(Frames)]
      /\ 0 \in 0..Len(toSink')
  BY DEF Establish, Under
<1>2. phase["source"] # "Sending"
  BY DEF Inv, Links, Establish
<1>3. TypeOK'
  BY <1>1 DEF Inv, LossesAreHarmless, TypeOK, Establish
<1>4. (OrderNeverBreaks /\ IntegrityBlamesTheFile /\ AcksAreWritten /\ SinkWithinSent)'
  BY DEF Inv, LossesAreHarmless, OrderNeverBreaks, IntegrityBlamesTheFile, AcksAreWritten,
    SinkWithinSent, Establish
<1>5. Links' /\ Stages'
  BY <1>1, <1>2 DEF Inv, Links, Stages, NoChunk, Establish
<1>6. Answers' /\ Offers'
  BY <1>1 DEF Inv, Answers, Offers, NoChunk, Establish
<1>7. InFlow'
  <2>1. written \in 0..Size /\ written' = written /\ written \in Nat
    BY SizeAssumption DEF Inv, LossesAreHarmless, TypeOK, Establish
  <2>2. toSink' \in Seq(Frames) /\ NoChunk(toSink')
    BY <1>1 DEF NoChunk
  <2>3. Flow(toSink', written', written', 0)
    BY <1>1, <2>1, <2>2, FlowEmpty
  <2> QED
    BY <1>1, <1>2, <2>1, <2>3 DEF InFlow, Establish
<1> QED
  BY <1>3, <1>4, <1>5, <1>6, <1>7 DEF Inv, LossesAreHarmless

\* Whatever an end reads.
LEMMA InvReceive ==
  ASSUME Inv, NEW e \in Ends, Receive(e)
  PROVE  Inv'
<1>1. Reads(e)
  BY DEF Receive, Reads
<1>2. CASE e = "source"
  <2>1. toSource \in Seq(Frames) /\ toSource # <<>>
    BY <1>1, <1>2 DEF Inv, LossesAreHarmless, TypeOK, Reads, Other
  <2>2. Incoming(e) \in Under(toSource)
    BY <1>2, <2>1, Reading DEF Incoming, Other
  <2>3. Incoming(e).kind \in {"Accept", "Ack", "Complete", "Cancel"}
    BY <2>2 DEF Inv, Answers
  <2>4. CASE dismissed[e]
    BY <1>1, <1>2, <2>4, InvSourceRetired DEF Receive
  <2>5. CASE ~dismissed[e]
    BY <1>1, <1>2, <2>3, <2>5, InvSourceCancel, InvAccepted, InvAcknowledged, InvCompleted DEF
      Receive
  <2> QED
    BY <2>4, <2>5
<1>3. CASE e = "sink"
  <2>1. toSink \in Seq(Frames) /\ toSink # <<>>
    BY <1>1, <1>3 DEF Inv, LossesAreHarmless, TypeOK, Reads, Other
  <2>2. Incoming(e) \in Under(toSink)
    BY <1>3, <2>1, Reading DEF Incoming, Other
  <2>3. Incoming(e).kind \in {"Offer", "Chunk", "Finish", "Cancel"}
    BY <2>2 DEF Inv, Offers
  <2>4. CASE dismissed[e]
    BY <1>1, <1>3, <2>4, InvSinkRetired DEF Receive
  <2>5. CASE ~dismissed[e]
    BY <1>1, <1>3, <2>3, <2>5, InvOffered, InvSinkCancel, InvReceiveChunk, InvFinished DEF Receive
  <2> QED
    BY <2>4, <2>5
<1> QED
  BY <1>2, <1>3

\* Every step keeps the invariant.
LEMMA InvStep == Inv /\ [Next]_vars => Inv'
<1> SUFFICES ASSUME Inv, [Next]_vars
             PROVE  Inv'
  OBVIOUS
<1>1. CASE Establish
  BY <1>1, InvEstablish
<1>2. CASE accept
  BY <1>2, InvAccept
<1>3. CASE Modify
  BY <1>3, InvModify
<1>4. CASE Hash
  BY <1>4, InvHash
<1>5. CASE SendOffer
  BY <1>5, InvSendOffer
<1>6. CASE SendChunks
  BY <1>6, InvSendChunks
<1>7. CASE ReadFails
  BY <1>7, InvReadFails
<1>8. CASE SendFinish
  BY <1>8, InvSendFinish
<1>9. ASSUME NEW e \in Ends, LinkOpened(e)
      PROVE  Inv'
  BY <1>9, InvOpened
<1>10. ASSUME NEW e \in Ends, LinkLost(e) \/ LinkDropped(e)
       PROVE  Inv'
  <2>1. LinkRemoved(e) /\ losses' \in 0..MaxLosses
    BY <1>10, SizeAssumption DEF LinkLost, LinkDropped, Loss, Inv, LossesAreHarmless, TypeOK
  <2> QED
    BY <2>1, InvRemoved
<1>11. ASSUME NEW e \in Ends, cancel(e) \/ dismiss(e)
       PROVE  Inv'
  BY <1>11, InvCancel, InvDismiss
<1>12. ASSUME NEW e \in Ends, removePeer(e) \/ clear(e)
       PROVE  Inv'
  BY <1>12, InvRemovePeer, InvClear
<1>13. ASSUME NEW e \in Ends, SendReply(e)
       PROVE  Inv'
  BY <1>13, InvSourceReply, InvSinkReply
<1>14. ASSUME NEW e \in Ends, Receive(e)
       PROVE  Inv'
  BY <1>14, InvReceive
<1>15. ASSUME NEW e \in Ends, Ignore(e)
       PROVE  Inv'
  BY <1>15, InvSourceIgnores, InvSinkIgnores
<1>16. CASE UNCHANGED vars
  BY <1>16 DEF vars, Inv, LossesAreHarmless, TypeOK, OrderNeverBreaks, IntegrityBlamesTheFile,
    AcksAreWritten, SinkWithinSent, Links, Stages, Answers, Offers, InFlow, NoChunk
<1> QED
  BY <1>1, <1>2, <1>3, <1>4, <1>5, <1>6, <1>7, <1>8, <1>9, <1>10, <1>11, <1>12, <1>13, <1>14,
     <1>15, <1>16 DEF Next

\* The invariant holds throughout.
LEMMA Invariance == Spec => []Inv
<1>1. Init => Inv
  BY InvInit
<1>2. Inv /\ [Next]_vars => Inv'
  BY InvStep
<1> QED
  BY <1>1, <1>2, PTL DEF Spec

\* Losing the link costs a transfer nothing, for files and windows of any size
\* and however often it happens: no chunk is missed, sent twice or taken out of
\* order, and only a file that was changed fails the integrity check.
THEOREM LinkLossIsHarmless == Spec => []LossesAreHarmless
<1>1. Inv => LossesAreHarmless
  BY DEF Inv
<1> QED
  BY <1>1, Invariance, PTL

-----------------------------------------------------------------------------
(* The two ends implement the abstract delivery.                           *)

upload   == Shown(phase["source"])
download == Shown(phase["sink"])

\* How the phases of the two ends look to the users.
LEMMA Views ==
  /\ Shown("Complete") = "done"
  /\ Shown("Cancelled") = "stopped" /\ Shown("Failed") = "stopped"
  /\ Shown("Absent") = "asked" /\ Shown("Incoming") = "asked"
  /\ Shown("Hashing") = "open" /\ Shown("Offered") = "open"
  /\ Shown("Sending") = "open" /\ Shown("Receiving") = "open"
BY DEF Shown

\* A step that changes neither what is written nor what the users see.
LEMMA Stutter ==
  ASSUME upload' = upload, download' = download, written' = written, intact' = intact
  PROVE  [D!Next]_(D!vars)
BY DEF D!vars, upload, download

\* The source stops, or is told that the file was saved.
LEMMA SourceEnds ==
  ASSUME Inv, NEW p \in {"Complete", "Cancelled", "Failed"},
         phase["source"] \in {"Hashing", "Offered", "Sending"},
         phase' = [phase EXCEPT !["source"] = p],
         p = "Complete" => phase["sink"] = "Complete",
         written' = written, intact' = intact
  PROVE  [D!Next]_(D!vars)
<1>1. phase'["source"] = p /\ phase'["sink"] = phase["sink"]
  BY DEF Inv, LossesAreHarmless, TypeOK
<1>2. upload = "open" /\ download' = download
  BY <1>1, Views DEF upload, download
<1>3. CASE p = "Complete"
  BY <1>1, <1>2, <1>3, Views DEF D!Next, D!Confirm, upload, download
<1>4. CASE p # "Complete"
  BY <1>1, <1>2, <1>4, Views DEF D!Next, D!StopUpload, upload, download
<1> QED
  BY <1>3, <1>4

\* The sink stops.
LEMMA SinkEnds ==
  ASSUME Inv, NEW p \in {"Cancelled", "Failed"},
         phase["sink"] \in {"Absent", "Incoming", "Receiving"},
         phase' = [phase EXCEPT !["sink"] = p],
         written' = written, intact' = intact
  PROVE  [D!Next]_(D!vars)
<1>1. phase'["sink"] = p /\ phase'["source"] = phase["source"]
  BY DEF Inv, LossesAreHarmless, TypeOK
<1>2. download \in {"asked", "open"} /\ upload' = upload
  BY <1>1, Views DEF upload, download
<1> QED
  BY <1>1, <1>2, Views DEF D!Next, D!StopDownload, upload, download

\* A transfer that is cancelled, if it has not ended before.
LEMMA ActiveEnds ==
  ASSUME Inv, NEW e \in Ends, written' = written, intact' = intact,
         phase' = [phase EXCEPT ![e] = IF Active(e) THEN "Cancelled" ELSE @]
  PROVE  [D!Next]_(D!vars)
<1>1. CASE ~Active(e)
  <2>1. phase' = phase
    BY <1>1 DEF Inv, LossesAreHarmless, TypeOK
  <2> QED
    BY <2>1, Stutter DEF upload, download
<1>2. CASE Active(e) /\ e = "source"
  BY <1>2, SourceEnds DEF Active, Inv, Stages
<1>3. CASE Active(e) /\ e = "sink"
  BY <1>3, SinkEnds DEF Active, Inv, Stages
<1> QED
  BY <1>1, <1>2, <1>3

\* What the source reads is a step of the delivery for it, or none.
LEMMA SourceReadsOn ==
  ASSUME Inv, Receive("source")
  PROVE  [D!Next]_(D!vars)
<1>1. /\ toSource \in Seq(Frames) /\ toSource # <<>>
  BY DEF Inv, LossesAreHarmless, TypeOK, Receive, Other
<1>2. Incoming("source") \in Under(toSource)
  BY <1>1, Reading DEF Incoming, Other
<1>3. Incoming("source").kind \in {"Accept", "Ack", "Complete", "Cancel"}
  BY <1>2 DEF Inv, Answers
<1>4. CASE dismissed["source"]
  BY <1>4, Stutter DEF Receive, ReceiveRetired, upload, download
<1>5. CASE ~dismissed["source"] /\ ReceiveCancel("source")
  <2>1. phase' = [phase EXCEPT !["source"] = IF Active("source") THEN "Cancelled" ELSE @]
    BY <1>5 DEF ReceiveCancel, Phase, Inv, LossesAreHarmless, TypeOK
  <2> QED
    BY <1>5, <2>1, ActiveEnds DEF ReceiveCancel
<1>6. CASE ~dismissed["source"] /\ ReceiveAccept
  <2>1. written' = written /\ intact' = intact
    BY <1>6 DEF ReceiveAccept, fail, Inv, LossesAreHarmless, TypeOK
  <2>2. CASE phase["source"] = "Offered" /\ Phase("source", "Sending")
    <3>1. upload' = upload /\ download' = download
      BY <2>2, Views DEF Phase, Inv, LossesAreHarmless, TypeOK, upload, download
    <3> QED
      BY <2>1, <3>1, Stutter
  <2>3. CASE phase["source"] = "Offered" /\ fail("source", "file")
    BY <2>1, <2>3, SourceEnds DEF fail
  <2>4. CASE phase["source"] # "Offered"
    BY <1>6, <2>1, <2>4, Stutter DEF ReceiveAccept, upload, download
  <2> QED
    BY <1>6, <2>2, <2>3, <2>4 DEF ReceiveAccept
<1>7. CASE ~dismissed["source"] /\ ReceiveAck
  BY <1>7, Stutter DEF ReceiveAck, Inv, LossesAreHarmless, TypeOK, upload, download
<1>8. CASE ~dismissed["source"] /\ ReceiveComplete /\ Incoming("source").kind = "Complete"
  <2>1. written' = written /\ intact' = intact
    BY <1>8 DEF ReceiveComplete, Inv, LossesAreHarmless, TypeOK
  <2>2. phase["sink"] = "Complete"
    BY <1>2, <1>8 DEF Inv, Answers
  <2>3. CASE phase["source"] \in {"Sending", "Offered"}
    BY <1>8, <2>1, <2>2, <2>3, SourceEnds DEF ReceiveComplete, Phase
  <2>4. CASE phase["source"] \notin {"Sending", "Offered"}
    BY <1>8, <2>1, <2>4, Stutter DEF ReceiveComplete, upload, download
  <2> QED
    BY <2>3, <2>4
<1> QED
  BY <1>3, <1>4, <1>5, <1>6, <1>7, <1>8 DEF Receive

\* What the sink reads is a step of the delivery for it, or none.
LEMMA SinkReadsOn ==
  ASSUME Inv, Receive("sink")
  PROVE  [D!Next]_(D!vars)
<1>1. /\ toSink \in Seq(Frames) /\ toSink # <<>>
  BY DEF Inv, LossesAreHarmless, TypeOK, Receive, Other
<1>2. Incoming("sink") \in Under(toSink)
  BY <1>1, Reading DEF Incoming, Other
<1>3. Incoming("sink").kind \in {"Offer", "Chunk", "Finish", "Cancel"}
  BY <1>2 DEF Inv, Offers
<1>4. CASE dismissed["sink"]
  BY <1>4, Stutter DEF Receive, ReceiveRetired, upload, download
<1>5. CASE ~dismissed["sink"] /\ ReceiveCancel("sink")
  <2>1. phase' = [phase EXCEPT !["sink"] = IF Active("sink") THEN "Cancelled" ELSE @]
    BY <1>5 DEF ReceiveCancel, Phase, Inv, LossesAreHarmless, TypeOK
  <2> QED
    BY <1>5, <2>1, ActiveEnds DEF ReceiveCancel
<1>6. CASE ~dismissed["sink"] /\ ReceiveOffer
  <2>1. upload' = upload /\ download' = download
    BY <1>6, Views DEF ReceiveOffer, Phase, Inv, LossesAreHarmless, TypeOK, upload, download
  <2> QED
    BY <1>6, <2>1, Stutter DEF ReceiveOffer
<1>7. CASE ~dismissed["sink"] /\ ReceiveChunk
  <2>1. CASE phase["sink"] # "Receiving"
    BY <1>7, <2>1, Stutter DEF ReceiveChunk, upload, download
  <2>2. CASE /\ phase["sink"] = "Receiving"
             /\ \E why \in {"order", "disk"} : fail("sink", why)
             /\ UNCHANGED <<position, intact>>
    BY <2>2, SinkEnds DEF fail
  <2>3. CASE /\ phase["sink"] = "Receiving"
             /\ written # Size
             /\ position' = [position EXCEPT !["sink"] = @ + 1]
             /\ intact' = (intact /\ Incoming("sink").good)
             /\ UNCHANGED phase
    <3>1. written' = written + 1 /\ written < Size
      BY <2>3, SizeAssumption DEF Inv, LossesAreHarmless, TypeOK
    <3>2. intact' \in {intact, FALSE}
      BY <2>3 DEF Inv, LossesAreHarmless, TypeOK
    <3>3. download = "open" /\ upload' = upload /\ download' = download
      BY <2>3, Views DEF upload, download
    <3> QED
      BY <3>1, <3>2, <3>3 DEF D!Next, D!Store, upload, download
  <2> QED
    BY <1>7, <2>1, <2>2, <2>3 DEF ReceiveChunk
<1>8. CASE ~dismissed["sink"] /\ ReceiveFinish
  <2>1. written' = written /\ intact' = intact
    BY <1>8 DEF ReceiveFinish
  <2>2. CASE phase["sink"] = "Receiving" /\ \E why \in {"integrity", "disk"} : fail("sink", why)
    BY <2>1, <2>2, SinkEnds DEF fail
  <2>3. CASE phase["sink"] = "Receiving" /\ written = Size /\ intact /\ Phase("sink", "Complete")
    <3>1. phase'["sink"] = "Complete" /\ phase'["source"] = phase["source"]
      BY <2>3 DEF Phase, Inv, LossesAreHarmless, TypeOK
    <3>2. download = "open" /\ download' = "done" /\ upload' = upload
      BY <2>3, <3>1, Views DEF upload, download
    <3> QED
      BY <2>1, <2>3, <3>2 DEF D!Next, D!Save, upload, download
  <2>4. CASE phase' = phase
    BY <2>1, <2>4, Stutter DEF upload, download
  <2> QED
    BY <1>8, <2>2, <2>3, <2>4 DEF ReceiveFinish
<1> QED
  BY <1>3, <1>4, <1>5, <1>6, <1>7, <1>8 DEF Receive

\* Every step is a step of the delivery, or the users do not notice it.
LEMMA DeliveryStep == Inv /\ [Next]_vars => [D!Next]_(D!vars)
<1> SUFFICES ASSUME Inv, [Next]_vars
             PROVE  [D!Next]_(D!vars)
  OBVIOUS
<1>1. CASE Establish \/ Modify \/ SendOffer \/ SendChunks \/ SendFinish
  BY <1>1, Stutter DEF Establish, Modify, SendOffer, SendChunks, SendFinish, upload, download
<1>2. ASSUME NEW e \in Ends, dismiss(e) \/ SendReply(e) \/ Ignore(e)
      PROVE  [D!Next]_(D!vars)
  BY <1>2, Stutter DEF dismiss, SendReply, Ignore, upload, download
<1>3. CASE accept
  <2>1. phase'["sink"] = "Receiving" /\ phase'["source"] = phase["source"]
    BY <1>3 DEF accept, Inv, LossesAreHarmless, TypeOK
  <2>2. download = "asked" /\ download' = "open" /\ upload' = upload
    BY <1>3, <2>1, Views DEF accept, upload, download
  <2> QED
    BY <1>3, <2>2 DEF accept, D!Next, D!Accept, upload, download
<1>4. CASE Hash
  <2>1. CASE phase' = [phase EXCEPT !["source"] = "Offered"]
    <3>1. upload' = upload /\ download' = download
      BY <1>4, <2>1, Views DEF Hash, Inv, LossesAreHarmless, TypeOK, upload, download
    <3> QED
      BY <1>4, <3>1, Stutter DEF Hash
  <2>2. CASE fail("source", "file")
    BY <1>4, <2>2, SourceEnds DEF Hash, fail
  <2> QED
    BY <1>4, <2>1, <2>2 DEF Hash
<1>5. CASE ReadFails
  BY <1>5, SourceEnds DEF ReadFails, fail
<1>6. ASSUME NEW e \in Ends, LinkOpened(e) \/ LinkLost(e) \/ LinkDropped(e)
      PROVE  [D!Next]_(D!vars)
  <2>1. phase' = phase \/ phase' = [phase EXCEPT ![e] = Reoffered(e)]
    BY <1>6 DEF LinkOpened, LinkLost, LinkDropped, LinkRemoved, setPeerConnected
  <2>2. upload' = upload /\ download' = download
    BY <2>1, Views DEF Reoffered, Inv, LossesAreHarmless, TypeOK, upload, download
  <2>3. written' = written /\ intact' = intact
    BY <1>6 DEF LinkOpened, LinkLost, LinkDropped, LinkRemoved
  <2> QED
    BY <2>2, <2>3, Stutter
<1>7. ASSUME NEW e \in Ends, cancel(e)
      PROVE  [D!Next]_(D!vars)
  BY <1>7, ActiveEnds DEF cancel
<1>8. ASSUME NEW e \in Ends, removePeer(e) \/ clear(e)
      PROVE  [D!Next]_(D!vars)
  BY <1>8, ActiveEnds DEF removePeer, clear
<1>9. ASSUME NEW e \in Ends, Receive(e)
      PROVE  [D!Next]_(D!vars)
  BY <1>9, SourceReadsOn, SinkReadsOn
<1>10. CASE UNCHANGED vars
  BY <1>10, Stutter DEF vars, upload, download
<1> QED
  BY <1>1, <1>2, <1>3, <1>4, <1>5, <1>6, <1>7, <1>8, <1>9, <1>10 DEF Next

\* The two ends, whatever the link does, give the users what the abstract
\* delivery promises: the upload is done only after the download was saved,
\* the download is saved only when it is whole, and what has ended stays so.
THEOREM TransferIsDelivery == Spec => TransferImplementsDelivery
<1>1. Init => D!Init
  BY Views DEF Init, D!Init
<1>2. Inv /\ [Next]_vars => [D!Next]_(D!vars)
  BY DeliveryStep
<1> QED
  BY <1>1, <1>2, Invariance, PTL DEF Spec, D!Spec, TransferImplementsDelivery

=============================================================================
