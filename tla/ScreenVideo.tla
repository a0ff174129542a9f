---------------------------- MODULE ScreenVideo ----------------------------
(***************************************************************************)
(* The pictures and the sound of a shared screen, from one sharer to one   *)
(* viewer (client/src/sharing/screen_share_service.cpp).                   *)
(*                                                                         *)
(* A picture is encoded by a worker, cut into pieces, sent over a channel  *)
(* that loses and reorders them, put together again and decoded by another *)
(* worker, while the sharer may stop or start anew and the viewer may turn *)
(* away.  Which stream the viewer looks at is decided in ScreenShare; here *)
(* it turns to any stream ever started.                                    *)
(*                                                                         *)
(* A piece is [stream, seq, part]: the bytes are left out, and with them   *)
(* the checks of their length.                                             *)
(***************************************************************************)
EXTENDS Integers, Sequences, FiniteSets

CONSTANTS
  MaxStreams,   \* streams the sharer starts
  MaxFrames,    \* pictures and sounds sent
  MaxParts,     \* pieces of a picture
  MaxPlayback,  \* sounds the viewer holds before it drops the older half
  MaxTurns      \* times the viewer turns to a stream

ASSUME VideoAssumption ==
  /\ MaxStreams \in Nat /\ MaxFrames \in Nat /\ MaxParts \in Nat
  /\ MaxPlayback \in Nat \ {0} /\ MaxTurns \in Nat

VARIABLES
  videoStream,    \* localStream: the stream that is shared, or 0
  videoStarted,   \* streams started so far
  videoSequence, audioSequence,
  framesSent,
  encoding,       \* the worker's picture, by its stream; 0 if it is idle
  pieces,         \* what is on the channel: set of [kind, stream, seq, part, count]
  watched,        \* remoteStream
  receivedVideo, receivedAudio, displayedVideo,
  assembled,      \* pieces_: set of [seq, part] put together so far
  imageParts,     \* pieces the picture has
  decoding,       \* the worker's picture: [stream, seq, parts], or Nothing
  playback,       \* sounds to play
  screen,         \* what the viewer's user sees: [stream, seq, parts], or Nothing
  heard,          \* the last sound played: [stream, seq], or Silence
  turnsMade

sharerVars == <<videoStream, videoStarted, videoSequence, audioSequence, framesSent, encoding>>
viewerVars == <<watched, receivedVideo, receivedAudio, displayedVideo, assembled, imageParts,
                decoding, playback, screen, heard, turnsMade>>
videoVars  == <<sharerVars, pieces, viewerVars>>

Nothing == [stream |-> 0, seq |-> 0, parts |-> {}]
Silence == [stream |-> 0, seq |-> 0]

-----------------------------------------------------------------------------
(* The sharer.                                                             *)

startStream ==
  /\ videoStarted < MaxStreams
  /\ videoStarted' = videoStarted + 1
  /\ videoStream' = videoStarted + 1
  /\ videoSequence' = 0 /\ audioSequence' = 0
  /\ UNCHANGED <<framesSent, encoding, pieces, viewerVars>>

stopStream ==
  /\ videoStream # 0
  /\ videoStream' = 0
  /\ UNCHANGED <<videoStarted, videoSequence, audioSequence, framesSent, encoding, pieces, viewerVars>>

\* captureFrame: one picture at a time goes to the worker.
captureFrame ==
  /\ videoStream # 0 /\ encoding = 0
  /\ encoding' = videoStream
  /\ UNCHANGED <<videoStream, videoStarted, videoSequence, audioSequence, framesSent, pieces, viewerVars>>

\* Faulty: the picture of a stream that ended goes out with the next one.
current_Any(stream) == videoStream # 0

current(stream) == videoStream = stream

\* The worker is done: the picture is sent, unless its stream has ended in the
\* meantime or it came out empty or too large.  The channel may refuse pieces:
\* what follows a refused one is not tried.
FrameEncoded ==
  /\ encoding # 0
  /\ encoding' = 0
  /\ \/ /\ current(encoding)
        /\ framesSent < MaxFrames /\ framesSent' = framesSent + 1
        /\ videoSequence' = videoSequence + 1
        /\ \E count \in 1..MaxParts : \E taken \in 0..count :
             pieces' = pieces \cup {[kind |-> "video", stream |-> videoStream, of |-> encoding,
                                     seq |-> videoSequence + 1, part |-> i, count |-> count] : i \in 1..taken}
     \/ UNCHANGED <<videoSequence, framesSent, pieces>>
  /\ UNCHANGED <<videoStream, videoStarted, audioSequence, viewerVars>>

\* encodeAudio
encodeAudio ==
  /\ videoStream # 0
  /\ framesSent < MaxFrames /\ framesSent' = framesSent + 1
  /\ audioSequence' = audioSequence + 1
  /\ pieces' = pieces \cup {[kind |-> "audio", stream |-> videoStream, of |-> videoStream,
                             seq |-> audioSequence + 1, part |-> 1, count |-> 1]}
  /\ UNCHANGED <<videoStream, videoStarted, videoSequence, encoding, viewerVars>>
-----------------------------------------------------------------------------
(* The viewer.                                                             *)

\* clearRemote: what a worker decodes just now is not stopped.
clearRemote ==
  /\ receivedVideo' = 0 /\ receivedAudio' = 0 /\ displayedVideo' = 0
  /\ assembled' = {} /\ imageParts' = 0
  /\ playback' = <<>>
  /\ screen' = Nothing /\ heard' = Silence

\* The viewer turns to another stream, or away from all.
turnTo(stream) ==
  /\ stream # watched
  /\ turnsMade < MaxTurns /\ turnsMade' = turnsMade + 1
  /\ watched' = stream
  /\ clearRemote
  /\ UNCHANGED <<sharerVars, pieces, decoding>>

\* Faulty: sounds are played as they come.
inOrder_Any(m) == TRUE

inOrder(m) == m.seq > receivedAudio

\* A sound is decoded and put behind those that wait; of too many, the newer
\* half is kept.  One that cannot be decoded counts as received all the same.
receiveAudio(m) ==
  /\ m \in pieces /\ m.kind = "audio"
  /\ pieces' = pieces \ {m}
  /\ IF m.stream = watched /\ inOrder(m)
     THEN LET all == Append(playback, [stream |-> m.of, seq |-> m.seq]) IN
          /\ receivedAudio' = m.seq
          /\ \/ playback' = IF Len(all) > MaxPlayback
                            THEN SubSeq(all, Len(all) - (MaxPlayback \div 2) + 1, Len(all)) ELSE all
             \/ UNCHANGED playback
     ELSE UNCHANGED <<receivedAudio, playback>>
  /\ UNCHANGED <<sharerVars, watched, receivedVideo, displayedVideo, assembled, imageParts,
                 decoding, screen, heard, turnsMade>>

\* maintain: the output takes what it has room for.
Play ==
  /\ playback # <<>>
  /\ heard' = Head(playback)
  /\ playback' = Tail(playback)
  /\ UNCHANGED <<sharerVars, pieces, watched, receivedVideo, receivedAudio, displayedVideo,
                 assembled, imageParts, decoding, screen, turnsMade>>

\* A newer picture pushes out the one that is not complete yet.
kept(m) == IF m.seq > receivedVideo THEN {} ELSE assembled

\* A complete picture goes to the worker; while that one is busy, it is dropped.
receiveVideo(m) ==
  LET all == kept(m) \cup {[of |-> m.of, seq |-> m.seq, part |-> m.part]} IN
  /\ m \in pieces /\ m.kind = "video"
  /\ pieces' = pieces \ {m}
  /\ IF m.stream = watched /\ m.seq >= receivedVideo /\ m.seq > displayedVideo
     THEN /\ receivedVideo' = m.seq
          /\ assembled' = all
          /\ imageParts' = m.count
          /\ decoding' = IF Cardinality(all) = m.count /\ decoding = Nothing
                         THEN [stream |-> watched, seq |-> m.seq, parts |-> all]
                         ELSE decoding
     ELSE UNCHANGED <<receivedVideo, assembled, imageParts, decoding>>
  /\ UNCHANGED <<sharerVars, watched, receivedAudio, displayedVideo, playback, screen, heard, turnsMade>>

\* Faulty: a picture is shown although the viewer has turned to another stream.
stillWatched_Any(job) == watched # 0

\* The decoded picture is of the stream that is watched now, and newer than the
\* one on the screen.
stillWatched(job) == watched = job.stream /\ job.seq > displayedVideo

\* The worker is done; a picture it could not read is dropped.
FrameDecoded ==
  /\ decoding # Nothing
  /\ decoding' = Nothing
  /\ \/ stillWatched(decoding) /\ screen' = decoding /\ displayedVideo' = decoding.seq
     \/ UNCHANGED <<screen, displayedVideo>>
  /\ UNCHANGED <<sharerVars, pieces, watched, receivedVideo, receivedAudio, assembled, imageParts,
                 playback, heard, turnsMade>>

VideoInit ==
  /\ videoStream = 0 /\ videoStarted = 0 /\ videoSequence = 0 /\ audioSequence = 0
  /\ framesSent = 0 /\ encoding = 0
  /\ pieces = {}
  /\ watched = 0 /\ receivedVideo = 0 /\ receivedAudio = 0 /\ displayedVideo = 0
  /\ assembled = {} /\ imageParts = 0
  /\ decoding = Nothing
  /\ playback = <<>>
  /\ screen = Nothing /\ heard = Silence
  /\ turnsMade = 0

VideoNext ==
  \/ startStream \/ stopStream \/ captureFrame \/ FrameEncoded \/ encodeAudio
  \/ \E stream \in 0..videoStarted : turnTo(stream)
  \/ \E m \in pieces : receiveAudio(m) \/ receiveVideo(m)
  \/ Play
  \/ FrameDecoded

VideoSpec == VideoInit /\ [][VideoNext]_videoVars

-----------------------------------------------------------------------------
(* Properties.                                                             *)

\* A picture of one frame of the stream that is watched, with all its pieces.
Whole(picture) ==
  /\ picture.stream = watched
  /\ \A part \in picture.parts : part.of = picture.stream /\ part.seq = picture.seq
  /\ {part.part : part \in picture.parts} = 1..Cardinality(picture.parts)

\* What the user sees is one whole picture of the stream that is watched, never
\* a mixture of two and never a picture of a stream the user has left, however
\* long the workers took (captureFrame, receive).
ScreenIsWhole == screen # Nothing => Whole(screen)

\* Pictures and sounds of a stream never go back while it is watched, although
\* the channel reorders their pieces (receive).
StreamNeverGoesBack ==
  [][/\ (screen # Nothing /\ screen' # screen /\ screen' # Nothing) => screen'.seq > screen.seq
     /\ (heard # Silence /\ heard' # heard /\ heard' # Silence) =>
          heard'.stream = watched' /\ heard'.seq > heard.seq]_videoVars

\* Both: the user sees whole pictures of the stream that is watched, each later
\* than the one before, and hears its sounds in their order.
PicturesAreTrue == []ScreenIsWhole /\ StreamNeverGoesBack
=============================================================================
