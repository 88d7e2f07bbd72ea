----------------------------- MODULE StreamCapture -----------------------------
(***************************************************************************)
(* One image capture (src/tapo/snapshot.js): over RTSP, ffmpeg reads the   *)
(* stream itself; over the proprietary stream, a media session             *)
(* (src/tapo/stream/mediaSession.js) authenticates, exchanges keys and     *)
(* feeds decrypted packets to ffmpeg until there is enough for a picture.  *)
(*                                                                         *)
(* Four parties run side by side: the camera, the socket and its session,  *)
(* the ffmpeg process, and the capture that waits for them, with a timer   *)
(* on the handshake and one on ffmpeg.  Each action is one event: what its *)
(* handler does, it does at once.  A part is one decrypted chunk of video. *)
(***************************************************************************)
EXTENDS Naturals

CONSTANTS
  Frame,     \* parts that hold a full picture
  Window,    \* parts the camera sends without an acknowledgement
  MaxParts,  \* bound on the parts the camera sends
  Steps      \* re-encodings tried on an image over the size limit

CaptureAssumption ==
  /\ {Frame, Window, MaxParts} \subseteq Nat \ {0}
  /\ Steps \in Nat

VARIABLES
  mode,      \* the capture mode of the camera
  sock,      \* the socket of the session
  phase,     \* what the session expects next
  opening,   \* the promise of start()
  seq,       \* parts received
  acked,     \* parts acknowledged
  fed,       \* parts written to ffmpeg
  ended,     \* its input was ended
  ffmpeg,    \* the process
  output,    \* what it wrote of the image
  shot,      \* the promise of runFfmpeg()
  main,      \* where the capture is
  step,      \* re-encodings done
  result     \* how the capture ended

session == <<sock, phase, opening>>
stream == <<seq, acked, fed, ended>>
process == <<ffmpeg, output, shot>>
capture == <<main, step, result>>
vars == <<mode, session, stream, process, capture>>

Held == {"connecting", "open"}

TypeOK ==
  /\ mode \in {"rtsp", "proprietary"}
  /\ sock \in Held \cup {"none", "closing", "closed"}
  /\ (sock = "none") = (mode = "rtsp")
  /\ phase \in {"auth", "keyexchange", "streaming"}
  /\ opening \in {"none", "pending", "resolved", "rejected"}
  /\ (opening = "resolved") = (phase = "streaming")
  /\ seq \in 0..MaxParts /\ acked \in 0..seq
  /\ fed \in 0..Frame /\ ended \in BOOLEAN
  /\ fed = Frame => ended
  /\ (sock = "closed") => ended
  /\ ffmpeg \in {"running", "killed", "exited"}
  /\ output \in {"none", "partial", "complete"}
  /\ shot \in {"pending", "image", "error"}
  /\ main \in {"opening", "waiting", "encoding", "done"}
  /\ step \in 0..Steps
  /\ result \in {"none", "image", "truncated", "failed", "tooLarge"}
  /\ (main = "done") = (result # "none")

(* ffmpeg is spawned before the session starts, so no part is dropped.     *)
Init ==
  /\ mode \in {"rtsp", "proprietary"}
  /\ IF mode = "rtsp"
     THEN sock = "none" /\ opening = "none" /\ main = "waiting"
     ELSE sock = "connecting" /\ opening = "pending" /\ main = "opening"
  /\ phase = "auth"
  /\ seq = 0 /\ acked = 0 /\ fed = 0 /\ ended = FALSE
  /\ ffmpeg = "running" /\ output = "none" /\ shot = "pending"
  /\ step = 0 /\ result = "none"

---------------------------------------------------------------------------
(* The session.                                                            *)

Close == sock' = IF sock \in Held THEN "closing" ELSE sock

RejectOpening == opening' = IF opening = "pending" THEN "rejected" ELSE opening

OnError ==
  /\ RejectOpening
  /\ Close

(* The 'close' event of the socket ends the input of ffmpeg, whoever       *)
(* closed it.                                                              *)
OnClose ==
  /\ sock' = "closed"
  /\ RejectOpening
  /\ ended' = TRUE
  /\ UNCHANGED <<mode, phase, seq, acked, fed, process, capture>>

SocketClosed == sock = "closing" /\ OnClose
PeerCloses == sock \in Held /\ OnClose

SocketFails ==
  /\ sock \in Held
  /\ OnError
  /\ UNCHANGED <<mode, phase, stream, process, capture>>

Connected ==
  /\ sock = "connecting"
  /\ sock' = "open"
  /\ UNCHANGED <<mode, phase, opening, stream, process, capture>>

(* The first answer is a challenge; the digest of the password answers it. *)
Challenged ==
  /\ sock = "open" /\ phase = "auth"
  /\ phase' = "keyexchange"
  /\ UNCHANGED <<mode, sock, opening, stream, process, capture>>

(* The second one carries the keys: the stream is asked for.               *)
KeysExchanged ==
  /\ sock = "open" /\ phase = "keyexchange"
  /\ phase' = "streaming"
  /\ opening' = "resolved"
  /\ UNCHANGED <<mode, sock, stream, process, capture>>

(* No challenge, a status that is not 200, no usable key, a part that      *)
(* cannot be decrypted, or more bytes than a part may hold.                *)
Unreadable ==
  /\ sock = "open"
  /\ OnError
  /\ UNCHANGED <<mode, phase, stream, process, capture>>

Writable == ~ended /\ ffmpeg = "running"

Acknowledges(n) == n % Window = 0

(* A part of video goes to ffmpeg while it takes any; the last one needed  *)
(* ends its input and closes the session.  The camera stops sending unless *)
(* each window is acknowledged.                                            *)
Part ==
  /\ sock = "open" /\ phase = "streaming"
  /\ seq < MaxParts
  /\ seq - acked < Window
  /\ seq' = seq + 1
  /\ \/ /\ Writable
        /\ fed' = fed + 1
        /\ ended' = (fed + 1 = Frame)
        /\ IF fed + 1 = Frame THEN Close ELSE UNCHANGED sock
     \/ ~Writable /\ UNCHANGED <<fed, ended, sock>>
  /\ acked' = IF sock' = "open" /\ Acknowledges(seq + 1) THEN seq + 1 ELSE acked
  /\ UNCHANGED <<mode, phase, opening, process, capture>>

StartTimesOut ==
  /\ opening = "pending"
  /\ OnError
  /\ UNCHANGED <<mode, phase, stream, process, capture>>

---------------------------------------------------------------------------
(* ffmpeg.                                                                 *)

Decodes ==
  /\ ffmpeg = "running"
  /\ mode = "rtsp" \/ fed > 0
  /\ \/ output = "none" /\ output' = "partial"
     \/ output = "partial" /\ output' = "complete"
  /\ UNCHANGED <<mode, session, stream, ffmpeg, shot, capture>>

(* The bytes are trusted over the exit code.                               *)
OnExit ==
  /\ ffmpeg' = "exited"
  /\ shot' = IF output = "none" THEN "error" ELSE "image"
  /\ UNCHANGED <<mode, session, stream, output, capture>>

Exits == ffmpeg = "running" /\ output # "partial" /\ OnExit
Dies == ffmpeg = "killed" /\ OnExit

KillTimerUntilFed ==
  /\ ffmpeg = "running"
  /\ fed = 0
  /\ ffmpeg' = "killed"
  /\ UNCHANGED <<mode, session, stream, output, shot, capture>>

(* The timer of runFfmpeg, cleared when it settles.                        *)
KillTimer ==
  /\ ffmpeg = "running"
  /\ ffmpeg' = "killed"
  /\ UNCHANGED <<mode, session, stream, output, shot, capture>>

---------------------------------------------------------------------------
(* The capture.                                                            *)

Opened ==
  /\ main = "opening" /\ opening = "resolved"
  /\ main' = "waiting"
  /\ UNCHANGED <<mode, session, stream, process, step, result>>

OpenFailed ==
  /\ main = "opening" /\ opening = "rejected"
  /\ main' = "done" /\ result' = "failed"
  /\ Close
  /\ UNCHANGED <<mode, phase, opening, stream, process, step>>

ShotFailed ==
  /\ main = "waiting" /\ shot = "error"
  /\ main' = "done" /\ result' = "failed"
  /\ Close
  /\ UNCHANGED <<mode, phase, opening, stream, process, step>>

Delivered ==
  /\ main' = "done"
  /\ result' = IF output = "complete" THEN "image" ELSE "truncated"

Shot(fits) ==
  /\ main = "waiting" /\ shot = "image"
  /\ Close
  /\ IF fits THEN Delivered ELSE main' = "encoding" /\ UNCHANGED result
  /\ UNCHANGED <<mode, phase, opening, stream, process, step>>

(* An image over the limit is encoded again, smaller, from memory.         *)
Reencoded(fits) ==
  /\ main = "encoding" /\ step < Steps
  /\ step' = step + 1
  /\ IF fits THEN Delivered ELSE UNCHANGED <<main, result>>
  /\ UNCHANGED <<mode, session, stream, process>>

ReencodingFails ==
  /\ main = "encoding" /\ step < Steps
  /\ main' = "done" /\ result' = "failed"
  /\ UNCHANGED <<mode, session, stream, process, step>>

TooLarge ==
  /\ main = "encoding" /\ step = Steps
  /\ main' = "done" /\ result' = "tooLarge"
  /\ UNCHANGED <<mode, session, stream, process, step>>

Continues ==
  \/ Opened \/ OpenFailed \/ ShotFailed \/ ReencodingFails \/ TooLarge
  \/ \E fits \in BOOLEAN : Shot(fits) \/ Reencoded(fits)

Next ==
  \/ Connected \/ Challenged \/ KeysExchanged \/ Unreadable \/ Part
  \/ PeerCloses \/ SocketFails
  \/ SocketClosed \/ StartTimesOut
  \/ Decodes \/ Exits \/ Dies \/ KillTimer
  \/ Continues

Spec == Init /\ [][Next]_vars

(* Timers fire, a destroyed socket is closed, a killed process dies, and   *)
(* the capture goes on; the camera and ffmpeg owe nothing.                 *)
FairSpec ==
  /\ Spec
  /\ WF_vars(SocketClosed) /\ WF_vars(StartTimesOut)
  /\ WF_vars(KillTimer) /\ WF_vars(Dies) /\ WF_vars(Continues)

---------------------------------------------------------------------------
(* Properties.                                                             *)

(* Every capture ends, whatever the camera and ffmpeg do, and leaves       *)
(* neither a socket nor a process behind.                                  *)
CleansUp ==
  <>[](main = "done" /\ ffmpeg = "exited" /\ sock \in {"none", "closed"})
===============================================================================
