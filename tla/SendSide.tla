------------------------------ MODULE SendSide ------------------------------
(***************************************************************************)
(* What a stream promises of its sending side: the bytes write() and end() *)
(* take wait until a frame carries them, each byte leaves once, the frame  *)
(* that carries the last of an ended stream carries its FIN, nothing       *)
(* leaves after the FIN or once the stream is closed, and bytes are given  *)
(* up only when no frame can carry them any more.                          *)
(***************************************************************************)
EXTENDS Naturals

CONSTANTS
  StreamIds,  \* the streams
  Sizes       \* lengths of the strings the application hands over

VARIABLE
  stream      \* of each stream: the bytes that wait, the bytes sent, whether the
              \* application ended it, whether its handle is closed, and the phase
              \* of the sending side ("none" before it is open, "gone" at the end)

Fresh == [waiting |-> 0, sent |-> 0, ended |-> FALSE, closed |-> FALSE, phase |-> "none"]

Init == stream = [s \in StreamIds |-> Fresh]

Becomes(s, v) == stream' = [stream EXCEPT ![s] = v]

(* A stream that only receives opens with its sending side shut            *)
Open(s) ==
  /\ stream[s].phase = "none"
  /\ \E phase \in {"open", "shut"} : Becomes(s, [stream[s] EXCEPT !.phase = phase])

Write(s) ==
  /\ ~stream[s].ended
  /\ \E n \in Sizes : Becomes(s, [stream[s] EXCEPT !.waiting = @ + n])

End(s) ==
  \E n \in Sizes : Becomes(s, [stream[s] EXCEPT !.waiting = @ + n, !.ended = TRUE])

(* A frame carries n of the bytes that wait, and the FIN with the last     *)
Frame(s, n) ==
  LET fin == stream[s].ended /\ n = stream[s].waiting IN
  /\ stream[s].phase = "open" /\ ~stream[s].closed
  /\ n > 0 \/ fin
  /\ Becomes(s, [stream[s] EXCEPT !.waiting = @ - n, !.sent = @ + n,
                                  !.phase = IF fin THEN "fin" ELSE "open"])

(* The sending side is reset, without the application or the peer closing  *)
(* the stream                                                              *)
Stop(s) ==
  /\ stream[s].phase = "open"
  /\ Becomes(s, [stream[s] EXCEPT !.phase = "shut"])

(* The stream is closed, its sending side reset if it is still open; a     *)
(* reset by the peer leaves that side as it is                             *)
Close(s) ==
  \E phase \in {stream[s].phase, IF stream[s].phase = "open" THEN "shut" ELSE stream[s].phase} :
    Becomes(s, [stream[s] EXCEPT !.ended = TRUE, !.closed = TRUE, !.phase = phase])

(* Both sides of the stream are over                                       *)
Forget(s) ==
  /\ stream[s].phase \in {"fin", "shut"}
  /\ Becomes(s, [stream[s] EXCEPT !.ended = TRUE, !.closed = TRUE, !.phase = "gone"])

(* What waits behind the FIN or a reset is given up                        *)
Discard(s) ==
  /\ stream[s].phase \in {"fin", "shut"}
  /\ Becomes(s, [stream[s] EXCEPT !.waiting = 0, !.ended = TRUE])

Next ==
  \E s \in StreamIds :
    \/ Open(s) \/ Write(s) \/ End(s) \/ Stop(s) \/ Close(s) \/ Forget(s) \/ Discard(s)
    \/ \E n \in 0..stream[s].waiting : Frame(s, n)

Spec == Init /\ [][Next]_stream
============================================================================
