--------------------------- MODULE SofiaClientAgent ---------------------------
(* The SIP side of a client session (mrcp_sofiasip_client_agent.c): what the   *)
(* client's task asks of the dialog and what sofia's own thread calls back.    *)
(* Both work on the dialog's handle under a mutex; the results are messages to *)
(* the client's task.  Redirections (3xx) are left out.                        *)
EXTENDS Sequences

VARIABLE sip          \* sofia_session

NewDialog == [handle  |-> FALSE,      \* nh
              established |-> FALSE,  \* has an INVITE been answered?
              state   |-> "init",     \* nua_state
              invite  |-> "none",     \* the INVITE: asked for, sent
              options |-> FALSE,      \* an OPTIONS is under way
              bye     |-> FALSE,      \* terminate_requested
              ending  |-> "none",     \* the callback of the end: what it has yet to tell, "told"
              told    |-> <<>>]       \* messages on their way to the client's task

DialogStates == {"init", "calling", "ready", "terminated"}
Notices == {"answer", "bare", "refused", "discovered", "event", "terminated"}

DialogType(d) == /\ {d.handle, d.established, d.options, d.bye} \subseteq BOOLEAN
                 /\ d.state \in DialogStates
                 /\ d.invite \in {"none", "asked", "sent"}
                 /\ d.ending \in Notices \cup {"none", "told"}
                 /\ d.told \in Seq(Notices)

Tell(d, notice) == [d EXCEPT !.told = Append(@, notice)]

(* The requests of the client's task; without a handle an offer is refused.    *)
Created(d)  == [d EXCEPT !.handle = TRUE]
Offered(d)  == IF d.handle THEN [d EXCEPT !.invite = "asked"] ELSE d
Explored(d) == IF d.handle THEN [d EXCEPT !.options = TRUE] ELSE d
ByeSent(d)  == IF d.handle THEN [d EXCEPT !.bye = TRUE]
                           ELSE Tell([d EXCEPT !.bye = FALSE], "terminated")

(* The callbacks in sofia's thread.  An INVITE is answered with the media of   *)
(* the server or refused; the refusal of the first one ends the dialog.        *)
Calling == /\ sip.invite = "asked"
           /\ sip' = [sip EXCEPT !.invite = "sent", !.state = "calling"]

SessionReady(notice) ==
  sip' = Tell([sip EXCEPT !.invite = "none", !.state = "ready", !.established = TRUE], notice)

ResourceDiscover == /\ sip.options
                    /\ sip' = Tell([sip EXCEPT !.options = FALSE], "discovered")

(* mrcp_sofia_on_session_terminate, up to the release of the mutex: the handle *)
(* and all that is under way with it are gone.                                 *)
EndNotice(d, status) == IF d.bye THEN "terminated" ELSE IF d.state = "ready" THEN "event" ELSE status

SessionTerminate(status) ==
  sip' = [sip EXCEPT !.handle = FALSE, !.invite = "none", !.options = FALSE,
                     !.ending = EndNotice(sip, status)]

(* What follows is no longer under the mutex: a BYE that was asked for is      *)
(* answered last, any other end is told first.                                 *)
TellEnd == /\ sip.ending \in Notices
           /\ sip.ending = "terminated" => sip.state = "terminated"
           /\ sip' = Tell([sip EXCEPT !.ending = IF @ = "terminated" THEN "none" ELSE "told"], sip.ending)

DialogTerminated == /\ sip.state # "terminated" /\ sip.ending \in {"terminated", "told"}
                    /\ sip' = [sip EXCEPT !.state = "terminated", !.ending = IF @ = "told" THEN "none" ELSE @]

InviteAnswered == /\ sip.invite = "sent"
                  /\ \/ SessionReady("answer")
                     \/ sip.established /\ SessionReady("refused")
                     \/ ~sip.established /\ SessionTerminate("refused")

ByeAnswered == /\ sip.handle /\ sip.bye
               /\ SessionTerminate("bare")

(* The BYE of the server carries a status of its own, 200.                     *)
ServerBye == /\ sip.handle /\ sip.established
             /\ SessionTerminate("bare")
=============================================================================
