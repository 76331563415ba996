# A verification development of UniMRCP and its xfyun plugins

The repository holds UniMRCP 1.5.0 (C), a server and a client of the Media
Resource Control Protocol, with two engine plugins on the speech SDK of iflytek
(`xfyun-synth`, `xfyun-recog`). A client sets up a session by SIP or RTSP, opens
control channels in it (a synthesizer, a recognizer, a verifier, a recorder) and
sends requests on them; plugins do the work, and audio flows through a media
engine. This directory holds TLA+ modules translated from that code, the
configurations that model-check them with TLC, and proofs that TLAPS checks.

Paths below are relative to `src/unimrcp-1.5.0/`. `src/unimrcp-deps-1.5.0` and
`plugins/third-party` are third-party code and are not looked into.

Contents: 1 inventory; 2 modules and code; 3 runs; 4 fairness and deadlock;
5 what the code does that its text does not say; 6 proofs; 7 what is left out;
8 plan.

## 1. Inventory

### Tasks and how they interact

The server is a handful of tasks, one thread each, that send each other messages
through queues and never call each other's handlers:

```
 SIP / RTSP agent ──offer, control, terminate──▶  server task  ──▶ plugin tasks
 (sofia-sip, RTSP)  ◀──────── answer ──────────   (sessions,   ◀──  (demo-synth,
                                                   state            xfyun-..., ...)
 MRCPv2 connection ◀── add/modify/remove ──────    machines)          │ no lock
   agent           ──── requests, removed ────▶        │              ▼
                                                       └──────▶  media engine
                                                       ◀──────   (10 ms ticks)
```

A handler runs to its end before its task takes the next message. The exception
to this simplicity is the channel of a plugin: the plugin's task writes it while
the media engine, every 10 ms, calls `read` or `write` on the stream of the same
channel, and nothing locks it.

### Components

| Component | State it keeps | Operations | Hard, and what makes it correct |
|---|---|---|---|
| Server session, `libs/mrcp-server/src/mrcp_server_session.c` | `state`, `active_request` and `request_queue`, `subrequest_count`, arrays of channels and terminations with waiting marks, the current and the last offer and answer | offer, control request, termination; the answers of the agent, the media engine and the engines | Some ten kinds of answers arrive in any order; some are matched by a mark, some only counted; the handler that takes the count to zero goes on from inside; an answer dispatches the next request from inside. *The count is exact, an answer is whole, what is granted is served, every request ends, nothing is left behind.* |
| Synthesizer state machine, `libs/mrcp-engine/src/mrcp_synth_state_machine.c` | state, `active_request`, `speaker`, queue of pending SPEAKs, `is_pending`, `properties` | seven requests with their responses, SPEECH-MARKER, SPEAK-COMPLETE, deactivation | The engine ends a speech while a request is on its way to it; a pending SPEAK is started from an event; a response dispatches from inside. *One answer each, at most one SPEAK in progress, no pending SPEAK forgotten, a STOP stops, the session ends.* |
| Demo synthesizer, `plugins/demo-synth/src/demo_synth_engine.c` | `speak_request`, `stop_response`, `paused` | SPEAK, STOP, PAUSE, RESUME, ..., the read of the stream | Two threads without a lock; responses leave before the state is written. *Nothing is spoken that the server does not know of.* |
| Recognizer state machine, `libs/mrcp-engine/src/mrcp_recog_state_machine.c` | as for the synthesizer, with the recognition kept after its end for GET-RESULT | requests, responses, START-OF-INPUT, RECOGNITION-COMPLETE, deactivation | The recognition ends while its STOP is on its way; the flag of a pending RECOGNIZE outlives it. *What an answer refers to is there, no pending RECOGNIZE is forgotten, one answer each.* |
| Demo recognizer, `plugins/demo-recog`; activity detector, `libs/mpf/src/mpf_activity_detector.c` | `recog_request`, `stop_response`, `timers_started`; state and duration | RECOGNIZE, STOP, START-INPUT-TIMERS, ..., the write of a frame | As for the demo synthesizer; the detector is never reset. *Every recognition ends.* |
| xfyun recognizer, `plugins/xfyun-recog` | the same, and a session of the recognition service | the same, with blocking calls of the service's library | Both threads end the service's session; an error path answers twice. *No session of the service is lost open.* |
| Client session, `libs/mrcp-client/src/mrcp_client_session.c` | `state`, `status`, `active_request` and queue, `subrequest_count`, channels with waiting marks | update, add and remove a channel, control, terminate, discover; answers of the connection agent, media engine and SIP agent; disconnects | The mirror image of the server session, and any step may be crossed by the end of the dialog. *The count is exact, answers come in order and once, nothing refers to a session that is over.* |
| SIP client agent, `modules/mrcp-sofiasip/src/mrcp_sofiasip_client_agent.c` | the handle of the dialog, its states, a mutex | offer, bye, callbacks of sofia | The client's task and sofia's thread share the handle. |
| MRCPv2 transport, `libs/mrcpv2-transport/src` | connections with the table of their channels and counts, channels that wait for a connection, request, inactivity and termination timers, receive streams | accept, add, modify and remove channels, send, receive, time out, disconnect | A channel is announced before its connection is; connections are shared and outlive channels and the other way round; a late answer after a timeout ends the reading of the stream. *A connection lives as long as it is used, a channel has one home, a request is answered once, orphans are told.* |
| Timer queue, `libs/apr-toolkit/src/apt_timer_queue.c`; poller task, `apt_poller_task.c` | a ring sorted by `scheduled_time`, `elapsed_time`, the reset flag | set, kill, advance, timeout; the loop | Unsigned times are rescheduled; callbacks change the ring while it is walked. *The ring mirrors what was asked for; timers fire, in time.* |
| RTCP timers, `libs/mpf/src/mpf_rtp_stream.c`, `mpf_engine.c` | a transmission and a reception timer per stream | enable, disable, report | They share the queue of the media engine, which drives it differently. |
| Cyclic queue, `apt_cyclic_queue.c` | a ring of pointers that grows | create, push, pop, clear, is empty | Full and empty look the same from `head` and `tail`; growth unrolls the ring. *It is a first-in first-out queue.* |
| Verifier and recorder state machines and plugins | a verification session or a record | likewise | Likewise, without a queue. |
| xfyun synthesizer | `speak_request`, `audio_buffer` | likewise, with blocking calls of the service | One task synthesises for all sessions. |
| Server, `mrcp_server.c` | table of sessions, `shutdown_requested`, engines | start, take off line, shut down | Shutdown waits for sessions that must end by themselves; engines must be closed once. |
| Engine interface and factory, `mrcp_engine_iface.c`, `mrcp_engine_impl.c` | `is_open`, the number of channels | open and close of engines and channels | `is_open` says what was asked for and not what happened. |
| Tasks, `apt_task.c` and the consumer task | task state, pending starts and terminations of children | start, terminate, off line, on line | The state is read again after the unlock; parents wait for children. |
| Text streams, headers, tables, lists, pollset, log | sequential data | parse, generate | Segmented input in the message parser. |
| Other signaling, `modules/mrcp-unirtsp`, the SIP server agent, `libs/uni-rtsp` | dialogs; RTSP connections, sessions and timers | offer and answer, conversions of SDP | Driven by an external SIP library; RTSP pipelines requests. |
| Media, `libs/mpf` | contexts, terminations, topology, jitter buffer, RTP stream, media buffer | messages of the server, 10 ms ticks | Reordered and late packets, clock skew, wrap-around of sequence numbers. |
| Applications, `platforms` | configuration, demo clients, `libasr-client` | load, run | Blocking calls over asynchronous callbacks. |

`PROJECT.json` lists these components with their status, and under `hazards` what
is hard to test in each, at its line, with the properties that watch it. A hazard
that no property watches says why: most often the code does go wrong there, in the
models too, and section 5 says how.

## 2. Modules and code

| Module | Models | Lines of behaviour |
|---|---|---|
| `FifoQueue` | abstract: what users of the cyclic queue are promised | `apt_cyclic_queue.h` |
| `CyclicQueue` | the ring in C's representation: slots from 0, growth by a half, `head` and `tail` | `apt_cyclic_queue.c` |
| `MrcpMessages` | requests, responses and events by what the handlers read | `mrcp_start_line.h`, headers |
| `SignalingQueue` | one request in progress, the others wait, the answer dispatches the next | `mrcp_server_session.c`, the queue |
| `SessionRequests` | the session as the state machine of one channel sees it, and its client | `mrcp_server_session.c`, one channel |
| `SynthStateMachine` | every handler of the synthesizer state machine | `mrcp_synth_state_machine.c` |
| `DemoSynthEngine` | one channel of the plugin: its task and the media engine's read | `demo_synth_engine.c` |
| `SynthService` | abstract: what a synthesizer channel promises its client | `mrcp_start_line.h` |
| `SynthChannel` | composition of client, session, state machine and plugin; its properties | |
| `ServerSession` | a whole session with any number of channels and media slots, its client and the tasks that answer it | `mrcp_server_session.c` |
| `MCServerSession` | the sets of offers its runs use | |
| `Ordered` | a set of numbers as an increasing sequence | |
| `RecogStateMachine` | every handler of the recognizer state machine | `mrcp_recog_state_machine.c` |
| `ActivityDetector` | speech and silence from the loudness of frames | `mpf_activity_detector.c` |
| `DemoRecogEngine` | one channel of the plugin: its task and the media engine's write | `demo_recog_engine.c` |
| `XfyunRecogEngine` | the same for the plugin made from it, with the sessions of the recognition service | `xfyun_recog_engine.c` |
| `RecogService` | abstract: what a recognizer channel promises its client | `mrcp_start_line.h` |
| `RecogChannel` | composition of client, session, state machine and either plugin; its properties | |
| `TimerQueue` | the ring of timers, in unsigned arithmetic of `Width` bits | `apt_timer_queue.c` |
| `PollerTimers` | the loop of the poller task that drives a timer queue | `apt_poller_task.c` |
| `RtcpTimers`, `MCRtcpTimers` | the media engine that drives another, for the reports of RTP streams | `mpf_engine.c`, `mpf_rtp_stream.c` |
| `SofiaClientAgent` | the dialog of a client session: the client's task and sofia's thread | `mrcp_sofiasip_client_agent.c` |
| `ClientSession` | a whole client session, its application and the tasks that answer it | `mrcp_client_session.c` |
| `ClientService` | abstract: what an application is promised | `mrcp_application.h` |
| `MrcpConnection` | connections and channels as both agents keep them, and TCP between the agents (external) | `mrcp_connection.c` |
| `ClientConnection` | the client's connection agent | `mrcp_client_connection.c` |
| `ServerConnection` | the server's connection agent | `mrcp_server_connection.c` |
| `MrcpTransport` | composition of the two agents, TCP and the sessions that use them; its properties | |
| `CyclicQueueProofs`, `SynthChannelProofs`, `RecogChannelProofs`, `ServerSessionProofs`, `ClientSessionProofs`, `MrcpTransportProofs`, `PollerTimersProofs` | theorems about the module of the name, with its refinement where it has one | |
| `QueueLemmas` | lemmas about queues of messages and their ids, which the proofs of both channels use | |

Composition: `SynthChannel` extends `SynthStateMachine`, which extends
`SessionRequests`, and takes `DemoSynthEngine` by `INSTANCE`; `RecogChannel`
likewise with `RecogStateMachine` and `XfyunRecogEngine`, which extends
`DemoRecogEngine` and that `ActivityDetector`; `SessionRequests` and
`ServerSession` both take `SignalingQueue`. `ClientSession` extends
`SofiaClientAgent`. `PollerTimers` and `RtcpTimers` extend `TimerQueue`.
`MrcpTransport` extends both connection modules.
`ServerSession` abstracts the state machine to "answers at once, or has the engine
answer, and may be busy afterwards"; `SynthChannel` and `RecogChannel` abstract the
session to one open channel; `ClientSession` abstracts the connection agent to its
answers; `MrcpTransport` abstracts each session to offer, requests one at a time,
and end.

Conventions.

* One action is one handler, from the message it takes to its last statement.
  Two things split a handler. *A nested dispatch*: an answer that is sent to the
  client dispatches the next queued request before it returns
  (`dispatching`, and `deferred` for the SPEAK that `synth_response_stop` starts
  after its answer). *Going on*: a session handler that takes the count of
  sub-requests to zero goes on to the next phase from inside (`Continues`). In
  both cases nothing else of the server task happens in between (`Waiting`), as
  in the code; the plugin's threads do run in between.
* The two threads of the plugin are cut at every write another thread can see:
  `SpeakAccepted` sends the response and `SpeakStored` stores the request,
  because that is the order of lines 307 and 308; the read of the stream sends
  the answer to a STOP and then clears the channel (`StopAnswered`,
  `StopCleared`), announces the end of a speech and forgets it (`SpeechEnds`,
  `SpeechCleared`). The recognizers are cut in the same way at the write of a frame,
  and the xfyun plugin also between the beginning of a session of the service and
  the moment it stores the request, and between the three steps in which either
  thread ends a session: look at `session_id`, end the session, forget it. No run
  and no theorem takes two of these steps for one. What is lost between them is
  said where it is lost: `ClearsAnother` is the state in which a read, or a write,
  is about to clear a STOP that it has not answered.
* sofia's thread and the client's task are cut where a mutex is released:
  `SessionTerminate` lets go of the dialog's handle, `TellEnd` and
  `DialogTerminated` are what follows without the mutex.
* A timer of the toolkit is a number of ticks in a ring. Where a module is about
  something else (`MrcpTransport`) a timer is a flag that says it runs, and its
  expiry an action that may happen at any time while it does.
* TCP is two sequences and the state of two ends: what is sent arrives in order; a
  close is seen after what was sent before it, unless unread data turns it into a
  reset; the network may break a connection.
* Message queues between tasks are first-in first-out sequences. A request is
  taken from the network at the point where the server task takes it.
* Client, connection agent, media engine and SIP are modelled by what the code
  under study receives from them. In `ServerSession` they answer every
  sub-request, once, in any order (`TasksAnswer`).
* A client may send what the protocol lets it send: control requests only on
  channels it was granted, a new offer only after a first one was agreed to,
  nothing after it ended the session. `Queueing` says whether it sends a SPEAK
  before the last one is over.
* Null pointers that the code follows are modelled as `Crash`, after which no
  thread moves.
* Operators marked `mutant` in a comment are wrong on purpose. `PROJECT.json`
  pairs each property of a passing run with one of them: put in the place of the
  operator it varies, it makes the property fail. They take no part in any
  specification.

Constants that select behaviour:

| Constant | Meaning |
|---|---|
| `MaxElements` | bound: pointers that pile up in the ring |
| `MaxRequests` | bound: requests a client sends (ids `1 .. MaxRequests` in `SynthChannel`) |
| `Methods` | the methods the client uses |
| `Queueing` | may a SPEAK be sent before the last one is over? |
| `CodecMayBeLost` | may the engine refuse a SPEAK, the stream having no codec? |
| `Offers` | the offers a client chooses from |
| `EngineMayBeFull`, `OpenMayFail` | may a plugin have no channel left, may it fail to open one? |
| `Pipelining` | may a RECOGNIZE be sent before the last one is over? |
| `SdkMayFail` | may the recognition service refuse a session? |
| `SpeechTimeout`, `SilenceTimeout`, `NoInputTimeout` | the detector's timeouts, in frames |
| `MaxLoudFrames` | bound: loud frames |
| `Width`, `Threshold` | bits of a time, the elapsed time from which the ring is rescheduled |
| `Timeouts`, `TicksPerMs` | the timeouts asked for, in milliseconds, and the clock's resolution |
| `MaxHandling`, `MaxWakeups`, `MaxAge` | bounds: ticks that handlers take, wakeups by descriptors before a timeout, age of a timer |
| `TxInterval`, `RxInterval` | the two intervals of RTCP |
| `Channels`, `Media`, `ContainerSize` | a client session's channels, those with audio, the messages in a container for the media engine |
| `MaxPending` | bound: requests an application has outstanding |
| `MaxLinks`, `MaxBreaks` | bounds: connections ever made, connections the network breaks |
| `OfferNew`, `ForceNew`, `MaxSharedUse` | when connections are shared: `offer-new-connection`, `force-new-connection`, `max-shared-use-count` |
| `RequestTimeout`, `InactivityTimeout`, `TerminationTimeout` | which timeouts of the transport are configured |

## 3. Runs

Nine runs pass; three show what section 5 says of them.

**`queue`** (`CyclicQueue`, 1,089 distinct states). Is the ring a first-in
first-out queue? Two pointers, two slots at first, up to four elements: the ring
grows from 2 to 3 and from 3 to 4 slots, each from every position of `head`, and
wraps after each growth. Growth does not depend on the size otherwise, and the
theorems of section 6 remove the bound. `RingInv` relates `head`, `tail` and the
count; `FifoRefinement` is the refinement of `FifoQueue`.

**`synth_channel`** (390,644 states). Does a channel keep its word to a client
that does everything? Four requests of all eight methods, SPEAKs queued behind
SPEAKs, selective STOPs, barge-in with and without kill, the end of the session
at any time, and the plugin's threads fully interleaved. Four requests are enough
for a speech in progress, a pending one behind it, a request that races with the
end of the first, and one that finds the result. Checked: `SpeakerState` and
`NoOrphanedSpeak`, which relate fields written in different handlers;
`ServiceRefinement`, that the client sees `SynthService` (one answer each, never
two SPEAKs in progress, nothing after COMPLETE); `ReportIsAwaited`, that the
machine never reports a deactivation the session does not count. The engine
refuses no SPEAK here, because refusals break these promises (section 5).

**`synth_careful`** (337,624 states). What holds for a client that sends no SPEAK
before the last one is over? It uses all eight methods, the engine may refuse a
SPEAK, and the plugin's threads are interleaved as they are in `synth_channel`.
`MachineKnowsEngine`: until a null pointer is followed, the request on whose answer
the session waits is the one at the engine, and a settled channel speaks nothing but
what the machine believes to be in progress, so that nothing is spoken which no STOP
would reach. `StopSilences`: when a STOP is answered, every SPEAK sent before it is
over. Under fairness `EveryRequestAnswered` and `SessionEnds`, with two exceptions
that are real (section 5) and part of the formulas: a crash, and a STOP that a read
clears (`ClearsAnother`). A SPEAK that a read clears is not one: it is lost to the
client, but it was answered, and a STOP of it is answered too.

**`recog_channel`** (1,245,694 states; the longest run, two minutes). The same
question for a recognizer. Four requests, pipelined, of RECOGNIZE, STOP, GET-RESULT
and SET-PARAMS, on either plugin, with a caller who is silent, speaks and stops
speaking, and the media engine between any two steps of the plugin's task. One frame
of each timeout and a loud frame give every transition of the detector that starts
or ends a recognition. `RecognitionInv` is what the handlers rely on: state and
pointer agree (`RecogState`), the recognition that a STOP at the engine refers to
stays (`StopHasRecognition`), the queue is not left behind (`NoOrphanedRecognize`).
`ServiceRefinement` is the refinement of `RecogService`: one answer each, PENDING
only behind another RECOGNIZE, never two in progress, nothing after COMPLETE. The
service of the xfyun plugin does not fail here; that is for the next run, and what
the two together do is in section 5.

**`recog_careful`** (178,680 states). One RECOGNIZE at a time, with
START-INPUT-TIMERS and DEFINE-GRAMMAR, streams without a codec and a service that
refuses sessions. `ServiceRefinement` holds here too, although a RECOGNIZE whose
session could not be begun is answered twice by the plugin. `SdkSessionKept`: no
session of the service but the one on record is open, and once the channel has
settled the one on record has not been ended; both threads begin, end and forget
sessions in any order of their steps. Under fairness `EveryRequestAnswered` and
`SessionEnds`, except where a write clears a STOP. That recognitions end does not
hold: `recog_begin_fails`.

**`session`** (282,104 states). Four requests of any kind, pipelined or not; offers
that add, modify and close channels and slots, that have more and fewer media than
before, with known, unknown and unplugged resources, identical re-offers; engines
that are full or fail to open; answers in any order. `CountExact`: the count is the
number of answers to come. `AnswerComplete`: an answer of status OK describes every
medium of its offer. `GrantedIsServed`: as long as no offer has been refused, it
agrees only to channels whose engine is there and open. `SessionLeavesNothing`: when
the session's memory is given back, no task holds a channel, a termination or an
engine of it, and none will answer it. `EveryRequestEnds`, under fairness, but for a
control request on a channel that a refused offer left behind (`Unserved`). Four
requests give an offer, a different one on what it left behind, a request on what
that one granted, and the end.

**`client_session`** (385,820 states). Two channels, one with audio, three
requests of which two may be outstanding, in any order the application likes; the
server may refuse, end the dialog or lose its connection between any two steps.
`CountExact` as for the server; `OffersAreAskedFor`: an offer goes out exactly when
the application's request needs one, whole, and not before everything it describes
is there; `NothingOutlivesSession`: when the application hears that its session is
terminated, and may destroy it, no task refers to it; `Serves`, the refinement of
`ClientService`: one answer each, in order, none after the end; under fairness
`ActiveIsAnswered`. `NothingOutlivesSession` excepts one notice, of a BYE of the
server, which sofia's thread tells without the mutex (section 5).

**`poller_timers`** (179,048 states). Two timers of one timeout, three
milliseconds of two ticks, as all timers of the client's connection agent have
one; times of 5 bits that are rescheduled from 5 on, so that reschedules and
wrap-around are near; up to four wakeups; handlers that take a tick.
`RingMirrorsTimers`: the ring holds what was set, in order, each once. `FiresInTime`
bounds how early and how late a timer fires by what the code rounds off.
`TimersFire`, under fairness.

**`transport`** (589,189 states). Two sessions, each with a channel, that may share
a connection or not, two requests, one connection that breaks, all three timers,
closes by either peer at any time. Each channel makes at most one connection, so
that two links are no restriction. `NothingIsLeftOver`: the count of a connection
is that of its channels, it is destroyed when and only when nothing uses it
(`ConnectionsAreOwned`), and no timer runs without its owner (`TimersHaveOwners`);
`OneHome`: a channel of the server waits for a connection or has one, from the
offer until its removal; `AnsweredOnce`: a session waits for one response exactly
while a request of its is active, however the server, the timer and disconnects
race; `OrphansAreTold`: who is left on a closed connection has been told or will
be; `RequestIsAnswered`, by the timer if by nobody else. With two requests per
channel (3.7 million states) the invariants hold too, and 7 million states of
three channels show no violation.

**`rtcp_reports`**, **`client_pipelined`** and **`recog_begin_fails`** expect a
violation: section 5.

Between them the passing runs fire every action of every module they check.

## 4. Fairness and deadlock

`SynthChannel!FairSpec` asks for weak fairness of the server task, of the
plugin's task and of the media engine: the first two take the next message of
their queue as long as there is one, and the third reads every stream each 10 ms
whatever else happens. The end of a speech is one outcome of a read, so that it
happens at some time unless the speech is paused; a speech of finite length is
all that this assumes. `ServerSession!FairSpec` asks for weak fairness of the
server task and of the answers of the other tasks. No fairness is asked of a
client: it need not send anything, and it need not end its session.

`RecogChannel!FairSpec` is that of `SynthChannel`, with the write of a frame in the
place of the read: frames come every 10 ms, and a frame may be silent for ever,
which is why a recognition has a timeout. `ClientSession!FairSpec` asks for weak
fairness of the client's task, of the agents that answer it and of sofia's thread.
`PollerTimers!FairSpec` asks it of the steps of the loop and of time; a wakeup by a
descriptor need not happen. `RtcpTimers!FairSpec` asks it of the media engine's
ticks and of the walk over the timers that are due.
`MrcpTransport!FairSpec` asks it of the request timers alone: a timer that is not
killed expires. Nothing makes the server answer, the network deliver or a peer
close, so that `RequestIsAnswered` rests on nothing else.

The runs of channels, sessions and the transport say `CHECK_DEADLOCK FALSE`,
because these systems may really stop: the client has sent all it will, or the
session is over. In `poller_timers` a task without timers waits for a
descriptor, of which there are only `MaxWakeups`. The other runs check for
deadlock.

## 5. What the code does that its text does not say

Three disagreements are the subject of a run.

| Run, property | What happens |
|---|---|
| `rtcp_reports`, `ReportsAreSent` | The removal of the last timer sets the reset flag of the queue (`apt_timer_queue.c:227`), which makes every advance return (83) until `apt_timer_queue_timeout_get` clears it (129). The media engine only advances (`mpf_engine.c:417`). Once the last RTP stream is gone, no stream sends a report again. |
| `client_pipelined`, `AllAreCancelled` | When a session is broken, `mrcp_app_failure_message_raise` answers the active request and returns without taking the next one off the queue (`mrcp_client_session.c:528`). What is behind it, a SESSION-TERMINATE above all, is neither cancelled nor carried out. |
| `recog_begin_fails`, `RecognitionCompletes` | The xfyun plugin answers IN-PROGRESS (`xfyun_recog_engine.c:344`) before it begins a session of the service. If that fails it returns (353) without storing the request, so that no frame is ever listened to and no event follows, against `mrcp_start_line.h:36`; and the caller sends the same response once more (412). |

Six more were demonstrated by runs of their own, which are not kept, since their
definitions are. Each can be seen again with the property alone in a
configuration like those beside it, `CodecMayBeLost = FALSE` and the values given.

| Property | What happens | Values |
|---|---|---|
| `SynthChannel!NoCrash` | A speech ends while BARGE-IN-OCCURRED (or PAUSE, RESUME) is at the engine. SPEAK-COMPLETE clears `speaker`; the handler of the answer follows it (`mrcp_synth_state_machine.c:342`, also 273 and 308). Only a STOP at the engine is looked for. | 2 requests of SPEAK, BARGE-IN-OCCURRED; `Queueing = FALSE` |
| `SynthChannel!OwedIsActive` | SPEAK-COMPLETE starts a pending SPEAK while another request is at the engine: `active_request` is overwritten (443, 63), that request's answer is "unexpected" and dropped, and the session takes no further request. | 3 requests of SPEAK, SET-PARAMS; `Queueing = TRUE` |
| `SynthChannel!StopSilences` | A STOP between SPEAK-COMPLETE and the answer to the pending SPEAK finds no speaker and is answered at once (217); the SPEAK goes on. | 3 requests of SPEAK, STOP; `Queueing = TRUE` |
| `SynthChannel!SpeakerIsSpoken` | The plugin answers a STOP and then clears the channel (`demo_synth_engine.c:456`); a SPEAK that its task stores in between is forgotten. | 3 requests of SPEAK, STOP; `Queueing = FALSE` |
| `SynthChannel!SpeechCompletes` | A pending SPEAK that the engine refuses is announced as in progress (149) and never completes. | `FairSpec`, 2 requests of SPEAK; `Queueing = TRUE`, `CodecMayBeLost = TRUE` |
| `ServerSession!ModifiedAtPosition` | After a medium of an unknown resource, positions of channels and of media differ (`mrcp_server_session.c:699`): a re-offer modifies a channel with the description of another medium. | `MCServerSession`, `Offers <- Unknown`, 3 requests |

Others were seen while modelling. They say why the passing runs are restricted as
they are.

*Toolkit.*

* `apt_cyclic_queue_is_empty` returns TRUE for a queue that is not empty, against
  `apt_cyclic_queue.h:70`. `IsEmpty` models it as it is; nothing in the
  repository calls it.
* With handlers that take two ticks (`MaxHandling = 2`) or timeouts of two lengths
  (`Timeouts = {1, 3}`) a timer can be overdue when the ring is rescheduled
  (`apt_timer_queue.c:239`); its unsigned time wraps and `RingMirrorsTimers` fails.
* A timer may fire early, by the part of the wait that was over when it was set
  (`apt_poller_task.c:274`), and wakeups more often than once a millisecond let no
  time pass at all.

*Synthesizer and recognizer.*

* A STOP may be lost. The media engine answers one and then clears the channel
  (`demo_synth_engine.c:456` to 458, `demo_recog_engine.c:472` and
  `xfyun_recog_engine.c:594` to 596). The answer lets the next request come, and a
  STOP, or the one made up for a deactivation, that the plugin's task stores before
  the media engine goes on is cleared without an answer: the session takes no
  further request, or never ends. `EveryRequestAnswered` and `SessionEnds` except
  this and nothing else that these runs can reach; without `ClearsAnother` both fail.
  A BARGE-IN-OCCURRED is lost likewise.
* SPEAKs may be spoken out of order: one that arrives between SPEAK-COMPLETE and
  the answer to the pending SPEAK finds the machine idle and goes to the engine
  at once, ahead of those that are still pending.
* Three pipelined RECOGNIZEs, or a STOP or GET-RESULT while a pending RECOGNIZE is
  being started, leave `is_pending` set: the answer to the next RECOGNIZE is
  swallowed, and the session waits for it for ever. A pending RECOGNIZE that the
  engine refuses orphans those behind it.
* The plugins never reset the detector, so that the second recognition of a channel
  begins in the state in which the first one ended.
* A RECOGNIZE stored between the answer to a STOP and the clearing of the channel
  is forgotten, as a SPEAK is. Its session of the service stays open until the next
  STOP.
* Both threads may end the same session of the service
  (`xfyun_recog_engine.c:489` to 492): the second one ends what the first has ended
  already, or a null pointer. Pipelined RECOGNIZEs lose sessions: when a recognition
  completes while another RECOGNIZE is dispatched, two are at the engine, the second
  one overwrites `session_id` (349), and the first session is never ended.
  `SdkSessionKept` does not hold with `Pipelining = TRUE`.
* When the service cannot begin a session, the xfyun plugin answers the RECOGNIZE
  twice (`xfyun_recog_engine.c:353`, 412). The second answer is dropped as long as
  nothing else is at the engine. For a RECOGNIZE that was pending it is not: the
  first answer only clears `is_pending` and leaves `active_request` set, so that
  the second one is taken for the answer once more and sent to the client, which
  was answered PENDING before. With `Pipelining` and `SdkMayFail` both `TRUE`
  `ServiceRefinement` does not hold; that is why its theorem asks for one of the two
  to be `FALSE`.

*Server session.*

* A re-offer with a medium that no plugin implements, or whose plugin has no channel
  left, is refused, and leaves a channel without an engine. The next offer modifies
  it without looking, and grants it. A request on it finds no engine
  (`mrcp_server_on_message_receive`, 557), gets no answer and blocks the session, even
  its termination: that is `Unserved`, which `EveryRequestEnds` excepts.
* `is_open` (`mrcp_engine_iface.h:54`) stays TRUE when an open fails. The offer is
  refused, but the next one does not open the channel again and may grant it. These
  two are why `GrantedIsServed` is about a session whose offers were all agreed to;
  without `~refused` it does not hold.

*Client session.*

* sofia's thread lets go of the dialog's handle under the mutex and tells the
  client's task after it has released it (`mrcp_sofiasip_client_agent.c:457` to
  474). A termination in between finds no handle and is answered at once, and the
  notice of the server's BYE arrives for a session that the application was told it
  may destroy (`mrcp_application.h:239`). It is the one thing that
  `NothingOutlivesSession` lets come later; without that the property fails.
* After a failed re-offer the session is marked as failed, before and after it is
  registered (1256); an offer that sofia refuses because the handle is gone is never
  answered; a BYE that crosses a re-INVITE is taken for an answer without
  description, so that the request succeeds in a dialog that is over.
* A modification of a channel that fails is reported as a success when another
  sub-request finishes after it.
* A disconnect while a control request is under way is never told to the
  application. A discovery under way when its dialog ends is lost, which
  `CountExact` excepts. A failed OPTIONS follows a null pointer in the SIP agent. An
  update or removal before the first offer, a termination after nothing but a
  discovery, and a request on a channel never added are not answered; the
  application of the model does not make them.

*Transport.*

* An answer that comes after its request has timed out ends the reading
  (`mrcp_client_connection.c:579`) before the stream is scrolled. Everything up to
  it is read again with each receive, what was received behind it is overwritten, and
  every channel of the connection times out until the channel of that answer is
  removed.
* A connection whose peer has closed stays in the client's list without a socket,
  is found by its address by new sessions, and all their requests are cancelled.
* A request that crosses the removal of its channel is not answered by the server.
  Without a request timeout, which the default configuration of the client has
  commented out, its session waits for ever: `RequestTimeout = FALSE` violates
  `RequestIsAnswered`. `TerminationTimeout = FALSE` violates `OrphansAreTold`; the
  default configuration of the server has that timeout.

## 6. Proofs

TLAPS checks the theorems for every value of the constants that satisfies the
assumptions stated beside them (`InitialSizeAssumption`, `EngineAssumption`,
`SessionAssumption`, `PollerAssumption` and so on; each only gives a constant its
type or says that `NULL` is none of the values it stands for the absence of,
except that the ring has at least two slots at first, and that channels are
finitely many). What a theorem asks for beyond that stands in its statement.

| Theorem | Statement | Argument |
|---|---|---|
| `CyclicQueueProofs!RingIsConsistent` | `Spec => [](TypeOK /\ RingInv)` | `TypeOK /\ RingInv` is inductive. One lemma for each operation; `PushResized` needs that the grown ring is larger and that unrolling starts from `head = tail`. |
| `CyclicQueueProofs!RingIsTyped` | `Spec => []TypeOK` | part of the same invariant |
| `CyclicQueueProofs!RingIsFifo` | `Spec => FifoRefinement` | Under the invariant, what lies between `tail` and `head` is a sequence; a push appends to it, in place and resized; a pop takes its head. |
| `SynthChannelProofs!ChannelIsTyped` | `Spec => []TypeOK` | By action, with the conjunct that only a request, never the null pointer, is dispatched; what a STOP leaves of the queue is a queue (`RemainderIsQueue`). |
| `SynthChannelProofs!SpeakerHasState` | `Spec => []SpeakerState` | Inductive together with the types: every handler that writes one of the two fields writes the other to match, or finds a speaker before it writes the state. |
| `SynthChannelProofs!PendingSpeakHasTurn` | no refusals: `Spec => []NoOrphanedSpeak` | Not inductive alone. An answer is matched by its id, and the answer to a BARGE-IN-OCCURRED taken for that of a selective STOP would leave SPEAKs behind; `SortedInv` says that the ids of requests with a list are apart from those of other methods, wherever requests and messages are, and that SPEAKs are answered with IN-PROGRESS. The hypothesis is needed: a pending SPEAK that is refused starts nothing, and leaves those behind it. |
| `SynthChannelProofs!ChannelServes` | no refusals: `Spec => ServiceRefinement` | see below |
| `SynthChannelProofs!MachineFollowsEngine` | one SPEAK at a time: `Spec => []MachineKnowsEngine` | see below |
| `SynthChannelProofs!StopIsSilence` | one SPEAK at a time: `Spec => StopSilences` | see below |
| `SynthChannelProofs!ReportIsCounted` | one SPEAK at a time: `Spec => ReportIsAwaited` | From the same invariant: what a machine that is deactivated still hears from its engine is the answer to the STOP made up for it, or the one answer the session waits for. |
| `RecogChannelProofs!ChannelIsTyped` | `Spec => [](TypeOK /\ DispatchesRequest /\ RecogState /\ TaskInv)` | By action, for both plugins at once; that the state follows the pointer is part of it because the handlers of events rely on it, and where the task of the second plugin is within a request (`TaskInv`) because its steps are. |
| `RecogChannelProofs!StopFindsRecognition` | `Spec => []StopHasRecognition` | Strengthened by: a STOP that the machine waits for is at the engine with nothing to start behind it, and what is pending is a RECOGNIZE. |
| `RecogChannelProofs!HandlersFindRecognition` | no refusals: `Spec => []RecognitionInv` | Simpler than for the synthesizer, since nothing but a STOP and the end of a recognition takes RECOGNIZEs out of the queue. `EngineInv` says that RECOGNIZEs are answered with IN-PROGRESS, that the state of an event goes with its name, and that what the stream answers is a STOP. |
| `RecogChannelProofs!ChannelServes` | a service that does not fail, or one RECOGNIZE at a time: `Spec => ServiceRefinement` | see below |
| `ServerSessionProofs!SessionIsTyped` | `Spec => []TypeOK` | part of the invariant below |
| `ServerSessionProofs!CountIsExact` | `Spec => []CountExact` | see below |
| `ServerSessionProofs!NothingIsLeft` | `Spec => []SessionLeavesNothing` | see below |
| `ServerSessionProofs!AnswersAreComplete` | unknown media last: `Spec => AnswerComplete` | see below |
| `ServerSessionProofs!GrantedAreServed` | `Spec => GrantedIsServed` | see below |
| `MrcpTransportProofs!TransportIsTyped` | `Spec => []TypeOK` | part of the invariant below |
| `MrcpTransportProofs!NothingStaysBehind` | `Spec => []NothingIsLeftOver` | see below |
| `MrcpTransportProofs!ChannelHasHome` | `Spec => []OneHome` | see below |
| `MrcpTransportProofs!RequestIsAnsweredOnce` | `Spec => []AnsweredOnce` | A response is taken only for the active request (`TakenIsActive`), a disconnect and the timer end only active requests, and a session that waits sends nothing. |
| `MrcpTransportProofs!OrphansHear` | with a termination timer: `Spec => []OrphansAreTold` | A dialog comes up only while the server does not know the channel (`IdleIsUnknown`); from then on a connection that loses its socket sets the timer or takes the dialogs of its channels down. `TerminationTimeout` is needed, see section 5. |
| `ClientSessionProofs!CountIsExact` | `Spec => []CountExact` | see below |
| `ClientSessionProofs!OffersAskedFor` | `Spec => []OffersAreAskedFor` | Part of the stages below: while an offer is under way the session is in the stage of an offer, and nothing else of its request is outstanding. |
| `ClientSessionProofs!NothingOutlives` | `Spec => []NothingOutlivesSession` | see below |
| `ClientSessionProofs!SessionServes` | `Spec => Serves` | see below |
| `PollerTimersProofs!RingMirrors` | one timeout, brief handlers: `Spec => []RingMirrorsTimers` | see below |
| `PollerTimersProofs!TimersInTime` | the same: `Spec => FiresInTime` | see below |

*The count of sub-requests.* `CountExact` is not inductive. A handler takes an
answer off the count only if the mark of its channel or slot is set, so the count
stays exact only as long as the marks tell the truth. The invariant is
`TypeOK /\ CountInv /\ MarksInv /\ PhaseInv /\ TargetsInv`:
`CountInv` adds to `CountExact` that what is outstanding is finite; `MarksInv`
says that every outstanding sub-request that is matched by a mark has its mark,
and that no two share one; `PhaseInv` that sub-requests are outstanding only
while the request they serve is in progress, with an offer and an answer if it is
an offer, and in which states the session then is; `TargetsInv` that control
requests, in progress or queued, name channels that are there. The proof has one
lemma for each
kind of answer (the count and the set shrink together) and one for each batch
that is sent (the count is the cardinality of the batch, nothing else being
counted).

*What a session holds.* `NothingIsLeft` adds `HoldInv` to that invariant, in four
parts. `HeldInv`: whatever a task holds of the session is on record, in its arrays
of channels and terminations, or its release is under way. `ReleaseInv`: once the
session is terminating, the release of everything that is held is under way, so
that the last answer leaves nothing. `AddInv`: what is still being added or opened is
on record already, and the session is in the state that waits for it. `GoneInv`: the session is removed only when
nothing is outstanding. No constant is restricted: engines may be full or fail.

*What an answer says.* A session puts the description of a channel at the place of
the channel's id, and finds the channel that a medium modifies by the medium's
position. The two agree (`NumberedInv`) exactly as long as no offer has a medium of
an unknown resource before another one, and without that the theorems are false:
`MCServerSession` with `Offers <- Unknown` has an answer of status OK in which a
medium is absent. `UnknownLast` says it of the constant `Offers`. Then, while an
offer is in progress, each of its media is described or the sub-request that will
describe it is outstanding (`Described`); the count being exact, none is
outstanding when the answer is sent. `GrantedAreServed` follows a channel further and restricts no
constant: engines may be full, fail to open or be missing, and offers may be
anything. Its invariant is `CleanInv`: as long as no offer was refused (`Clean`), what
`AnswersAreComplete` needs holds for any `Offers`, an unknown medium being a refusal;
every channel has an engine (`EnginesInv`); one that the session takes for open is
open, or its engine has yet to answer, and none that is closing is taken for open
(`OpenInv`); what is agreed to has a port while the answer is made, and is open
once the engines were asked (`WantedInv`). A failed open, a full engine and a missing
plugin each refuse the offer they happen in; section 5 has what later offers then find.

*A channel and its service.* `ServiceRefinement` says of a channel that each of its
steps is a step of `SynthService` (or `RecogService`), or none that the client
sees. The client hears of a request by its id alone, so the proof is about where
ids are. A request that was sent is `fresh` (in the session's queue or being
dispatched), `waiting` (pending in the machine, or deferred), in the `pipe` (on its
way to the engine, a STOP that the stream is to answer, or an answer on its way
back), or nowhere. `PlacesInv` says that no id is in two of these places or twice
in one (`FreshInv`, `WaitInv`, `DistinctInv`, `ApartInv`); that the client has heard
nothing of what is fresh and PENDING of what is waiting; that a message in the pipe
is of a SPEAK exactly if the client knows its id as one (`MarkInv`); that an answer
which the machine takes is one the session waits for, or that of a pending SPEAK
(`ActiveInv`); and that the speaker is the one SPEAK which the client believes to be
in progress (`SpeakerInv`). An answer the machine takes then moves one id from the
pipe to the client, which has not been answered; a SPEAK is begun only when there
is no speaker. The invariant is `FutureInv /\ (sm_active => PlacesInv)`: the STOP
made up for a deactivation takes an id that may be in use, so that nothing of this
survives the end of the session, but the client is told nothing from then on. The
refinement step is one lemma per handler; the nested dispatch needs `DeferredInv`,
that nothing is spoken while a SPEAK is about to be started.

The recognizer has events besides the last one, and two threads that may send them.
The proof therefore also follows where events may still come from:
a request on its way to the plugin, held by the plugin's task, or held by its
stream (`SourceIds`). `ClosedInv` says that after RECOGNITION-COMPLETE there is no
event of that recognition in the queue and no source of one; `HeldInv`, that what
the plugin's threads hold was taken from its queue one after the other; `RecogInv`,
that a recognition which is over for the machine has no event or source left, so
that the next one cannot be ended by it. Both plugins are covered, the interleaving
of their threads included, with every step of the second one's task a step of the proof.
When the service may fail, that task still owes an answer to the RECOGNIZE it has
answered already (`TaskAnswers`), so that an id may be in the pipe twice and `OnceInv`
holds only if it may not. What carries the proof then is the client: one that does not
pipeline has one RECOGNIZE, which never waits (`SoleInv`), and it knows of a recognition
in progress unless the answer to it was swallowed (`Known`).

The hypotheses of these theorems are needed. For the synthesizer `~CodecMayBeLost`: a
pending SPEAK that the engine refuses is announced as in progress. For the recognizer
`~SdkMayFail \/ ~Pipelining`: a pending RECOGNIZE whose service fails to begin is answered
IN-PROGRESS by a second answer that nobody expects. Both are matters of section 5.
The number of requests, the methods used, the plugin and the moment at which either
thread reads and writes are not restricted.

*One SPEAK at a time.* `~Queueing` is all that the last three theorems of the synthesizer
ask for: the client sends no SPEAK before the last one is over. It may use all eight
methods, the engine may refuse SPEAKs, and the plugin's task runs at any point of a read
of the stream. `MachineKnowsEngine` relates the speaker of the machine to that of the
plugin, which learn of each other through two queues, and is far from inductive.
`CarefulInv` says that nothing is ever pending (`NothingWaits`);
that the session's and the machine's active requests are the same one (`TurnInv`),
and that it is at exactly one place on its way to the plugin and back, unless a read
has cleared it (`HandedInv`); which methods can be where (`MethodsInv`); that a STOP on
its way has a speaker and a SPEAK has none
(`NeedsInv`); and that what the plugin speaks, or has announced the end of, is the
speaker or the SPEAK whose answer is still in the queue, before any event of it
(`SpokenInv`). The converse, that the speaker is spoken, is not claimed: a SPEAK that the
task stores while a read answers a STOP is forgotten (section 5).
`StopSilences` adds that requests are taken in the order of their ids (`OrderInv`)
and that a SPEAK which the client takes for unfinished is the speaker or still
waiting (`AskedInv`): a SPEAK sent before the STOP is not waiting any more, and the
speaker is stopped with it. A BARGE-IN-OCCURRED, PAUSE or RESUME whose speech ends
meanwhile makes the machine follow the null pointer, after which there is no process:
the invariant is `SafeInv == crashed \/ CarefulInv`. SPEAKs that are queued break
`StopSilences` and `MachineKnowsEngine`. `ReportIsAwaited` is checked with a queue of
SPEAKs by `synth_channel`, and proved for one SPEAK at a time.

*The transport.* `ConnectionsAreOwned` and `OneHome` relate counts, tables and lists
of one agent, and no operation keeps them unless the channel it is for is where its
session believes it. The invariant has three parts. `Sound(a)`, of either agent,
says that access counts are the sizes of tables, that what is listed or used is
alive, that no connection is listed twice, and that a channel is in the table of the
connection it refers to, or, removed, has that connection for itself. `ClientInv`
adds that a session has no connection before the answer, is in a listed one until it
is removed, and waits for its active request; `ServerInv` that a connection is listed
exactly as long as it is open, that its timers run for what is there, that a session
that is ready waits for a connection exactly if it has none, and what
`OrphansAreTold` needs. What an operation does to an agent is a lemma about agents,
used for both sides (`Added`, `Removed`, `LeftToOthers`, `LeftAlone`, `ClosedSound`,
`ChannelDestroyed`); each action has a lemma for the side that takes the step, and a
frame for the other, in which all that matters of TCP is that an end once made is
not unmade (`TcpGoesOn`). The finiteness of `Channels` makes `Cardinality` mean
something; no constant is bounded.

*A client session.* Its sub-requests are messages in four places: the requests and
replies of the connection agent, the containers of the media engine, the dialog of
the SIP agent with what sofia's thread holds, and the queue of the client's task.
The count of the session says how many there are, and the marks in `waiting` which;
neither says where. `CountInv` counts by tag: each mark has exactly one message, and
the messages without a mark are those of the stage. The counts are of positions in
sequences (`CountIn`), with one lemma for each thing a handler does to a queue.
`StageInv` says that whatever is away belongs to the active request and to the stage
in which its handler is (`Preparing`, `Offering`, `Setting`, `Ending`, `Controlling`,
`Exploring`): an answer is therefore never that of an earlier request, whose handler
would go on from a stage that is over. `DialogInv` is about the handle that two
threads share: as long as it is there, no end of it has been told, and an end without
a BYE of the client is told once. `EndingInv` says
of a session that ends that the last thing to come is an answer the session counts,
so that the count reaches zero with it and not before, and `EndsInv` that nothing is
left afterwards but the news of that end.
`SessionServes` adds `BookInv`: the requests in the queue, with the active one, are
those that were asked for and not answered, in order, as long as the session is
whole. Each handler then answers the oldest, or what `ClientService` lets a broken
session answer, or nothing.

*Timers.* `RingMirrorsTimers` is about elapsed time, which the ring keeps in unsigned
numbers of `Width` bits and starts again at some moment. It needs that no timer is
overdue at that moment, which is a matter of the loop of the task and not of the ring.
The invariant (`IInv`, with `LoopInv`) says that outside an advance nothing in the ring
is due, and that a wait under way is no longer than what is left of any timer. A timer
set by a handler counts from the beginning of the wait: a timeout shorter than the wait
breaks the second part, which `OneTimeout` excludes, and what the handlers take is
taken off all timers at the end unless rounding loses it, as `BriefHandlers` ensures.
Section 5 shows that without either the property fails. `TimeoutsFit` says that timeouts fit the width. The
agent of the client's connections, which is what uses this loop with timers, has one
timeout (`request_timeout`). `FiresInTime` relates what the ring takes for the age of
a timer to its age: by how much the two differ is the part of a wait that was over
when it was set, and a millisecond less a tick for each advance since (`AgeInv`). `AgesFit`
only keeps `MaxAge`, the model's bound, out of the way.

Only model-checked: everything about what must eventually happen
(`EveryRequestAnswered`, `SessionEnds`, `EveryRequestEnds`, `ActiveIsAnswered`, `TimersFire`, `RequestIsAnswered`), because
the proof system does not reason about `ENABLED`. Where a proof needs an induction
over data it takes a least counterexample instead, which the provers can do as long
as the definition at hand is not recursive.
Not proved: `SdkSessionKept`, which `recog_careful` checks, and `ReportIsAwaited` for a
client that queues SPEAKs.

## 7. What is left out of the modelled parts

* `SynthChannel`: the text of headers and bodies, the `properties` that SET-PARAMS
  keeps, the audio, SPEECH-MARKER from the engine (no plugin in the repository
  raises it), MRCPv1. Request ids are given out in order by the client. The
  internal STOP of a deactivation takes the id after the speaker's, as in the
  code, although the client may have used it. A selective STOP lists one id, and
  the list of stopped ids in a response is not cut at five.
* `ServerSession`: the branches for MRCPv1 (`mrcp_server_on_message_receive` with
  its RTSP signalling), the association of audio slots with channels by `cmid`
  (all channels are associated), profiles, the cap of a media context at five
  terminations, and what the connection agent does when a client disconnects.
* `RecogChannel`: as for `SynthChannel`; the text of results, with the loop in which
  the xfyun plugin polls for the last one; the level of a frame, which is an input;
  a detector's timeouts are constants, and not headers of the request.
* `ClientSession`: redirections by the server, MRCPv1 over RTSP, events of a channel
  (they are passed on and change nothing), the merging of descriptors, which are
  whole or not.
* `MrcpTransport`: events, messages in parts and malformed ones, the limits of
  buffers, more than one address on either side, the descriptors of the agents'
  pollsets. Requests of sessions are handled when they are made.
* `TimerQueue`: an interrupted poll (`apt_poller_task.c:252`), whose wait is lost.
* Memory: pools are not modelled, except that `removed` marks the point after
  which nothing may refer to the session.

Parts that have no model, and why, are listed with status `not_modelled` in
`PROJECT.json`. For three of them a model would say little: the loader and the
configuration are input and output; conversions of SDP, text messages and headers
are about text; codecs, mixing and detectors of tones are arithmetic on samples.
Third-party code (APR, sofia-sip, expat and the libraries of the plugins) makes up
most of the repository's lines and is modelled only as the code uses it.

## 8. Plan

Done: the cyclic queue; synthesizer, recognizer and their plugins; sessions of both
sides; the transport; timers. Next, in the order in which they add most:

1. `ServerShutdown` and `TaskTree`: graceful shutdown with sessions that come and
   go. Property: engines are closed once and after the last session; under
   fairness, and given that every session ends, the server terminates.
2. The verifier and the recorder, the xfyun synthesizer (one task for all sessions,
   blocking calls of the service).
3. Media: `JitterBuffer` and `MediaBuffer` against a sequence of frames.
4. MRCPv1 in both sessions; `RtspServer`.

Theorems that would add most: `SdkSessionKept`, for one RECOGNIZE at a time;
`ReportIsAwaited` for a client that queues SPEAKs, from the invariant behind
`ChannelServes` and the order of what is in the pipe when the session ends.
