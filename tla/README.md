# LgVideoChatDemo in TLA+

A verification project for `src/LgVideoChatDemo`, a Windows program with which users call each other
over video and voice. One program plays every part: any instance may run the *access control server*,
which keeps the accounts and relays call signalling, and every instance is a client that can call and
be called. Opus, the WebRTC detector and echo canceller, OpenSSL and jsoncpp are third-party code kept
in the repository - most of its lines - and are not modelled; neither is OpenCV.

## 1. Inventory

| Component (files) | State it keeps | Operations | What is hard |
|---|---|---|---|
| Access control server thread (`AccessControlServer.cpp` 77-552) | thread handle, end event, `sockmng` (vector of connections), `ghEvents[6]`, `NumEvents`, `ssl[10]` | start, stop, accept, read one message, close | two lists that must agree; fixed arrays; a stop before the event exists; restart |
| Call signalling (`ContactList.cpp`, `NotifyCall.cpp`, `LgVideoChatDemo.cpp`, call cases of the two `RecvHandler`s) | `devStatus`, `callMsg`, the client's input buffer, GUI message queue | call, accept, deny, hang up, relay | two threads on `devStatus`; pointers into a reused buffer; overlapping notifications; late answers |
| Voice session (`VoipVoice.cpp`, `VoipNetwork.cpp`) | `g_lock`, `VoipRunning`, three threads, three end events, `CriticalSection` | `VoipVoiceStart`, `VoipVoiceStop` from two threads | joins; an exception inside the critical section; per-thread events |
| Jitter buffer (`FixedSizeQueue.h`) | `start_index_`, `end_index_`, `num_queued_`, slots | `push`, `pop` | wrap-around; full against empty |
| Accounts (`AccessControlServer.cpp` 553-779, 916-1062) | `controlDevices`, login attempts, timers | register, log in, reset and change password | a timer callback against the server's thread; boundaries of the attempt count |
| Two-factor authentication (`TwoFactorAuth.cpp`) | the token, one start time | send, check | state shared by all users; expiry |
| Account file (`filemanager.cpp`) | `data.dat` | load, store | rewritten in place; stop after a failed start |
| Access control client thread (`AccessControlClient.cpp`, `Login.cpp`) | socket, end event, thread, `devStatus`, `hwndLogin`, `hwndCreateRegister`, message queue | connect, start, stop, log in and out, receive | an end event created by the thread; join against messages sent to windows; two threads on `devStatus` |
| Video server and client (`VideoServer.cpp`, `VideoClient.cpp`, `TcpSendRecv.cpp`) | listener, one accepted socket, thread handles, framing state, camera and voice session | start, stop, accept, refuse, echo, send and receive images | handles of threads that have ended; partial and blocked writes; an accept that fails unseen; one clean-up for many exits |
| Voice activity smoothing (`litevad.cpp`, `VoipVoice.cpp` 700-716) | three counters, a flag, the last result posted | process one frame, post and show its result | thresholds and order of its checks; a static that survives the session |
| Camera, display, windows, logging, wave files, time utilities | - | device, file and layout work | none that a model would show |

How they interact: the GUI thread starts and joins all other threads. The client's thread talks to the
GUI with posted messages whose parameters are pointers, and shares `devStatus` with it. A call goes
GUI -> access control server -> the other user's client thread -> its GUI; once accepted, the callee's
GUI starts the video server, the caller's GUI connects a video client to it, and each end starts a voice
session - the caller from the GUI thread, the callee from the video server's thread.

What makes each component correct: the server's loop serves the connection whose event fired and only
closes connections of clients that closed; a call is neither lost nor shown twice and video never starts
without both users having asked for it; the jitter buffer is a FIFO and a session leaves no thread behind; an
account survives a restart and a token belongs to one user; a stopped thread really ends.
`PROJECT.json` lists the hazards, each at its line, with the properties that cover it.

## 2. Modules

| Module | Models | Extends / instantiates |
|---|---|---|
| `ThreadLife` | *abstract*: a thread that is started, ends by itself or is stopped | - |
| `AcServerLoop` | the server's thread and its connections, start to stop | community modules; instantiates `ThreadLife` |
| `MCAcServerLoop` | its symmetry set | `AcServerLoop` |
| `AcServerLoopProofs` | inductive invariant and theorems | `AcServerLoop`, `TLAPS` |
| `QueueSize` | the number of slots, shared by the ring and the session | - |
| `BoundedFifo` | *abstract*: what the jitter buffer promises | - |
| `FixedSizeQueue` | the ring, and `ImplementsFifo` | `QueueSize`; instantiates `BoundedFifo` |
| `FixedSizeQueueProofs` | the ring implements the FIFO for every size | `FixedSizeQueue`, `TLAPS` |
| `VoipVoice` | a voice session: two callers, three threads, the shared queue | `QueueSize`; instantiates `FixedSizeQueue` and `BoundedFifo` |
| `VoipVoiceProofs` | inductive invariant in two layers, theorems | `VoipVoice`, `TLAPS` |
| `LiteVad` | voice activity decisions and the text shown of them | - |
| `LiteVadProofs` | inductive invariants and theorems | `LiteVad`, `TLAPS` |
| `ImageLengths` | the limits of the video connection | - |
| `ImageChannel` | *abstract*: what a video connection promises, with no bytes in it | - |
| `ImageStream` | one direction of the connection, byte by byte | `ImageLengths`; instantiates `ImageChannel` |
| `VideoServer` | the video server's thread, its start and stop, its callers | `ImageLengths`; instantiates `ImageStream`, `ThreadLife` |
| `VideoServerProofs` | inductive invariants, the stream implements the channel | `VideoServer`, `TLAPS` |
| `AcClient` | the access control client's thread and the windows it talks to | instantiates `ThreadLife` |
| `AcClientProofs` | inductive invariant and theorems | `AcClient`, `TLAPS` |
| `CallControl` | call signalling between logged-in users | community modules; instantiates `ThreadLife` |
| `MCCallControl` | its symmetry set | `CallControl` |
| `CallControlProofs` | inductive invariant and theorems | `CallControl`, `TLAPS` |
| `TwoFactorAuth` | the tokens and their shared start time | community modules |
| `Accounts` | the account list, its file, logins, the attempt timer | `TwoFactorAuth` |
| `MCAccounts` | email prefixes, symmetry set | `Accounts` |
| `AccountsProofs` | inductive invariant in three layers, theorems | `Accounts`, `TLAPS` |

### ThreadLife

The access control server, its client and the video server are all started and stopped in the same way: a start does
nothing while there is a handle; the thread creates its own end event; a thread that returns by itself leaves its handle;
a stop signals the event and joins, and one that comes before the event exists waits until the thread returns by itself.
`ThreadLife` says so in two variables, `life` and `waits`, with a stop that is in time as one step. `AcServerLoop`,
`VideoServer` and `AcClient` implement it (`LivesAsThread`, by the mapping `ThreadSeen`), and `CallControl`, whose users each
have a video server, uses it (`ServersLiveAsThreads`). It is an abstraction of safety only: that a stop returns is `StopReturns` and
`JoinEnds`. The client's deadlock between its sent messages and the join is a stop that has not returned, not `waits`.

### AcServerLoop

`gui`, `thread` and `endEvent` are the handles `StartACServer` and `StopACServer` look at; a stop is two
actions, `StopACServer` (signal, begin to wait) and `CleanUpACServer` (the wait is over). `missed` is history: this stop came before there was an end
event to signal. For every other one `StopCanProceed` says that the thread, or the wake-up, always has a step: whatever comes
between the signal and the loop, nothing takes the signal away. `CreateEvents`,
`Listen` and `StartFails` are the thread up to its loop. In the loop one action is one turn: `EndLoop`
(slot 0), `AcceptConn`, `AcceptFails`, `AcceptOverrun` (slot 1), `ServeConn(i)` (slot i). `ghEvents[i]` is
the connection whose handle the slot holds; Winsock's recorded network events are the set `record[c]`,
from which a handle's being signalled follows. `WaitForMultipleObjects` returns the lowest signalled slot:
`Reported`. A write past `ghEvents` or `ssl` is undefined in C++; the model goes to `"corrupt"` and stops
there. `shift` is a history variable: the first position from which an entry was erased under a later one.
A message is only counted here: what it means, and the storing of the accounts at a stop, are the subjects of
`CallControl` and `Accounts`.

The code's two lists do drift apart, and the properties say what holds regardless. Up to `shift` they agree
(`AgreeBelowShift`); beyond it a handle may lead to another connection's entry, but never past the vector
(`DispatchInRange`), never twice (`WaitedOnce`), and never to closing a connection whose client is still
there (`ClosedOnlyByItsClient`). `TableIsOpenSockets` relates the vector to the sockets, across restarts.
The violation run `acs_stale_slot` shows the drift itself: two clients, one disconnect, and the other's
event is no longer waited on (`EveryOpenSocketWaitedOn`, from the comment in the accept branch).

### FixedSizeQueue and BoundedFifo

`pushIndices` and `popIndices` are the class's methods; `push(v)` and `pop` add the caller's copy, which
in the code happens under the same lock. `Contents` reads the ring from its oldest slot and is the
refinement mapping to `BoundedFifo`: the ring loses, repeats and reorders nothing and refuses a frame
only when full. The ring has no run of its own: `FixedSizeQueueProofs` proves this for every size, and
`voip_session` checks it with the two threads that use the ring (`SharedQueueIsFifo`).

### VoipVoice

`VoipVoiceStart` and `VoipVoiceStop` are cut at every point where another thread can run in between: the
lock, the set-up, the three joins. The receiver's pass is `UdpReceives`, `UdpPushes` (enter the critical
section, `push`), `UdpFills` (decode and copy) and `UdpLeaves`; the speaker's is `RenderEnters`,
`RenderPops` per frame, `RenderLeaves`. Failures of the audio client are `RenderFails` outside and
`RenderThrows` inside the critical section. The queue uses the operators of `FixedSizeQueue`, and is a FIFO
of *decoded frames* under both threads, including the slot handed out and not yet filled (`Held`).
`LockIsGivenBack` names the three situations in which it does not hold: `EndSignalLost`,
`SectionAbandoned`, `LockKept`; each is reachable in the code, and for good once reached; apart from them the joins always end.
A socket that could not be bound is not told from one that was; datagrams may arrive at either.

### LiteVad

One `CaptureFrame` is one frame of the microphone thread: the verdict of WebRTC is the input, the operators
`ActiveOf`, `SilenceOf` and `WeightOf` are `litevad_process_frame`, `Begins`, `Continues` and `Ends` the branches of
`litevad_process`, `Reports` the comparison with the static `lastVad` and the main window's handling of the posted
result. `litevad_create` and `litevad_destroy` are a session's beginning and end; `lastVad` and the text survive
them. The session's first frame can therefore post nothing at all, and `TextFollowsSpeech` says that the text is
right all the same. The limits are constants: the run takes those of the code, the theorems any. Times are in frames
of 10 ms and stay at their limit, which nothing but a comparison with it can see.

`DecidedInTime` leaves open what a weight of exactly the limit does, because code and comment disagree on it: the
comment at `litevad.cpp` 68 lets speech go on until the weight is *lower* than 30, the code ends it at 30. The
violation run `lite_vad_end` shows a segment that ends one frame before the comment lets it (`EndsAsDocumented`). The
comment at 64 says that 400 ms of voice begin a segment where the limit beside it is 300; it gives a number and no
property, and the model follows the code.

### ImageStream, ImageChannel and VideoServer

`ImageStream` is a connection in the direction from the caller: `TakesFrame` and the steps of `WriteDataTcp` (`Writes`,
`WouldBlock`, `SendFails`) on one side, `Reads` and the framing variables `Mode`, `InputBuffer`, `InputBytesNeeded` on
the other. Bytes carry their image and place, and move one at a time, so every partial write and partial read is a
behaviour; `retry_count` starts again with every byte taken, as in the code. A camera that has not delivered sends an
image of no bytes, and the receiver then asks `recv` for none and takes the answer for a closed connection.
`ImplementsChannel` maps all this to `ImageChannel`: what is shown are the images that were taken, whole, in order.

`VideoServer` composes that stream with the thread: its two ways out before the loop, which clean nothing up, and the
one clean-up after it; the three kinds of accept (`AcceptConn`, `AcceptEcho`, `AcceptBreaks`), each with a connection
that is gone and whose failure goes unseen (`got`); a second caller refused; the timer slot. `StopVideoServer` and
`Joined` are the GUI's side. `devices` is the camera and the voice session the thread has started. A caller in the
model may stop reading, stop writing, or vanish at any byte. The images the server sends back are only written or
not: the framing of that direction is the same code.

### AcClient

The GUI thread is `IDM_LOGIN`, `IDM_LOGOUT`, `StopACServer`, the windows' actions and `HandlesPosted`; it takes input only
with its queue empty and not while it joins. The client's thread is `pc`, from `starting` to `ended`, with one read
(`Reads`) and its handling (`RecvHandler`) apart, so that the GUI may act in between. A message that is *sent* to a
window holds the thread until the GUI takes messages (`SendReturns`) and a message box until the user closes it.
`forms` says which window handles still name a window: several login windows may be open, and `hwndLogin` names the
last. `held` is the input buffer, which a read without a whole record leaves as it is, to be handled again.

`JoinEnds` names the situations in which the GUI thread does not come back from its join: a stop before the thread
had created its end event, a message sent to a window of the GUI thread - a deadlock - and an open message box.
`StatusNeedsClient` says that the status shown is otherwise that of the client, with `raced` for the answers that
overlap a decision to disconnect.

### CallControl

One action per button and per posted message of the GUI thread (`Call`, `Accept`, `Deny`, `Ignore`,
`PressDeny`; `CreateCallNotification`, `OnStartServer`, `OnConnect`, `OnClientLost`), one per message type in
the server (`RelayRequest`, `RelayAccept`, `RelayReject`) and in the client's thread (`ReceiveRequest`,
`ReceiveAccept`, `ReceiveReject`). `heldFrom` and `heldAddr` are the two fields of the client's input buffer
the GUI reads through the pointers it is posted; `heldAddr` lies behind the end of the shorter messages and
is overwritten only by another acceptance. `heldType` is the third that matters: a read without a whole message
leaves the buffer as it is, and `HandlesAgain` handles what is in it once more, a request by one more window,
an acceptance by a dial if the user has called again meanwhile, a denial by another return to `Connected`.
`Accept` sends two messages because its `case` has no `break`.

The buttons answer `callMsg`, the name of the window opened last, not the name on the window that is pressed.
`accepted` records the latter: `<<v, u>>` is in it when `v` pressed Accept in a window that showed `u`.
`newestOpen` says whether the window opened last is still there, so that `Overtaken(u, k)` is a window with a
newer one, open or closed; accepting in such a one is also recorded in `overtaken`, with the user who is
answered instead. `called` holds who has pressed Call for whom.

The toolbar is left out because it never stops a user: pressing deny enables the call button, opening the
contact list enables the deny button, and with no call both are without other effect; several contact
lists may be open. The video threads appear as far as a call depends on them: a server that is starting,
running or ended (its handle stays), and `stuck`, the GUI thread in a join with a server thread whose
end event did not exist yet. `VideoServerEnds` is any way out of that thread without a stop: its returns before the loop,
and from the loop an image of no bytes, a camera that does not open, a timer that fails.

What holds in spite of the races: a video client runs only at a user who pressed Call and towards one who
pressed Accept in a window with this user's name (`VideoNeedsConsent`). To that there is one exception, which
the property names and the code has: whoever accepts in an `overtaken` window is connected to the user of the newest. And the name on
a window is itself what the input buffer held when the window was opened, which may be that of another message
than the request; so the property adds what is left, that the two users have called each other in one direction
at least (`Acquainted`). At most one video client is opened per press of Call (`OneDialPerCall`), and no call is lost or
shown more often than it was handled (`CallsAreConserved`). What the code does with answers: a call to a user who is logged in is shown
(`CallIsShown`), an acceptance reaches its caller (`AcceptanceArrives`), and an acceptor does not stay
`Callee` (`CalleeIsTransient`). A denial, by contrast, is written back to the denier (`RelayReject`), so a
denied caller stays `Caller`; and since neither end of an established call is `Caller` or `Callee`, the deny
button then stops nothing. The repository says nothing to the contrary, so these are recorded as hazards.

### Accounts and TwoFactorAuth

`Accounts` has one action per account message of the server's `RecvHandler` (`Registration`, `Login`,
`TwoFactorRequest`, `ResetPasswordRequest`, `ReRegPasswordRequest`, `ChangePasswordRequest`), and the points of
the thread's life at which the list is read and stored (`LoadAccounts`, `StartFails`, `ThreadReturns`,
`CleanUpACServer`). An entry of `controlDevices` is what the file keeps (`stored`), the login count (`attempts`,
a C `char` that wraps at `CharHalf`), and the number of timer callbacks still to come (`timers`).
`TwoFactorAuth` holds `tokenMng` and `late`, which is one for all tokens because `start` is.

The program writes `data.dat` in place and does not look whether that worked. `Written` has the three outcomes: the
file is rewritten, it could not be opened and is as it was, or it was opened, and so emptied, and the write failed. The
last leaves what `CrashWhileStoring` leaves, a `Torn` file: a prefix of the accounts, after which one more may stand of which
only some members are whole (`Halves`). It is read all the same, because the parser's result is not looked at; a file that does not
even decode ends the program at its next start, which is `Crash`. A file that cannot be opened for *reading* gives no
accounts at all, or an empty one each time (`Readings`): `getLengthJSON` and `LoadData` open it for every account anew. The
server runs on with what it got and overwrites the file with its next store. A stop after `StartFails` stores a list
that was never read. Each of these is counted in `incidents`. `promised` is what the users have been told, followed up
to the first: until then file, memory and promises are the same (`FileKeepsPromises`), and in every
case no two accounts share an ID or email, but for fields left empty (`AccountsDistinct`).

The timer's callback needs no lock. `ResetLoginAttempt` runs between two messages; inside `Login` it may run
between the load and the store of the count (`lost` in `Counted`: the reset is overwritten) or between the
store and the comparison (`early`: no new timer is started). `RestrictionIsWatched` says that an account still
never stays beyond the limit without a timer, because *every* attempt beyond it starts one. `unwatched` marks
the two exceptions: a count that was beyond the limit when it was registered, and a timer that could not be
started. The count decides nothing else: a right password is accepted whatever it is, as in the code.

`Login` compares emails over the length of the typed one (`EmailPrefixes`), so an attempt may count against
several accounts and ends at the first with a right password or a count beyond the limit. A token goes to the
typed address, and is looked up by receiver, the oldest first (`TokensOnceInOrder`). `entered` ties each
token that admitted somebody to the connection it came over: a connection has an `owner` only by a token that was mailed to that owner's
address and entered over this connection, and no token admits over two (`OwnersAdmitted`). `LastIPAddress` is left out: no decision
depends on it here.

## 3. Runs

| Run | Instance | Question | Size |
|---|---|---|---|
| `acs_loop` | 4 connections, 5 event slots, 4 `ssl` slots, 1 message each | safety of the server's two lists | 714,048 states |
| `acs_served` | 3 connections, 5 slots, fairness | stop returns, and can proceed at each stage; clients below `shift` are served | 416,304 states |
| `acs_stale_slot` | the real 6 and 10 slots | *violation*: every open connection is waited on | 9-step counterexample |
| `voip_session` | 3 slots, 5 datagrams, 2 sessions, 2 callers | session and shared queue | 174,818 states |
| `lite_vad` | the limits of the code: 30, 30, 70, 30, 100 frames | decisions, segments and the text | 515,694 states |
| `lite_vad_end` | the same limits | *violation*: speech ends when the weight is lower than 30 | counterexample of one segment |
| `video_server` | 2 calls, 2 starts; 2 images of up to 2 bytes, 2 bytes of size, a transport of 2, 1 retry | images whole, nothing left on; stops and writes end, and can proceed; one thread to the rest | 61,031 states |
| `call_three_users` | 3 users, 2 calls or repeated requests | consent, conservation | 82,588 states |
| `call_answered` | 2 users logged in and 1 not, 2 calls or repeated requests, fairness | answers arrive | 52,845 states |
| `accounts_file` | 2 users, a list of 2, 2 connections, 2 tokens, 1 month, 2 incidents | list, file and promises agree; owners and tokens | 372,632 states |
| `accounts_login` | 2 users, limit 1, counts -4 to 3, 2 timers | the attempt count is reset | 17,716 states |
| `ac_client` | 2 starts, 3 reads, 2 login windows | status, late answers; the join ends, and can proceed | 173,304 states |

Bounds. Three connections in three slots are the least with which, after the first closes, a slot's event
and its entry are two *different live* connections; the fourth then reuses a slot or overruns the array, and
a restart is possible with any of them left. `MaxSends` 1 gives every connection a read before, between
and after the others' closes. Five datagrams through a queue of three pass the prefill, fill the queue, drop one and wrap at both
indices; two sessions let frames and threads of one meet the next. Two calls among three users include two callers
of one callee, crossing calls, a chain, and a call repeated to the same callee while the first is still shown.
`MaxCalls` also bounds the requests that are handled again, so that one call and one repeated request are among them; answers are handled again without a bound. Symmetry is
used only in runs without liveness properties.

A transport that holds two bytes, where an image with its size is up to four, blocks in the size and in the data; one retry tells a write
that is repeated from one given up; two images are the least of which the second can be asked for with the rest of
the first. Two calls are one served and one refused, or one after the other; two starts let what a thread left
behind meet the next. Two starts of the client, three answers and two login windows include an answer before,
during and after a logout, and a window whose handle another has taken over.

Two users for a list of two reach the limit, at which the off-by-one of the two comparisons shows; one email is a prefix of the other. Two incidents let
a start that cannot read the file follow a write that tore it. Two tokens
are two of one user, one of them late, or one of each. A limit of 1 in a range up to 3 leaves two counts beyond it and a wrap back
to below it; two timers are one that is lost and one that replaces it.

Deadlock is not checked: users, clients and the network owe nothing, so every
system may come to rest; whether a thread that waits is ever woken is stated by the liveness properties.

Fairness. `AcServerLoop`: weak fairness of the server's thread as a whole - the operating system runs it - and
of the GUI's wake-up from its join; none of the clients and users. `VoipVoice`: weak fairness per thread
and for a caller inside start or stop, and strong fairness of `RenderEnds`: the speaker thread waits on the device
event before its end event, and between two device periods only the latter is signalled. `VideoServer`: weak fairness
of what the thread does without waiting for anybody, of the GUI's wake-up, and of a caller's thread within a write; not
of reading, since the program at the other end may not read - so that writes end is shown of the retries and
not assumed. `AcClient`: weak fairness of the thread's own steps and of the wake-up; none of the
server, of the user who closes a box, or of windows that take a sent message. `CallControl`: weak
fairness per user of the GUI's posted messages, the relay and the client's thread; that the relay serves every user
although it prefers low slots rests on there being finitely many messages, and on the connection being below
`shift`, which is what `ServedBelowShift` says.

## 4. Proofs

TLAPS proves the following for every value of the constants, from the named `ASSUME`s of the modules.

* `AcServerLoopProofs`. `TypeOK` and the invariants above are not inductive: that slots are in range and
  distinct needs to know that every handle ever stored below `NumEvents` belongs to a connection that was accepted, that the
  vector has no duplicates and is exactly the open sockets, and that erasing an entry shifts only later ones. `IInv` collects
  these facts; `Invariance` is `Spec => []IInv` with one step per action. `TypeCorrect`, `DispatchStaysInRange`,
  `HandlesWaitedOnce`, `ListsAgreeBelowShift`, `TableMatchesSockets` and the action property `ClosesOnlyClosedClients` follow.
  `StopsReturn` is one of the three liveness theorems below. `WaitingClientsWake` is the safety half of `ServedBelowShift`: Winsock records an
  event once and clears it when it is enumerated, so that a client waits for ever if its event is taken while something it
  announced is left. `NothingForgotten` says it never is, and the least slot signalled, which the wait returns, is then at most the client's.
  `ServerLivesAsThread` maps the thread to `ThreadLife`.
* `FixedSizeQueueProofs`. The invariant ties the count to the indices; with it, every `push` and `pop` of the
  ring is shown to be an `Offer` or a `Take` of `BoundedFifo` on the mapped contents (`RingImplementsFifo`). The invariant itself,
  `CountMatchesIndices`, is the theorem `CountCorrect`.
* `CallControlProofs`. `VideoNeedsConsent` needs the whole path of an acceptance: every `AcceptCall` on its way, every address
  held in a buffer, and every opening posted to a GUI must already be backed by an entry of `accepted` or `overtaken` and by a
  placed call. `IInv` says so for each place, and that the newest window, while it is open, shows `callMsg` (`NoticeNamed`), which is
  what makes an acceptance there one for the name shown. `Acquaintance`, on top of it, follows the names: whatever message or name is on its
  way to a user is of somebody who has called that user or been called, or the user's own. `ConsentHolds` is the theorem. `CallsConserved` counts the places in the queues that
  hold a call to a user, as finite sets: what is appended adds one place, what is taken from the head leaves a bijection
  between the places before and after (`CountAppend`, `CountTail`), and every step moves a call from one count of `Balanced` to the next; a request handled again adds one to both sides.
  `DialsBounded` needs only `Dialled`: a user who is `Caller` has one press of Call left to dial for. `CalleesDenied` and
  `AcceptancesKept` are the safety halves of `CalleeIsTransient` and `AcceptanceArrives`: a callee's own denial is always on one of its
  two connections, and an acceptance leaves a connection only for the next one or when its receiver is not a caller.
  `RequestsKept` is that of `CallIsShown`: a request leaves its sender's connection for its receiver's, that one for the GUI's queue, and the
  queue only when its window is shown. `AllServersAreThreads` and `NoLifeIsLeftOut` are about the video servers: they do what `ThreadLife` allows, and
  every step that `ThreadLife` allows a thread, or a stop of it, is one of `CallControl`. With `VideoServerProofs!ServerLivesAsThread` this is why
  the calls may be checked with three states of a server instead of the server.
* `VoipVoiceProofs`. Two layers. `Control` says who may be where: a caller in the middle of a start or stop holds
  `g_lock`, threads and events are those of the running session, and `cs` agrees with the places of the receiver and the
  speaker. `NoThreadOutlivesSession` and `ReleasedByItsOwner` need only this. `Frames` rests on it: the ring's arithmetic, the
  slot the receiver holds while it fills it, and that every other queued slot is written. `SharedQueueIsFifo` and
  `PopsAreCovered` follow, for any number of slots, frames and sessions. `ToldToEnd` and `ReceiverHasEvent`, on top of `Control`,
  are what a stop relies on: every thread it has still to join has ended or has its signal (`StopsAreHeard`), but for the
  receiver's, which is lost exactly when the stop precedes the receiver's first step (`EarlyStopsAreLost`). `HangsAreForGood` says that the three
  exceptions of `LockIsGivenBack` are hangs: from each of them `g_lock` stays with its holder whatever the threads do.
  `StopsHaveAStep` and `StopsRunOut` are what single steps contribute to `LockIsGivenBack`: at each join the thread that is waited for has a branch to take,
  but in those situations, and once the speaker has ended `RestOfStop` - datagrams still to arrive and to be handled, threads still to join - is lowered
  by every step of anybody. Before that there is no such number: the speaker may go round its loop, which is what strong fairness is for.
* `LiteVadProofs`. `DecidedInTime`, which is neutral at the limit, follows from the exact bound that is inductive with the types. `SegmentLasts` needs `Approach`: within a segment silence grows
  by at most one per frame and the weight falls by at most one. `TextFollowsSpeech` needs `Shown`: the last
  result tells the text, also between sessions, and within a session it tells whether speech is detected.
* `VideoServerProofs`. The clean-up's flag must be set whenever devices are on (`NothingLeftBehind`), and every announced
  connection is accounted for. `ImagesArriveWhole` is the largest: the bytes in the receiver's buffer followed by those on the
  wire are always the next ones of the stream, starting after the last image shown (`NextIn`, `NextOut`, `After`); from
  this every step of the stream is a `Take`, a `Show`, a `NewConnection` or a stutter of `ImageChannel`. `StopsAreHeard`: no step takes
  the end event's signal away before the thread has looked at it. `AbandonedIsSeen`: devices without a caller always leave the thread a branch
  that may end them, since the slots it waits on follow the kind of the connection. `WritesAreBounded`: (bytes left) x (retries + 1) +
  (retries left) is raised by no step and lowered by every try of the caller's write; `WritesGoOn` leads from each budget to a lower one.
  `AbandonedGoesOn`, of the same kind, leads from devices without a caller to devices that are off or to fewer callers still to come.
  `ServerLivesAsThread` maps thread, start and stop to `ThreadLife`; that the clean-up returns there includes the `VoipVoiceStop` it
  calls, which is the subject of `VoipVoice` and hangs in the situations of `HangsAreForGood`.
* `AcClientProofs`. `Raced` says where a logged-in status without a client can come from; `LateOnce` that a set end event
  leaves at most the answer already read. `JoinsEnd` is one of the liveness theorems,
  `ClientLivesAsThread` the mapping to `ThreadLife`.
* `AccountsProofs`. Three layers, each using the ones before: the list (types, promises, distinct accounts, every count
  beyond the limit watched by a timer or marked), the tokens (their numbers increase and each was mailed to its receiver; the
  first found is the least, which takes the least-number lemma), and the owners of connections, for which every token in `entered` is used up (`OwnerInv`) and
  so cannot be entered over a second one. The promises hold up to the first incident only because each outcome of a store or a start that is not
  the intended one counts as one. The timer argument is per account, through every
  outcome of an attempt: a reset lost, a timer started, not started, or fired early.

Liveness. Three stops are proved to end for every value of the constants: `AcServerLoopProofs!StopsReturn`,
`VideoServerProofs!StopsReturn` and `AcClientProofs!JoinsEnd`. Each cuts the wait into stages (told to end before the loop, told to
end in the loop, ended and to be joined), shows that no step leaves a stage but forwards, and that the step the specification is fair to
leaves it; temporal logic does the rest. What the provers cannot do is to compute `ENABLED`. So the one fact about it, that in each stage the fair step
can be taken, is a hypothesis of these theorems, `[]StopCanProceed` or `[]JoinCanProceed`, and the same formula is an invariant of
the runs `acs_served`, `video_server` (in `ThreadsCanProceed`) and `ac_client`, where TLC evaluates it. `WritesGoOn` and `AbandonedGoesOn` are of
the same kind, with `WriteCanProceed` and `LossCanProceed`, which are parts of `ThreadsCanProceed`.

Only model-checked: the enabledness invariants `StopCanProceed`, `ThreadsCanProceed` and `JoinCanProceed`, and the liveness properties `ServedBelowShift`,
`LockIsGivenBack`, `CallersWritesEnd`, `DevicesFollowCaller`, `CallIsShown`, `AcceptanceArrives` and `CalleeIsTransient`. Their ranks - messages before
this one, frames left to pop, a write's budget - are unbounded, and induction over a temporal formula is out of the provers' reach; what a
single step contributes to them is proved where it is said above. The type invariants of `AcServerLoop`, `CallControl`, `Accounts` and of
the other modules are proved and no longer part of the runs. No module with a theorem uses a RECURSIVE operator.

## 5. Not modelled

* *A whole call*: `CallControl`, `VideoServer`, `VoipVoice` and `AcClient` are not composed. Each takes the steps of the others that
  it depends on as its own choices (a video server that is starting, running or ended; a session started by either thread),
  which is more than the others do: for the video server that is proved (`ServerLivesAsThread`, `NoLifeIsLeftOut`), for the sessions a matter of
  which threads call start and stop. The call messages of the client's `RecvHandler` are in `CallControl`, whose users stay
  logged in; the account messages are in `AcClient`. Both have the reads that find no whole message. A message whose first part is
  handled with the rest of the one before it in the buffer does not occur in either: the program sends each in one TLS record.
* *The camera* is one static object the server's, the client's and the GUI thread open and read without a lock. `VideoServer`
  has the one of them it is about. A camera left open by a failed connect is in no module.
* *The video client's receiving side* uses the framing code of the server, which is modelled; its start, stop and loss are in
  `CallControl`. What the server sends back, echoed bytes included, is only written or not; a close event of the
  listening socket does not occur.
* *Voice sessions*: the socket after a failed codec start is not told from a bound one; `litevad_create` fails only for lack of memory.
* *The contact list and missed calls* are read and shown, and decide nothing. `LastIPAddress` likewise.
* Audio devices, Opus, echo cancellation, TLS, windows and their layout, the JSON reader, wave files and logging are
  devices, formats or third-party code. Of the time utilities only the age of a password matters, and is a month that
  passes or not in `Accounts`. The third-party sources are most of the repository's lines, so the share of all its lines that the
  modules translate is small; of the program's own concurrent code it is most.
