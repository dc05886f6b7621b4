--------------------------- MODULE SSClientChannels ---------------------------
(***************************************************************************)
(* The service channels of SSClient: no order of closes, failed connects,  *)
(* restarts and reused descriptors makes a channel keep a closed socket or *)
(* stop trying to connect, and none but a restart loses an open one.       *)
(***************************************************************************)
EXTENDS SSClientProofs

-----------------------------------------------------------------------------
(* What a step of the client does to its channels, and to the events it    *)
(* holds for them, is one of a few things.                                 *)

(* What may lead to outReconnect: a request can be sent, or could not be.  *)
OutAsked == chan_ready["out"] \/ job.then = "reconnect" \/ pc = "reconnect"

(* Most steps leave sockets and timers alone: at most a partly sent        *)
(* request makes ss_epoll watch the out socket for output.                 *)
Calm ==
  /\ UNCHANGED <<sock, timer>>
  /\ \A f \in Fd :
       \/ file'[f].epoll = file[f].epoll
       \/ f = sock["out"] /\ chan_ready["out"] /\ file'[f].epoll = "out"
  /\ batch' \subseteq batch
  /\ \A c \in Channel : <<"connect", c>> \in batch => <<"connect", c>> \in batch'
  /\ OutAsked' => OutAsked \/ sock["out"] # NoSock
  /\ chan_ready'["in"] => chan_ready["in"] \/ pc = "in"
  /\ pc' = "in" =>
       \/ pc = "in"
       \/ <<"in", sock["in"]>> \in batch /\ <<"in", sock["in"]>> \notin batch'

Reconnects(c) ==
  /\ Reconnect(c)
  /\ \/ batch' = batch /\ ((pc = c /\ CanRecv(c)) \/ (c = "out" /\ pc = "reconnect"))
     \/ <<"hup", sock[c]>> \in batch /\ batch' = batch \ {<<"hup", sock[c]>>}
  /\ pc' \notin {"in", "reconnect"} /\ job'.then = "none"

Connects(c) ==
  /\ ConnectChannel(c)
  /\ <<"connect", c>> \in batch /\ batch' = batch \ {<<"connect", c>>}
  /\ pc' = "next" /\ job' = NoJob

Restarts(c) ==
  /\ \/ ConnectThrows(c)
     \/ ReconnectThrows(c) /\ (sock[c] # NoSock \/ (c = "out" /\ pc = "reconnect"))
  /\ batch' = {} /\ pc' = "next" /\ job' = NoJob

Expires(c) == TimerExpire(c) /\ UNCHANGED <<batch, pc, job>>

ChannelStep ==
  \/ Calm
  \/ EpollWait
  \/ \E c \in Channel : Reconnects(c) \/ Connects(c) \/ Restarts(c) \/ Expires(c)

(* A step that touches neither the channels nor what the loop does next.   *)
LEMMA StillCalm ==
  ASSUME UNCHANGED <<sock, timer, chan_ready, batch, pc, job>>,
         \A f \in Fd : file'[f].epoll = file[f].epoll
  PROVE  Calm
BY DEF Calm, OutAsked

(* The loop goes on with a step that neither reads nor reconnects.         *)
LEMMA GoCalm ==
  ASSUME UNCHANGED <<sock, timer>>, batch' \subseteq batch,
         \A c \in Channel : <<"connect", c>> \in batch => <<"connect", c>> \in batch',
         \A f \in Fd : file'[f].epoll = file[f].epoll,
         chan_ready'["out"] => chan_ready["out"] \/ sock["out"] # NoSock,
         chan_ready'["in"] => chan_ready["in"] \/ pc = "in",
         pc' \notin {"in", "reconnect"},
         job'.then = "reconnect" => job.then = "reconnect" \/ chan_ready["out"]
  PROVE  Calm
BY DEF Calm, OutAsked

(* A recv() takes messages and leaves the rest of the socket as it was.    *)
LEMMA ReceiveKeepsEpoll ==
  ASSUME ChannelTypeOK, NEW c \in Channel, Receive(c)
  PROVE  \A f \in Fd : file'[f].epoll = file[f].epoll
BY DEF Receive, ChannelTypeOK, File

LEMMA EventSteps ==
  ASSUME TypeInv,
         \/ EpollWait
         \/ \E c \in Channel : HupReconnect(c) \/ ConnectFd(c) \/ SockIn(c)
         \/ \E e \in Event : Ignore(e)
  PROVE  ChannelStep
<1> USE DEF TypeInv, TypeOK, Take, Done, Go, NoJob
<1>1. ASSUME NEW c \in Channel, HupReconnect(c) PROVE ChannelStep
  <2>1. sock[c] # NoSock
    BY <1>1, ChannelAssumption DEF HupReconnect, Event, Req
  <2>2. Reconnects(c) \/ Restarts(c)
    BY <1>1, <2>1 DEF HupReconnect, Restart, Reconnects, Restarts
  <2> QED BY <2>2 DEF ChannelStep
<1>2. ASSUME NEW c \in Channel, ConnectFd(c) PROVE ChannelStep
  <2>1. Connects(c) \/ Restarts(c)
    BY <1>2 DEF ConnectFd, Connects, Restarts
  <2> QED BY <2>1 DEF ChannelStep
<1>3. ASSUME NEW c \in Channel, SockIn(c) PROVE ChannelStep
  <2>1. Calm
    BY <1>3 DEF SockIn, Calm, OutAsked, chanVars, Channel
  <2> QED BY <2>1 DEF ChannelStep
<1>4. ASSUME NEW e \in Event, Ignore(e) PROVE ChannelStep
  <2>1. e[1] # "connect" /\ batch' = batch \ {e}
    BY <1>4 DEF Ignore
  <2>2. Calm
    BY <1>4, <2>1, GoCalm DEF Ignore, chanVars
  <2> QED BY <2>2 DEF ChannelStep
<1> QED BY <1>1, <1>2, <1>3, <1>4 DEF ChannelStep

LEMMA RequestSteps ==
  ASSUME TypeInv, Request
  PROVE  ChannelStep
<1> USE DEF TypeInv, TypeOK, ReqEvent, Take, Done, Go, NoJob, Req, ChannelStep
<1>1. CASE ReqEmpty \/ ReqSent
  BY <1>1, GoCalm DEF ReqEmpty, ReqSent, Sending, chanVars
<1>2. CASE ReqUnavailable \/ ReqTooMany \/ ReqSendFails
  BY <1>2, GoCalm
  DEF ReqUnavailable, ReqTooMany, ReqSendFails, Sending, Sendable, ResMsgAdd, chanVars
<1>3. CASE ReqPartlySent
  <2>1. ASSUME NEW f \in Fd
        PROVE  \/ file'[f].epoll = file[f].epoll
               \/ f = sock["out"] /\ chan_ready["out"] /\ file'[f].epoll = "out"
    BY <1>3 DEF ReqPartlySent, Sending, Sendable, ChannelTypeOK, File
  <2> QED BY <1>3, <2>1 DEF ReqPartlySent, Sending, Calm, OutAsked
<1>4. CASE OutReconnect
  <2>1. Reconnects("out") \/ Restarts("out")
    BY <1>4 DEF OutReconnect, ReconnectThen, Restart, Reconnects, Restarts
  <2> QED BY <2>1 DEF Channel
<1> QED BY <1>1, <1>2, <1>3, <1>4 DEF Request

LEMMA InputSteps ==
  ASSUME TypeInv, Input
  PROVE  ChannelStep
<1> USE DEF TypeInv, TypeOK
<1>0. "in" \in Channel /\ "out" \in Channel
  BY DEF Channel
<1>1. ASSUME NEW c \in Channel, pc = c, CanRecv(c),
             NEW step \in {"next", "out", "tail"}, ReconnectThen(c, step)
      PROVE  ChannelStep
  <2>1. Reconnects(c) \/ Restarts(c)
    BY <1>1 DEF ReconnectThen, Restart, Reconnects, Restarts, CanRecv, Go, NoJob
  <2> QED BY <2>1 DEF ChannelStep
<1>2. ASSUME NEW c \in Channel, pc = c, Receive(c), UNCHANGED <<sock, timer, batch>>,
             \A d \in Channel : chan_ready'[d] => chan_ready[d] \/ (d = c /\ sock[d] # NoSock),
             pc' = pc \/ pc' \notin {"in", "reconnect"},
             job'.then = "reconnect" => job.then = "reconnect"
      PROVE  ChannelStep
  <2>1. \A f \in Fd : file'[f].epoll = file[f].epoll
    BY <1>2, ReceiveKeepsEpoll
  <2>2. chan_ready'["in"] => chan_ready["in"] \/ pc = "in"
    BY <1>0, <1>2
  <2>3. chan_ready'["out"] => chan_ready["out"] \/ sock["out"] # NoSock
    BY <1>0, <1>2
  <2>4. Calm
    BY <1>2, <2>1, <2>2, <2>3 DEF Calm, OutAsked
  <2> QED BY <2>4 DEF ChannelStep
<1>3. ASSUME NEW c \in Channel, RecvMore(c) PROVE ChannelStep
  BY <1>2, <1>3 DEF RecvMore, Read, loopVars
<1>4. CASE InNothing \/ OutNothing \/ OutTail
  <2>1. Calm
    BY <1>4, GoCalm DEF InNothing, OutNothing, OutTail, Go, NoJob, chanVars
  <2> QED BY <2>1 DEF ChannelStep
<1>5. CASE In400
  <2>1. pc = "in" /\ sock["in"] # NoSock /\ CanRecv("in")
    BY <1>5 DEF In400, Garbled, Read, CanRecv, ControlInv
  <2>2. CASE Receive("in") /\ Go("next") /\ UNCHANGED <<sock, chan_ready, timer, batch>>
    BY <1>0, <1>2, <2>1, <2>2 DEF Go, NoJob
  <2> QED BY <1>0, <1>1, <1>5, <2>1, <2>2 DEF In400
<1>6. CASE InReg
  <2>1. pc = "in" /\ sock["in"] # NoSock /\ CanRecv("in")
    BY <1>6 DEF InReg, Parses, Read, CanRecv
  <2>2. CASE Rx("in")[1].res = "ok"
    <3>1. \A d \in Channel : chan_ready'[d] => chan_ready[d] \/ (d = "in" /\ sock[d] # NoSock)
      BY <1>6, <2>1, <2>2 DEF InReg, ChannelTypeOK
    <3> QED BY <1>0, <1>2, <1>6, <2>1, <2>2, <3>1 DEF InReg, Go, NoJob
  <2> QED BY <1>0, <1>1, <1>6, <2>1, <2>2 DEF InReg
<1>7. CASE InResult
  <2> DEFINE m == Rx("in")[1]
             store == IF m.id = 0 THEN Go("next") ELSE ResMsgAdd(m.id, m.res, "none")
  <2>1. pc = "in" /\ sock["in"] # NoSock /\ CanRecv("in")
    BY <1>7 DEF InResult, Parses, Read, CanRecv
  <2>2. ASSUME store PROVE pc' \in {"next", "lookup"} /\ job'.then = "none"
    BY <2>2 DEF Go, ResMsgAdd, NoJob
  <2>3. CASE Receive("in") /\ store /\ UNCHANGED <<sock, chan_ready, timer, batch>>
    <3> HIDE DEF store
    <3> QED BY <1>0, <1>2, <2>1, <2>2, <2>3
  <2>4. CASE Reconnect("in") /\ store /\ UNCHANGED batch
    <3> HIDE DEF store
    <3>1. Reconnects("in")
      BY <2>1, <2>2, <2>4 DEF Reconnects
    <3> QED BY <1>0, <3>1 DEF ChannelStep
  <2>5. CASE Restart("in")
    BY <1>0, <1>1, <2>1, <2>5 DEF ReconnectThen
  <2> QED BY <1>7, <2>3, <2>4, <2>5 DEF InResult
<1>8. CASE OutGarbled
  BY <1>0, <1>1, <1>8 DEF OutGarbled, Garbled, Read, CanRecv
<1>9. CASE OutReg
  <2>1. pc = "out" /\ sock["out"] # NoSock /\ CanRecv("out")
    BY <1>9 DEF OutReg, Parses, Read, CanRecv
  <2>2. CASE Rx("out")[1].res \in {"ok", "not_ready"}
    <3>1. \A d \in Channel : chan_ready'[d] => chan_ready[d] \/ (d = "out" /\ sock[d] # NoSock)
      BY <1>9, <2>1, <2>2 DEF OutReg, ChannelTypeOK
    <3> QED BY <1>0, <1>2, <1>9, <2>1, <2>2, <3>1 DEF OutReg, Go, NoJob
  <2> QED BY <1>0, <1>1, <1>9, <2>1, <2>2 DEF OutReg
<1>10. CASE OutAnswer
  <2>1. pc = "out" /\ Receive("out") /\ UNCHANGED <<sock, chan_ready, timer, batch>>
    BY <1>10 DEF OutAnswer, Parses, Read
  <2>2. /\ pc' = pc \/ pc' \notin {"in", "reconnect"}
        /\ job'.then = "reconnect" => job.then = "reconnect"
    BY <1>10, OutAnswerJob DEF NoJob
  <2> QED BY <1>0, <1>2, <2>1, <2>2
<1> QED BY <1>3, <1>4, <1>5, <1>6, <1>7, <1>8, <1>9, <1>10 DEF Input

LEMMA ResultSteps ==
  ASSUME TypeInv, Result
  PROVE  ChannelStep
<1> USE DEF TypeInv, TypeOK, Go, NoJob, chanVars
<1>1. UNCHANGED <<chanVars, batch>>
  BY DEF Result, ResLookup, ResWrite, ResPublish, ReqMsgDelStamp, ReqMsgDelUnlink, Wake
<1>2. /\ pc' = "in" => FALSE
      /\ OutAsked' => OutAsked
  <2>1. CASE ResLookup \/ ResWrite \/ ResPublish \/ ReqMsgDelStamp \/ Wake
    BY <2>1
    DEF ResLookup, ResWrite, ResPublish, ReqMsgDelStamp, Wake, AfterResMsgAdd, OutAsked
  <2>2. CASE ReqMsgDelUnlink
    BY <2>2 DEF ReqMsgDelUnlink, OutAsked, Job, After
  <2> QED BY <2>1, <2>2 DEF Result
<1>3. Calm
  BY <1>1, <1>2 DEF Calm
<1> QED BY <1>3 DEF ChannelStep

LEMMA ChannelSteps ==
  ASSUME TypeInv, [Next]_vars
  PROVE  ChannelStep
<1>1. CASE UNCHANGED <<chanVars, loopVars>>
  BY <1>1, StillCalm DEF chanVars, loopVars, ChannelStep
<1>2. CASE UNCHANGED vars \/ ReqMsgAddEmplace \/ AdderContinue \/ \E id \in Ids : Consume(id)
  BY <1>1, <1>2
  DEF vars, ReqMsgAddEmplace, AdderContinue, ReqMsgAddStamp, ReqMsgAddLink, ReqMsgAddWake,
      Consume
<1>3. CASE LoopNext
  BY <1>3, EventSteps, RequestSteps, InputSteps, ResultSteps DEF LoopNext
<1>4. CASE Outside
  <2>1. UNCHANGED <<batch, pc, job>>
    BY <1>4 DEF Outside, loopVars
  <2>2. ASSUME NEW c \in Channel, TimerExpire(c) PROVE ChannelStep
    BY <2>1, <2>2 DEF Expires, ChannelStep
  <2>3. ASSUME NEW c \in Channel, ServerSend(c) PROVE ChannelStep
    BY <2>1, <2>3, StillCalm
    DEF ServerSend, ChannelStep, TypeInv, TypeOK, ChannelTypeOK, File
  <2>4. ASSUME NEW f \in Fd, ServerClose(f) PROVE ChannelStep
    BY <2>1, <2>4, StillCalm
    DEF ServerClose, ChannelStep, TypeInv, TypeOK, ChannelTypeOK, File
  <2> QED BY <1>4, <2>2, <2>3, <2>4 DEF Outside, Environment
<1> QED BY <1>2, <1>3, <1>4 DEF Next

-----------------------------------------------------------------------------
(* What a connect does to the descriptors.                                 *)

LEMMA SsConnectEffect ==
  ASSUME NEW files \in [Fd -> File], NEW r \in SsConnect(files)
  PROVE  \/ r.sock = NoSock /\ r.file = files
         \/ /\ r.sock \in Fd /\ r.sock # NoSock /\ files[r.sock].epoll = "closed"
            /\ r.file = [files EXCEPT ![r.sock] = Connected]
<1>1. CASE r = [sock |-> NoSock, file |-> files]
  BY <1>1
<1>2. ASSUME NEW f \in {g \in Fd : files[g].epoll = "closed"},
             r = [sock |-> f, file |-> [files EXCEPT ![f] = Connected]]
      PROVE  /\ r.sock \in Fd /\ r.sock # NoSock /\ files[r.sock].epoll = "closed"
             /\ r.file = [files EXCEPT ![r.sock] = Connected]
  BY <1>2, ChannelAssumption
<1> QED BY <1>1, <1>2 DEF SsConnect

(* A reconnect gives the channel no socket, or one that was closed and is  *)
(* not in ss_epoll; no other descriptor changes but its old one.           *)
LEMMA ReconnectEffect ==
  ASSUME ChannelTypeOK, NEW c \in Channel, Reconnect(c)
  PROVE  /\ sock[c] \in Fd
         /\ \A d \in Channel : d # c => sock'[d] = sock[d]
         /\ \/ sock'[c] = NoSock /\ timer' = [timer EXCEPT ![c] = "armed"]
            \/ /\ sock'[c] \in Fd /\ sock'[c] # NoSock /\ timer' = timer
               /\ sock'[c] = sock[c] \/ file[sock'[c]].epoll = "closed"
               /\ file'[sock'[c]].epoll = "none"
         /\ \A f \in Fd : \/ f = sock'[c]
                          \/ f = sock[c] /\ file'[f].epoll = "closed"
                          \/ f # sock[c] /\ file'[f] = file[f]
<1> USE DEF ChannelTypeOK
<1>1. sock[c] \in Fd
  BY DEF Reconnect
<1> DEFINE files == CloseFd(sock[c])
<1>2. /\ files \in [Fd -> File] /\ files[sock[c]].epoll = "closed"
      /\ \A f \in Fd : f # sock[c] => files[f] = file[f]
  BY <1>1, NewFiles DEF CloseFd, ClosedFile
<1>3. PICK r \in SsConnect(files) :
        /\ sock' = [sock EXCEPT ![c] = r.sock]
        /\ file' = r.file
        /\ timer' = IF r.sock = NoSock THEN [timer EXCEPT ![c] = "armed"] ELSE timer
  BY DEF Reconnect
<1>4. sock'[c] = r.sock /\ \A d \in Channel : d # c => sock'[d] = sock[d]
  BY <1>3
<1> HIDE DEF files
<1>5. CASE r.sock = NoSock /\ r.file = files
  BY <1>1, <1>2, <1>3, <1>4, <1>5
<1>6. CASE /\ r.sock \in Fd /\ r.sock # NoSock /\ files[r.sock].epoll = "closed"
           /\ r.file = [files EXCEPT ![r.sock] = Connected]
  <2>1. file'[r.sock].epoll = "none" /\ \A f \in Fd : f # r.sock => file'[f] = files[f]
    BY <1>2, <1>3, <1>6 DEF Connected, ClosedFile
  <2> QED BY <1>1, <1>2, <1>3, <1>4, <1>6, <2>1
<1> QED BY <1>2, <1>5, <1>6, SsConnectEffect

(* A connect from start() is the same, and ss_epoll watches the socket.    *)
LEMMA ConnectEffect ==
  ASSUME ChannelTypeOK, NEW c \in Channel, ConnectChannel(c)
  PROVE  /\ \A d \in Channel : d # c => sock'[d] = sock[d]
         /\ \/ sock'[c] = NoSock /\ timer' = [timer EXCEPT ![c] = "armed"]
            \/ /\ sock'[c] \in Fd /\ sock'[c] # NoSock /\ timer' = timer
               /\ file[sock'[c]].epoll = "closed" /\ file'[sock'[c]].epoll = "in"
         /\ \A f \in Fd : f = sock'[c] \/ file'[f] = file[f]
<1> USE DEF ChannelTypeOK
<1>1. PICK r \in SsConnect(file) :
        /\ sock' = [sock EXCEPT ![c] = r.sock]
        /\ IF r.sock = NoSock
           THEN /\ file' = r.file
                /\ timer' = [timer EXCEPT ![c] = "armed"]
           ELSE /\ file' = [r.file EXCEPT ![r.sock].epoll = "in"]
                /\ timer' = timer
  BY DEF ConnectChannel
<1>2. sock'[c] = r.sock /\ \A d \in Channel : d # c => sock'[d] = sock[d]
  BY <1>1
<1>3. CASE r.sock = NoSock /\ r.file = file
  BY <1>1, <1>2, <1>3
<1>4. CASE /\ r.sock \in Fd /\ r.sock # NoSock /\ file[r.sock].epoll = "closed"
           /\ r.file = [file EXCEPT ![r.sock] = Connected]
  <2>1. file' = [r.file EXCEPT ![r.sock].epoll = "in"] /\ timer' = timer
    BY <1>1, <1>4
  <2>2. r.file \in [Fd -> File]
    BY <1>4, NewFiles
  <2>3. file'[r.sock].epoll = "in" /\ \A f \in Fd : f # r.sock => file'[f] = file[f]
    BY <1>4, <2>1, <2>2 DEF File
  <2> QED BY <1>2, <1>4, <2>1, <2>3
<1> QED BY <1>3, <1>4, SsConnectEffect

(* A restart forgets both sockets and arms both timers.                    *)
LEMMA RestartEffect ==
  ASSUME NEW c \in Channel, Restarts(c)
  PROVE  /\ sock' = [d \in Channel |-> NoSock] /\ timer' = [d \in Channel |-> "armed"]
         /\ batch' = {}
BY DEF Restarts, ConnectThrows, ReconnectThrows, ThrowInSsConnect, CleanAllAndInit

-----------------------------------------------------------------------------
(* A channel has an open socket or a connect under way, whatever happens.  *)

ConnectTaken == \A c \in Channel : <<"connect", c>> \in batch => timer[c] = "off"

ChannelInv == TypeInv /\ SocketsOpen /\ ReconnectPending /\ ConnectTaken

LEMMA ChannelInvInit == Init => ChannelInv
<1> SUFFICES ASSUME Init PROVE ChannelInv
  OBVIOUS
<1>1. TypeInv
  BY InitType
<1> QED
  BY <1>1 DEF Init, ChannelInit, ChannelInv, SocketsOpen, ReconnectPending, ConnectTaken,
              Channel

LEMMA SocketsOpenStep ==
  ASSUME ChannelInv, ChannelStep
  PROVE  SocketsOpen'
<1> USE DEF SocketsOpen
<1>0. /\ "in" \in Channel /\ "out" \in Channel /\ \A c \in Channel : c = "in" \/ c = "out"
      /\ ChannelTypeOK /\ SocketsOpen /\ sock \in [Channel -> Fd \cup {NoSock}]
  BY DEF Channel, ChannelInv, TypeInv, TypeOK, ChannelTypeOK
<1>7. ASSUME NEW c \in Channel, NEW d \in Channel, d # c, sock[d] # NoSock
      PROVE  sock[d] # sock[c] /\ sock[d] \in Fd /\ file[sock[d]].epoll # "closed"
  BY <1>0, <1>7
<1>1. CASE Calm
  BY <1>0, <1>1 DEF Calm
<1>2. CASE EpollWait
  BY <1>0, <1>2 DEF EpollWait
<1>3. ASSUME NEW c \in Channel, Reconnects(c) PROVE SocketsOpen'
  <2>1. Reconnect(c)
    BY <1>3 DEF Reconnects
  <2>0. /\ \A d \in Channel : d # c => sock'[d] = sock[d]
        /\ \/ sock'[c] = NoSock
           \/ /\ sock'[c] = sock[c] \/ file[sock'[c]].epoll = "closed"
              /\ file'[sock'[c]].epoll = "none"
        /\ \A f \in Fd : f = sock'[c] \/ f = sock[c] \/ file'[f] = file[f]
    BY <1>0, <2>1, ReconnectEffect
  <2>2. ASSUME NEW d \in Channel, sock'[d] # NoSock PROVE file'[sock'[d]].epoll # "closed"
    <3>1. CASE sock'[d] = sock'[c]
      BY <2>2, <2>0, <3>1
    <3>2. CASE sock'[d] # sock'[c]
      BY <1>7, <2>2, <2>0, <3>2
    <3> QED BY <3>1, <3>2
  <2>3. ASSUME sock'["in"] = sock'["out"], sock'["in"] # NoSock PROVE FALSE
    <3>1. PICK d \in Channel : d # c
      BY <1>0
    <3>2. sock'[d] = sock[d] /\ sock'[c] = sock[d] /\ sock[d] # NoSock
      BY <1>0, <2>3, <2>0, <3>1
    <3> QED BY <1>7, <2>0, <3>1, <3>2
  <2> QED BY <2>2, <2>3
<1>4. ASSUME NEW c \in Channel, Connects(c) PROVE SocketsOpen'
  <2>1. ConnectChannel(c)
    BY <1>4 DEF Connects
  <2>0. /\ \A d \in Channel : d # c => sock'[d] = sock[d]
        /\ \/ sock'[c] = NoSock
           \/ file[sock'[c]].epoll = "closed" /\ file'[sock'[c]].epoll = "in"
        /\ \A f \in Fd : f = sock'[c] \/ file'[f] = file[f]
    BY <1>0, <2>1, ConnectEffect
  <2>2. ASSUME NEW d \in Channel, sock'[d] # NoSock PROVE file'[sock'[d]].epoll # "closed"
    <3>1. CASE sock'[d] = sock'[c]
      BY <2>2, <2>0, <3>1
    <3>2. CASE sock'[d] # sock'[c]
      BY <1>7, <2>2, <2>0, <3>2
    <3> QED BY <3>1, <3>2
  <2>3. ASSUME sock'["in"] = sock'["out"], sock'["in"] # NoSock PROVE FALSE
    <3>1. PICK d \in Channel : d # c
      BY <1>0
    <3>2. sock'[d] = sock[d] /\ sock'[c] = sock[d] /\ sock[d] # NoSock
      BY <1>0, <2>3, <2>0, <3>1
    <3> QED BY <1>7, <2>0, <3>1, <3>2
  <2> QED BY <2>2, <2>3
<1>5. ASSUME NEW c \in Channel, Restarts(c) PROVE SocketsOpen'
  BY <1>0, <1>5, RestartEffect
<1>6. ASSUME NEW c \in Channel, Expires(c) PROVE SocketsOpen'
  BY <1>0, <1>6 DEF Expires, TimerExpire
<1> QED BY <1>1, <1>2, <1>3, <1>4, <1>5, <1>6 DEF ChannelStep

LEMMA PendingStep ==
  ASSUME ChannelInv, ChannelStep
  PROVE  ReconnectPending' /\ ConnectTaken'
<1> USE DEF ReconnectPending, ConnectTaken
<1>0. /\ ReconnectPending /\ ConnectTaken /\ ChannelTypeOK
      /\ timer \in [Channel -> {"off", "armed", "fired"}]
  BY DEF ChannelInv, TypeInv, TypeOK, ChannelTypeOK
<1>1. CASE Calm
  BY <1>0, <1>1 DEF Calm
<1>2. CASE EpollWait
  <2>1. ASSUME NEW c \in Channel, <<"connect", c>> \in batch' PROVE timer[c] = "fired"
    <3>1. <<"connect", c>> \in Ready
      BY <1>2, <2>1 DEF EpollWait
    <3> QED BY <3>1 DEF Ready, Req
  <2> QED BY <1>0, <1>2, <2>1 DEF EpollWait
<1>3. ASSUME NEW c \in Channel, Reconnects(c) PROVE ReconnectPending' /\ ConnectTaken'
  <2>1. /\ Reconnect(c) /\ sock[c] # NoSock
        /\ \A d \in Channel : <<"connect", d>> \in batch' <=> <<"connect", d>> \in batch
    BY <1>3 DEF Reconnects, Reconnect
  <2>2. timer[c] = "off" /\ <<"connect", c>> \notin batch
    BY <1>0, <2>1
  <2>3. /\ \A d \in Channel : d # c => sock'[d] = sock[d]
        /\ \/ sock'[c] = NoSock /\ timer' = [timer EXCEPT ![c] = "armed"]
           \/ sock'[c] # NoSock /\ timer' = timer
    BY <1>0, <2>1, ReconnectEffect
  <2>4. \A d \in Channel : d # c => timer'[d] = timer[d]
    BY <1>0, <2>3
  <2>5. sock'[c] = NoSock <=> timer'[c] # "off"
    BY <1>0, <2>2, <2>3
  <2> QED BY <1>0, <2>1, <2>2, <2>3, <2>4, <2>5
<1>4. ASSUME NEW c \in Channel, Connects(c) PROVE ReconnectPending' /\ ConnectTaken'
  <2>1. /\ ConnectChannel(c) /\ timer[c] = "off" /\ <<"connect", c>> \notin batch'
        /\ \A d \in Channel : d # c => (<<"connect", d>> \in batch' <=> <<"connect", d>> \in batch)
    BY <1>0, <1>4 DEF Connects
  <2>2. /\ \A d \in Channel : d # c => sock'[d] = sock[d]
        /\ \/ sock'[c] = NoSock /\ timer' = [timer EXCEPT ![c] = "armed"]
           \/ sock'[c] # NoSock /\ timer' = timer
    BY <1>0, <2>1, ConnectEffect
  <2>3. \A d \in Channel : d # c => timer'[d] = timer[d]
    BY <1>0, <2>2
  <2>4. sock'[c] = NoSock <=> timer'[c] # "off"
    BY <1>0, <2>1, <2>2
  <2> QED BY <1>0, <2>1, <2>2, <2>3, <2>4
<1>5. ASSUME NEW c \in Channel, Restarts(c) PROVE ReconnectPending' /\ ConnectTaken'
  BY <1>5, RestartEffect
<1>6. ASSUME NEW c \in Channel, Expires(c) PROVE ReconnectPending' /\ ConnectTaken'
  BY <1>0, <1>6 DEF Expires, TimerExpire
<1> QED BY <1>1, <1>2, <1>3, <1>4, <1>5, <1>6 DEF ChannelStep

LEMMA ChannelInvStep ==
  ASSUME ChannelInv, [Next]_vars
  PROVE  ChannelInv'
BY TypeStep, ChannelSteps, SocketsOpenStep, PendingStep DEF ChannelInv

(* Whatever the server, the kernel and the allocations do, for any number  *)
(* of descriptors: a channel's socket is open and its own, and a channel   *)
(* without one has its connect timer armed or its expiry under way.        *)
THEOREM ChannelsSound ==
  Spec => [](SocketsOpen /\ ReconnectPending)
<1>1. ChannelInv /\ [Next]_vars => ChannelInv'
  BY ChannelInvStep
<1>2. ChannelInv => SocketsOpen /\ ReconnectPending
  BY DEF ChannelInv
<1> QED BY <1>1, <1>2, ChannelInvInit, PTL DEF Spec

-----------------------------------------------------------------------------
(* Open descriptors without a channel.                                     *)

LEMMA LostStep ==
  ASSUME ChannelInv, ChannelStep, NEW f \in Fd, ~Lost(f), Lost(f)'
  PROVE  \E c \in Channel : Restarts(c)
<1> SUFFICES ASSUME \A c \in Channel : ~Restarts(c)
             PROVE  FALSE
  OBVIOUS
<1>0. ChannelTypeOK
  BY DEF ChannelInv, TypeInv, TypeOK
<1>1. file'[f].epoll # "closed" /\ \A d \in Channel : sock'[d] # f
  BY DEF Lost
<1>2. file[f].epoll # "closed" => \E d \in Channel : sock[d] = f
  BY DEF Lost
<1>3. CASE Calm
  BY <1>1, <1>2, <1>3 DEF Calm, Channel
<1>4. CASE EpollWait
  BY <1>1, <1>2, <1>4 DEF EpollWait
<1>5. ASSUME NEW c \in Channel, Reconnects(c) PROVE FALSE
  <2>1. f # sock[c] /\ file'[f] = file[f]
    BY <1>0, <1>1, <1>5, ReconnectEffect DEF Reconnects
  <2>2. PICK d \in Channel : sock[d] = f
    BY <1>1, <1>2, <2>1
  <2>3. sock'[d] = f
    BY <1>0, <1>5, <2>1, <2>2, ReconnectEffect DEF Reconnects
  <2> QED BY <1>1, <2>3
<1>6. ASSUME NEW c \in Channel, Connects(c) PROVE FALSE
  <2>1. file'[f] = file[f]
    BY <1>0, <1>1, <1>6, ConnectEffect DEF Connects
  <2>2. PICK d \in Channel : sock[d] = f
    BY <1>1, <1>2, <2>1
  <2>3. sock[c] = NoSock
    BY <1>6 DEF Connects, ChannelInv, ReconnectPending
  <2>4. sock'[d] = f
    BY <1>0, <1>6, <2>2, <2>3, ChannelAssumption, ConnectEffect DEF Connects
  <2> QED BY <1>1, <2>4
<1>7. ASSUME NEW c \in Channel, Expires(c) PROVE FALSE
  BY <1>1, <1>2, <1>7 DEF Expires, TimerExpire
<1> QED BY <1>3, <1>4, <1>5, <1>6, <1>7 DEF ChannelStep

(* Only a restart loses descriptors, whatever closes, fails or throws.     *)
THEOREM LossesAreRestarts == Spec => LostOnlyInRestart
<1>1. ASSUME ChannelInv, [Next]_vars
      PROVE  [\A f \in Fd : ~Lost(f) /\ Lost(f)'
                => batch' = {} /\ \A c \in Channel : sock'[c] = NoSock]_vars
  BY <1>1, ChannelSteps, LostStep, RestartEffect DEF ChannelInv
<1>2. ChannelInv /\ [Next]_vars => ChannelInv'
  BY ChannelInvStep
<1> QED BY <1>1, <1>2, ChannelInvInit, PTL DEF Spec, LostOnlyInRestart

(* The loop asks for outReconnect only while the channel has a socket: no  *)
(* reconnect runs into the catch clauses for want of one.                  *)
OutInv == OutAsked => sock["out"] # NoSock

LEMMA NoRestart ==
  ASSUME MayThrow = FALSE, OutInv, NEW c \in Channel
  PROVE  ~Restarts(c)
BY NoThrow DEF Restarts, ConnectThrows, ThrowInSsConnect, OutInv, OutAsked

LEMMA OutInvStep ==
  ASSUME MayThrow = FALSE, ChannelInv, OutInv, ChannelStep
  PROVE  OutInv'
<1> USE DEF OutInv
<1>0. /\ ChannelTypeOK /\ "out" \in Channel /\ chan_ready \in [Channel -> BOOLEAN]
      /\ chan_ready["out"] => sock["out"] # NoSock
  BY DEF ChannelInv, TypeInv, TypeOK, ChannelTypeOK, Channel, OutAsked
<1>1. CASE Calm
  BY <1>1 DEF Calm
<1>2. CASE EpollWait
  BY <1>2 DEF EpollWait, OutAsked
<1>3. ASSUME NEW c \in Channel, Reconnects(c), OutAsked' PROVE sock'["out"] # NoSock
  <2>1. chan_ready'["out"] /\ chan_ready' = [chan_ready EXCEPT ![c] = FALSE]
    BY <1>3 DEF Reconnects, Reconnect, OutAsked
  <2>2. c # "out" /\ sock["out"] # NoSock
    BY <1>0, <2>1
  <2> QED BY <1>0, <1>3, <2>2, ReconnectEffect DEF Reconnects
<1>4. ASSUME NEW c \in Channel, Connects(c), OutAsked' PROVE sock'["out"] # NoSock
  <2>1. chan_ready["out"]
    BY <1>4 DEF Connects, ConnectChannel, OutAsked, NoJob
  <2>2. sock[c] = NoSock
    BY <1>4 DEF Connects, ChannelInv, ReconnectPending
  <2> QED BY <1>0, <1>4, <2>1, <2>2, ConnectEffect DEF Connects
<1>5. ASSUME NEW c \in Channel, Expires(c) PROVE OutInv'
  BY <1>5 DEF Expires, TimerExpire, OutAsked
<1> QED BY <1>1, <1>2, <1>3, <1>4, <1>5, NoRestart DEF ChannelStep

(* While no allocation throws no descriptor is ever lost, whatever the     *)
(* server sends and whether or not the out channel has a buffer.           *)
THEOREM NoLeakUnlessThrown ==
  ASSUME MayThrow = FALSE
  PROVE  Spec => []NoDescriptorLeak
<1> DEFINE LeakInv == ChannelInv /\ OutInv /\ NoDescriptorLeak
<1>1. Init => LeakInv
  <2> SUFFICES ASSUME Init PROVE OutInv /\ NoDescriptorLeak
    BY ChannelInvInit
  <2> QED
    BY DEF Init, ChannelInit, OutInv, OutAsked, NoJob, NoDescriptorLeak, ClosedFile, Channel
<1>2. LeakInv /\ [Next]_vars => LeakInv'
  <2> SUFFICES ASSUME LeakInv, [Next]_vars PROVE LeakInv'
    OBVIOUS
  <2>1. ChannelStep /\ ChannelInv'
    BY ChannelSteps, ChannelInvStep DEF ChannelInv
  <2>2. OutInv'
    BY <2>1, OutInvStep
  <2>3. ASSUME NEW f \in Fd PROVE ~Lost(f)'
    <3>1. ~Lost(f)
      BY DEF NoDescriptorLeak, Lost
    <3> QED BY <2>1, <3>1, LostStep, NoRestart
  <2>4. NoDescriptorLeak'
    BY <2>3 DEF NoDescriptorLeak, Lost
  <2> QED BY <2>1, <2>2, <2>4
<1> QED BY <1>1, <1>2, PTL DEF Spec

-----------------------------------------------------------------------------
(* As the code stands, and while nothing throws, the loop reads the in     *)
(* channel only when ss_epoll watches it, since the events of one batch    *)
(* are never for a descriptor that was closed and opened again.            *)

InEvents ==
  \A f \in Fd : <<"in", f>> \in batch => file[f].epoll = "in" /\ <<"hup", f>> \notin batch
InRead ==
  pc = "in" => file[sock["in"]].epoll = "in" /\ <<"in", sock["in"]>> \notin batch

WatchInv == ChannelInv /\ InEvents /\ InRead /\ ReadyInWatched

LEMMA WatchStep ==
  ASSUME AsIs, MayThrow = FALSE, Inv, WatchInv, ChannelStep
  PROVE  InEvents' /\ InRead' /\ ReadyInWatched'
<1> USE DEF InEvents, InRead, ReadyInWatched
<1>0. /\ "in" \in Channel /\ "out" \in Channel /\ ChannelTypeOK
      /\ chan_ready \in [Channel -> BOOLEAN] /\ sock \in [Channel -> Fd \cup {NoSock}]
  BY DEF Channel, WatchInv, ChannelInv, TypeInv, TypeOK, ChannelTypeOK
<1>1. ~chan_ready["out"] /\ pc # "reconnect"
  BY DEF Inv, AsIsInv, ControlAsIs
<1>2. \A c \in Channel : ~Restarts(c)
  BY <1>1, NoThrow DEF Restarts, ConnectThrows, ThrowInSsConnect
<1>3. pc = "in" => sock["in"] # NoSock
  BY DEF WatchInv, ChannelInv, TypeInv, ControlInv
<1>4. InEvents /\ InRead /\ ReadyInWatched /\ SocketsOpen /\ ReconnectPending
  BY DEF WatchInv, ChannelInv
<1>5. CASE Calm
  <2>1. /\ UNCHANGED sock /\ batch' \subseteq batch
        /\ \A f \in Fd : file'[f].epoll = file[f].epoll
    BY <1>1, <1>5 DEF Calm
  <2>2. <<"in", sock["in"]>> \in batch => sock["in"] # NoSock
    BY ChannelAssumption DEF WatchInv, ChannelInv, TypeInv, TypeOK, Event, Req
  <2>3. InRead' /\ ReadyInWatched'
    BY <1>0, <1>3, <1>4, <1>5, <2>1, <2>2 DEF Calm
  <2> QED BY <1>4, <2>1, <2>3
<1>6. CASE EpollWait
  <2>1. ASSUME NEW f \in Fd, <<"in", f>> \in batch'
        PROVE  file[f].epoll = "in" /\ <<"hup", f>> \notin batch'
    <3>1. <<"in", f>> \in Ready /\ (<<"hup", f>> \in batch' => <<"hup", f>> \in Ready)
      BY <1>6, <2>1 DEF EpollWait
    <3> QED BY <3>1 DEF Ready, Req
  <2> QED BY <1>4, <1>6, <2>1 DEF EpollWait
<1>7. ASSUME NEW c \in Channel, Reconnects(c) PROVE InEvents' /\ InRead' /\ ReadyInWatched'
  <2>1. /\ \A d \in Channel : d # c => sock'[d] = sock[d]
        /\ sock'[c] \in Fd => sock'[c] = sock[c] \/ file[sock'[c]].epoll = "closed"
        /\ \A f \in Fd : f = sock'[c] \/ f = sock[c] \/ file'[f] = file[f]
    BY <1>0, <1>7, ChannelAssumption, ReconnectEffect DEF Reconnects
  <2>2. ASSUME NEW f \in Fd, f # sock[c], file[f].epoll = "in" PROVE file'[f] = file[f]
    BY <2>1, <2>2
  <2>3. <<"in", sock[c]>> \notin batch
    <3>1. sock[c] \in Fd
      BY <1>0, <1>7 DEF Reconnects, Reconnect
    <3>2. CASE pc = c /\ CanRecv(c)
      BY <1>4, <3>2 DEF CanRecv, AsIs
    <3>3. CASE <<"hup", sock[c]>> \in batch
      BY <1>4, <3>1, <3>3
    <3> QED BY <1>1, <1>7, <3>2, <3>3 DEF Reconnects
  <2>4. batch' \subseteq batch /\ pc' # "in"
    BY <1>7 DEF Reconnects
  <2>5. InEvents'
    BY <1>4, <2>2, <2>3, <2>4
  <2>6. ReadyInWatched'
    <3>1. chan_ready' = [chan_ready EXCEPT ![c] = FALSE]
      BY <1>7 DEF Reconnects, Reconnect
    <3>2. ASSUME chan_ready'["in"]
          PROVE  sock'["in"] # NoSock /\ file'[sock'["in"]].epoll = "in"
      <4>1. c # "in" /\ c = "out" /\ chan_ready["in"]
        BY <1>0, <3>1, <3>2 DEF Channel
      <4>2. sock["in"] # NoSock /\ sock["in"] \in Fd /\ sock["in"] # sock[c]
        BY <1>0, <1>4, <4>1 DEF SocketsOpen
      <4> QED BY <1>0, <1>4, <2>1, <2>2, <4>1, <4>2
    <3> QED BY <3>2
  <2> QED BY <2>4, <2>5, <2>6
<1>8. ASSUME NEW c \in Channel, Connects(c) PROVE InEvents' /\ InRead' /\ ReadyInWatched'
  <2>1. /\ \A d \in Channel : d # c => sock'[d] = sock[d]
        /\ sock'[c] \in Fd => file[sock'[c]].epoll = "closed"
        /\ \A f \in Fd : f = sock'[c] \/ file'[f] = file[f]
    BY <1>0, <1>8, ChannelAssumption, ConnectEffect DEF Connects
  <2>2. ASSUME NEW f \in Fd, file[f].epoll = "in" PROVE file'[f] = file[f]
    BY <2>1, <2>2
  <2>3. batch' \subseteq batch /\ pc' # "in" /\ chan_ready' = chan_ready
    BY <1>8 DEF Connects, ConnectChannel
  <2>4. sock[c] = NoSock
    BY <1>4, <1>8 DEF Connects, ReconnectPending
  <2>5. ASSUME chan_ready["in"] PROVE sock'["in"] = sock["in"] /\ sock["in"] \in Fd
    BY <1>0, <1>4, <2>1, <2>4, <2>5
  <2> QED BY <1>4, <2>2, <2>3, <2>5
<1>9. ASSUME NEW c \in Channel, Expires(c) PROVE InEvents' /\ InRead' /\ ReadyInWatched'
  BY <1>4, <1>9 DEF Expires, TimerExpire
<1> QED BY <1>2, <1>5, <1>6, <1>7, <1>8, <1>9 DEF ChannelStep

(* As the code stands, and while nothing throws, a ready in channel has a  *)
(* socket that ss_epoll watches, whatever descriptors are reused.          *)
THEOREM ReadyMeansWatched ==
  ASSUME AsIs, MayThrow = FALSE
  PROVE  Spec => []ReadyInWatched
<1>1. Init => Inv /\ WatchInv
  <2> SUFFICES ASSUME Init PROVE InEvents /\ InRead /\ ReadyInWatched
    BY AnswersInit, ChannelInvInit DEF WatchInv
  <2> QED BY DEF Init, ChannelInit, InEvents, InRead, ReadyInWatched, Channel
<1>2. Inv /\ WatchInv /\ [Next]_vars => (Inv /\ WatchInv)'
  <2> SUFFICES ASSUME Inv, WatchInv, [Next]_vars PROVE Inv' /\ WatchInv'
    OBVIOUS
  <2>1. ChannelStep /\ ChannelInv'
    BY ChannelSteps, ChannelInvStep DEF WatchInv, ChannelInv
  <2> QED BY <2>1, AnswersStep, WatchStep DEF WatchInv
<1> QED BY <1>1, <1>2, PTL DEF Spec, WatchInv

-----------------------------------------------------------------------------
(* The wake-ups, whatever the server, the channels and the allocations do. *)

Sleeps == NoLostWakeup /\ ~NoLostWakeup'

(* The steps that may leave queued requests without a wake-up.             *)
MaySleep ==
  \/ ReqTooMany \/ ReqSent \/ ReqPartlySent \/ ReqSendFails
  \/ Req \in batch /\ batch' = {} /\ pc' = "next"

(* A handler that keeps the request event, or ends in a restart.           *)
LEMMA HandlerWake ==
  ASSUME TypeInv, Sleeps, UNCHANGED <<msg_queue, adder>>, req_edge => req_edge',
         pc \notin {"wake", "lookup", "write", "publish", "del", "unlink"},
         \/ Req \in batch => Req \in batch'
         \/ batch' = {} /\ pc' = "next"
  PROVE  MaySleep
<1>1. job.then # "wake"
  BY DEF TypeInv, ControlInv, NoJob
<1> QED BY <1>1, WakeKept DEF Sleeps, MaySleep, NoLostWakeup

LEMMA EventsSleep ==
  ASSUME TypeInv, Sleeps,
         \/ EpollWait
         \/ \E c \in Channel : HupReconnect(c) \/ ConnectFd(c) \/ SockIn(c)
         \/ \E e \in Event : Ignore(e)
  PROVE  MaySleep
<1>1. CASE EpollWait
  BY <1>1 DEF EpollWait, Sleeps, NoLostWakeup, adderVars
<1>2. ASSUME NEW c \in Channel, HupReconnect(c) \/ ConnectFd(c) \/ SockIn(c)
      PROVE  MaySleep
  <2>1. /\ Req \in batch => Req \in batch' \/ (batch' = {} /\ pc' = "next")
        /\ (batch' = {} /\ pc' = "next") \/ (Req \in batch => Req \in batch')
    BY <1>2 DEF HupReconnect, Restart, ConnectFd, SockIn, Done, Go, Req
  <2> QED
    BY <1>2, <2>1, HandlerWake
    DEF HupReconnect, ConnectFd, SockIn, Take, adderVars, reqVars
<1>3. ASSUME NEW e \in Event, Ignore(e) PROVE MaySleep
  <2>1. Req \in batch => Req \in batch'
    BY <1>3 DEF Ignore, Done, Req
  <2> QED BY <1>3, <2>1, HandlerWake DEF Ignore, Take, adderVars, reqVars
<1> QED BY <1>1, <1>2, <1>3

LEMMA InputSleep ==
  ASSUME TypeInv, Sleeps, Input
  PROVE  MaySleep
<1> DEFINE Handled == batch' = batch \/ (batch' = {} /\ pc' = "next")
<1>1. ASSUME NEW c \in Channel, NEW step \in Step, ReconnectThen(c, step) PROVE Handled
  BY <1>1 DEF ReconnectThen, Restart, Go
<1>2. Handled
  <2> USE DEF Step, Channel
  <2>1. CASE (\E c \in Channel : RecvMore(c)) \/ InNothing \/ OutNothing \/ OutTail \/ OutAnswer
    BY <2>1 DEF RecvMore, InNothing, OutNothing, OutTail, OutAnswer, loopVars
  <2>2. CASE In400 \/ InReg
    BY <1>1, <2>2 DEF In400, InReg
  <2>3. CASE InResult
    BY <2>3 DEF InResult, Restart, Go
  <2>4. CASE OutGarbled \/ OutReg
    BY <1>1, <2>4 DEF OutGarbled, OutReg
  <2> QED BY <2>1, <2>2, <2>3, <2>4 DEF Input
<1>3. pc \in {"in", "out", "tail"} /\ UNCHANGED <<msg_queue, adder, req_edge>>
  BY DEF Input, RecvMore, InNothing, In400, Garbled, InReg, InResult, OutNothing,
         OutGarbled, OutReg, OutAnswer, OutTail, Parses, Read, Channel, adderVars, reqVars
<1> HIDE DEF Handled
<1> QED BY <1>2, <1>3, HandlerWake DEF Handled

LEMMA SleepStep ==
  ASSUME TypeInv, [Next]_vars, Sleeps
  PROVE  MaySleep
<1>1. CASE UNCHANGED <<msg_queue, adder, req_edge, batch, pc, job>>
  BY <1>1 DEF Sleeps, NoLostWakeup
<1>2. CASE UNCHANGED vars \/ Outside \/ \E id \in Ids : Consume(id)
  BY <1>1, <1>2 DEF vars, Outside, Consume, adderVars, reqVars, loopVars
<1>3. CASE ReqMsgAddEmplace \/ AdderContinue
  BY <1>3
  DEF ReqMsgAddEmplace, AdderContinue, ReqMsgAddStamp, ReqMsgAddLink, ReqMsgAddWake,
      Sleeps, NoLostWakeup, reqVars, loopVars
<1>4. CASE Request
  <2>1. CASE ReqEmpty
    BY <2>1 DEF ReqEmpty, ReqEvent, reqVars, Sleeps, NoLostWakeup
  <2>2. CASE ReqUnavailable
    BY <2>2 DEF ReqUnavailable, ResMsgAdd, Sleeps, NoLostWakeup
  <2>3. CASE OutReconnect
    BY <2>3, HandlerWake
    DEF OutReconnect, ReconnectThen, Restart, Go, adderVars, reqVars
  <2> QED BY <1>4, <2>1, <2>2, <2>3 DEF Request, MaySleep
<1>5. CASE Result
  <2> USE DEF Sleeps, NoLostWakeup, adderVars, reqVars
  <2>1. CASE ResLookup \/ ResPublish
    BY <2>1 DEF ResLookup, ResPublish, AfterResMsgAdd, Go
  <2>2. CASE ResWrite \/ ReqMsgDelStamp \/ Wake
    BY <2>2 DEF ResWrite, ReqMsgDelStamp, Wake
  <2>3. CASE ReqMsgDelUnlink
    <3>1. msg_queue # <<>>
      BY <2>3 DEF ReqMsgDelUnlink, TypeInv, ControlInv
    <3> QED BY <2>3, <3>1 DEF ReqMsgDelUnlink, Go
  <2> QED BY <1>5, <2>1, <2>2, <2>3 DEF Result
<1>6. CASE LoopNext
  BY <1>4, <1>5, <1>6, EventsSleep, InputSleep DEF LoopNext
<1> QED BY <1>2, <1>3, <1>6 DEF Next

(* Whatever the server, the channels and the allocations do, the loop goes *)
(* to sleep over queued requests only when it has sent or given up one, or *)
(* when a restart drops the request event.                                 *)
THEOREM SleepsOnlyThere == Spec => SleepsOnlyAtRequest
<1>1. ASSUME TypeInv, [Next]_vars
      PROVE  [NoLostWakeup /\ ~NoLostWakeup' =>
                \/ ReqTooMany \/ ReqSent \/ ReqPartlySent \/ ReqSendFails
                \/ Req \in batch /\ batch' = {} /\ pc' = "next"]_vars
  BY <1>1, SleepStep DEF Sleeps, MaySleep
<1> QED BY <1>1, TypeStep, InitType, PTL DEF Spec, SleepsOnlyAtRequest
=============================================================================
