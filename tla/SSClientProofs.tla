---------------------------- MODULE SSClientProofs ----------------------------
(***************************************************************************)
(* Safety of SSClient for every number of requests, descriptors, events,   *)
(* attempts and messages: the types of its variables; the queue and its    *)
(* stamps, which agree whatever the channels and the server do; and what   *)
(* each request is promised as the code stands: with out.recv.buff null    *)
(* the out channel never becomes ready, every request is answered by the   *)
(* loop itself, and the server knows of none of them.                      *)
(***************************************************************************)
EXTENDS SSClient, Integers, TLAPS

-----------------------------------------------------------------------------
(* The operators of SSChannel keep the types of the channels.              *)

(* What a socket can hold when it is closed and when it is connected.      *)
LEMMA NewFiles == ClosedFile \in File /\ Connected \in File
<1>1. <<>> \in Seq(Message)
  OBVIOUS
<1>2. ClosedFile \in File
  BY <1>1 DEF ClosedFile, File
<1> QED BY <1>2 DEF Connected, File

(* A reconnect, whether it ends normally or in a restart.                  *)
LEMMA ReconnectType ==
  ASSUME ChannelTypeOK, NEW c \in Channel, Reconnect(c) \/ ReconnectThrows(c)
  PROVE  ChannelTypeOK'
<1>1. CASE Reconnect(c)
  <2>1. CloseFd(sock[c]) \in [Fd -> File]
    BY <1>1, NewFiles DEF CloseFd, ChannelTypeOK, Reconnect
  <2>2. \A r \in SsConnect(CloseFd(sock[c])) :
          r.sock \in Fd \cup {NoSock} /\ r.file \in [Fd -> File]
    BY <2>1, NewFiles DEF SsConnect
  <2> QED
    BY <1>1, <2>2, ChannelAssumption DEF Reconnect, ChannelTypeOK
<1>2. CASE ReconnectThrows(c)
  <2>1. CASE sock[c] = NoSock
    BY <1>2, <2>1, ChannelAssumption
    DEF ReconnectThrows, CleanAllAndInit, ChannelTypeOK
  <2>2. CASE sock[c] # NoSock
    <3>1. CloseFd(sock[c]) \in [Fd -> File]
      BY <2>2, NewFiles DEF CloseFd, ChannelTypeOK
    <3> QED
      BY <1>2, <2>2, <3>1, NewFiles, ChannelAssumption
      DEF ReconnectThrows, ThrowInSsConnect, CleanAllAndInit, ChannelTypeOK
  <2> QED BY <2>1, <2>2
<1> QED BY <1>1, <1>2

(* A connect from start().                                                 *)
LEMMA ConnectType ==
  ASSUME ChannelTypeOK, NEW c \in Channel, ConnectChannel(c) \/ ConnectThrows(c)
  PROVE  ChannelTypeOK'
<1>1. CASE ConnectChannel(c)
  <2>1. PICK r \in SsConnect(file) :
          /\ sock' = [sock EXCEPT ![c] = r.sock]
          /\ IF r.sock = NoSock
             THEN /\ file' = r.file
                  /\ timer' = [timer EXCEPT ![c] = "armed"]
             ELSE /\ file' = [r.file EXCEPT ![r.sock].epoll = "in"]
                  /\ timer' = timer
    BY <1>1 DEF ConnectChannel
  <2>2. r.sock \in Fd \cup {NoSock} /\ r.file \in [Fd -> File]
    BY NewFiles DEF SsConnect, ChannelTypeOK
  <2>3. file' \in [Fd -> File]
    BY <2>1, <2>2 DEF File
  <2> QED
    BY <1>1, <2>1, <2>2, <2>3 DEF ConnectChannel, ChannelTypeOK
<1>2. CASE ConnectThrows(c)
  BY <1>2, NewFiles, ChannelAssumption
  DEF ConnectThrows, ThrowInSsConnect, CleanAllAndInit, ChannelTypeOK
<1> QED BY <1>1, <1>2

(* The kernel and the server.                                              *)
LEMMA EnvironmentType ==
  ASSUME ChannelTypeOK, Environment
  PROVE  ChannelTypeOK'
<1>1. ASSUME NEW c \in Channel, TimerExpire(c)
      PROVE  ChannelTypeOK'
  BY <1>1 DEF TimerExpire, ChannelTypeOK
<1>2. ASSUME NEW c \in Channel, ServerSend(c)
      PROVE  ChannelTypeOK'
  <2>1. sock[c] \in Fd /\ ServerMsg[c] \subseteq Message
    BY <1>2, ChannelAssumption DEF ServerSend, ChannelTypeOK
  <2>2. \A m \in Message : Append(file[sock[c]].rx, m) \in Seq(Message)
    BY <2>1 DEF ChannelTypeOK, File
  <2>3. \A m \in Message : [file[sock[c]] EXCEPT !.rx = Append(@, m)] \in File
    BY <2>1, <2>2 DEF ChannelTypeOK, File
  <2>4. PICK m \in ServerMsg[c] : file' = [file EXCEPT ![sock[c]].rx = Append(@, m)]
    BY <1>2 DEF ServerSend
  <2>5. file' = [file EXCEPT ![sock[c]] = [file[sock[c]] EXCEPT !.rx = Append(@, m)]]
    BY <2>1, <2>4
  <2>6. file' \in [Fd -> File]
    BY <2>1, <2>3, <2>5 DEF ChannelTypeOK
  <2> QED
    BY <1>2, <2>6 DEF ServerSend, ChannelTypeOK
<1>3. ASSUME NEW f \in Fd, ServerClose(f)
      PROVE  ChannelTypeOK'
  BY <1>3 DEF ServerClose, ChannelTypeOK, File
<1> QED BY <1>1, <1>2, <1>3 DEF Environment

(* A recv() takes a prefix of what the server sent, and never more than    *)
(* the buffer has room for.                                                *)
LEMMA ReceiveType ==
  ASSUME ChannelTypeOK, NEW c \in Channel, sock[c] # NoSock, Receive(c)
  PROVE  file' \in [Fd -> File] /\ len' \in [Channel -> 0 .. BuffSize]
<1>1. sock[c] \in Fd /\ file[sock[c]] \in File /\ Rx(c) \in Seq(Message)
  BY DEF ChannelTypeOK, Rx, File
<1>2. Got(c) \in Nat /\ Got(c) <= Len(Rx(c)) /\ len[c] + Got(c) \in 0 .. BuffSize
  BY <1>1, ChannelAssumption DEF Got, ChannelTypeOK
<1>3. SubSeq(Rx(c), Got(c) + 1, Len(Rx(c))) \in Seq(Message)
  BY <1>1, <1>2
<1>4. file' \in [Fd -> File]
  BY <1>1, <1>3 DEF Receive, Rx, ChannelTypeOK, File
<1> QED BY <1>2, <1>4 DEF Receive, ChannelTypeOK

-----------------------------------------------------------------------------
(* Type correctness needs to know what the loop has in hand at each step:  *)
(* a request to remove, a place in res_umap to write, a socket to read.    *)

ControlInv ==
  /\ adder # "idle" => msg_id \in Ids
  /\ pc = "in" => sock["in"] # NoSock
  /\ pc \in {"write", "publish"} => job.id \in Ids
  /\ pc \in {"lookup", "write", "publish"} /\ job.then # "none" => msg_queue # <<>>
  /\ pc \in {"del", "unlink"} => msg_queue # <<>> /\ job.then # "none"
  /\ pc \notin {"lookup", "write", "publish", "del", "unlink"} => job = NoJob

TypeInv == TypeOK /\ ControlInv

LEMMA InitType == Init => TypeInv
<1> SUFFICES ASSUME Init PROVE TypeInv
  OBVIOUS
<1>1. ChannelTypeOK
  BY NewFiles, ChannelAssumption DEF Init, ChannelInit, ChannelTypeOK
<1>2. msg_id \in 0 .. MaxReq /\ attempts \in 0 .. MaxAttempts
  BY ClientAssumption DEF Init
<1>3. NoJob \in Job
  BY DEF Job, NoJob, ResultCode, After
<1>4. msg_queue \in Seq(Ids) /\ exp_stamps \subseteq Ids /\ batch \subseteq Event
  BY DEF Init
<1>5. answers \in Seq(Ids) /\ taken \in Seq(Ids)
  BY DEF Init
<1>6. res_umap \in [Ids -> {"absent", "unset"} \cup ResultCode]
  BY DEF Init
<1>7. req_edge \in BOOLEAN /\ crashed \in BOOLEAN
  BY DEF Init
<1>8. TypeOK
  BY <1>1, <1>2, <1>3, <1>4, <1>5, <1>6, <1>7 DEF Init, TypeOK, Step
<1> QED BY <1>8 DEF Init, TypeInv, ControlInv

(* reqMsgAdd and the consumer.                                             *)
LEMMA AdderType ==
  ASSUME TypeInv, ReqMsgAddEmplace \/ AdderContinue
  PROVE  TypeInv'
<1> USE DEF TypeInv, TypeOK, ControlInv, ChannelTypeOK, chanVars, adderVars, resVars,
            reqVars, outVars, loopVars, Ids
<1>1. CASE ReqMsgAddEmplace
  BY <1>1, ClientAssumption DEF ReqMsgAddEmplace
<1>2. CASE ReqMsgAddStamp
  BY <1>2 DEF ReqMsgAddStamp
<1>3. CASE ReqMsgAddLink
  BY <1>3 DEF ReqMsgAddLink
<1>4. CASE ReqMsgAddWake
  BY <1>4 DEF ReqMsgAddWake
<1> QED BY <1>1, <1>2, <1>3, <1>4 DEF AdderContinue

LEMMA ConsumeType ==
  ASSUME TypeInv, NEW id \in Ids, Consume(id)
  PROVE  TypeInv'
<1>1. taken' \in Seq(Ids)
  BY DEF Consume, TypeInv, TypeOK
<1> QED
  BY <1>1
  DEF Consume, TypeInv, TypeOK, ControlInv, ChannelTypeOK, chanVars, adderVars,
      reqVars, outVars, loopVars

LEMMA OutsideType ==
  ASSUME TypeInv, Outside
  PROVE  TypeInv'
<1>1. ChannelTypeOK'
  BY EnvironmentType DEF Outside, TypeInv, TypeOK
<1>2. sock' = sock
  BY DEF Outside, Environment, TimerExpire, ServerSend, ServerClose
<1> QED
  BY <1>1, <1>2 DEF Outside, TypeInv, TypeOK, ControlInv, adderVars, resVars, reqVars,
                    outVars, loopVars

-----------------------------------------------------------------------------
(* The epoll loop.  A handler that ends with Go or ResMsgAdd.              *)

LEMMA GoType ==
  ASSUME NEW step \in Step, Go(step)
  PROVE  pc' \in Step /\ job' \in Job /\ pc' = step /\ job' = NoJob /\ crashed' = crashed
BY DEF Go, Job, NoJob, ResultCode, After

LEMMA ResMsgAddType ==
  ASSUME NEW id \in Nat, NEW code \in ResultCode, NEW then \in After,
         ResMsgAdd(id, code, then)
  PROVE  /\ pc' = "lookup" /\ pc' \in Step /\ job' \in Job
         /\ job'.then = then /\ job'.id = id /\ crashed' = crashed
BY DEF ResMsgAdd, Job, Step

(* A reconnect, then another step of the loop that needs no job.           *)
LEMMA ReconnectThenType ==
  ASSUME TypeInv, NEW c \in Channel, NEW step \in {"next", "out", "tail"},
         ReconnectThen(c, step), UNCHANGED <<adderVars, resVars, reqVars, msg_status>>,
         attempts' \in 0 .. MaxAttempts
  PROVE  TypeInv'
<1>1. ChannelTypeOK'
  BY ReconnectType DEF ReconnectThen, Restart, TypeInv, TypeOK
<1>2. Go(step) \/ Go("next")
  BY DEF ReconnectThen, Restart
<1>3. /\ pc' \in Step /\ job' \in Job /\ pc' \in {"next", "out", "tail"} /\ job' = NoJob
      /\ crashed' = crashed
  BY <1>2, GoType DEF Step
<1>4. batch' \subseteq Event
  BY DEF ReconnectThen, Restart, TypeInv, TypeOK
<1> QED
  BY <1>1, <1>3, <1>4 DEF TypeInv, TypeOK, ControlInv, adderVars, resVars, reqVars

LEMMA EpollWaitType ==
  ASSUME TypeInv, EpollWait
  PROVE  TypeInv'
<1>1. Ready \subseteq Event
  BY DEF Ready, Event
<1>2. batch' \subseteq Event
  BY <1>1 DEF EpollWait
<1>3. timer' \in [Channel -> {"off", "armed", "fired"}]
  BY DEF EpollWait, TypeInv, TypeOK, ChannelTypeOK
<1> QED
  BY <1>2, <1>3 DEF EpollWait, TypeInv, TypeOK, ControlInv, ChannelTypeOK, adderVars,
                    resVars, outVars

LEMMA SocketEventType ==
  ASSUME TypeInv, NEW c \in Channel, HupReconnect(c) \/ ConnectFd(c) \/ SockIn(c)
  PROVE  TypeInv'
<1> USE DEF TypeInv, TypeOK, Take, Done
<1>1. CASE HupReconnect(c)
  <2>1. ChannelTypeOK'
    BY <1>1, ReconnectType DEF HupReconnect, Restart
  <2> QED
    BY <1>1, <2>1, GoType DEF HupReconnect, Restart, ControlInv, adderVars, resVars, reqVars,
                              outVars, Step
<1>2. CASE ConnectFd(c)
  <2>1. ChannelTypeOK'
    BY <1>2, ConnectType DEF ConnectFd
  <2> QED
    BY <1>2, <2>1, GoType DEF ConnectFd, ControlInv, adderVars, resVars, reqVars,
                              outVars, Step
<1>3. CASE SockIn(c)
  <2>1. sock[c] # NoSock /\ c \in Step
    BY <1>3, ChannelAssumption DEF SockIn, Event, Req, Channel, Step
  <2>2. pc' = c /\ job' = NoJob /\ job' \in Job /\ crashed' = crashed
    BY <1>3, <2>1, GoType DEF SockIn
  <2> QED
    BY <1>3, <2>1, <2>2 DEF SockIn, ControlInv, ChannelTypeOK, chanVars, adderVars,
                            resVars, reqVars, outVars, Channel
<1> QED BY <1>1, <1>2, <1>3

LEMMA IgnoreType ==
  ASSUME TypeInv, NEW e \in Event, Ignore(e)
  PROVE  TypeInv'
BY GoType DEF Ignore, Take, Done, TypeInv, TypeOK, ControlInv, ChannelTypeOK, chanVars,
              adderVars, resVars, reqVars, outVars, Step

(* The oldest request, when there is one.                                  *)
LEMMA HeadType ==
  ASSUME TypeOK, msg_queue # <<>>
  PROVE  Head(msg_queue) \in Ids /\ Head(msg_queue) \in Nat
<1>1. msg_queue \in Seq(Ids) /\ Ids \subseteq Nat
  BY DEF TypeOK, Ids
<1>2. Len(msg_queue) \in Nat /\ Len(msg_queue) # 0
  BY <1>1
<1>3. msg_queue[1] \in Ids
  BY <1>1, <1>2
<1>4. Head(msg_queue) = msg_queue[1]
  BY <1>1
<1> QED BY <1>1, <1>3, <1>4

LEMMA RequestType ==
  ASSUME TypeInv, Request
  PROVE  TypeInv'
<1> USE DEF TypeInv
<1> DEFINE Kept == UNCHANGED <<adderVars, resVars, reqVars>> /\ batch' \subseteq Event
<1>1. ASSUME ReqEvent PROVE Kept
  BY <1>1 DEF ReqEvent, Done, TypeOK
<1>2. CASE ReqEmpty
  BY <1>2, <1>1, GoType
  DEF ReqEmpty, TypeOK, ControlInv, ChannelTypeOK, chanVars, adderVars, resVars, reqVars,
      outVars, Step
<1>3. ASSUME ReqUnavailable \/ ReqTooMany \/ ReqSendFails PROVE TypeInv'
  <2>1. msg_queue # <<>> /\ ReqEvent /\ UNCHANGED <<chanVars, outVars>>
    BY <1>3 DEF ReqUnavailable, ReqTooMany, ReqSendFails, Sending
  <2>2. PICK code \in ResultCode, then \in After :
          then # "none" /\ ResMsgAdd(Head(msg_queue), code, then)
    BY <1>3 DEF ReqUnavailable, ReqTooMany, ReqSendFails, ResultCode, After
  <2>3. pc' = "lookup" /\ pc' \in Step /\ job' \in Job /\ crashed' = crashed
    BY <2>1, <2>2, HeadType, ResMsgAddType
  <2> QED
    BY <2>1, <2>3, <1>1
    DEF TypeOK, ControlInv, ChannelTypeOK, chanVars, adderVars, resVars, reqVars, outVars
<1>4. CASE ReqSent
  BY <1>4, <1>1, GoType
  DEF ReqSent, Sending, TypeOK, ControlInv, ChannelTypeOK, chanVars, adderVars, resVars,
      reqVars, Step
<1>5. CASE ReqPartlySent
  <2>1. file' \in [Fd -> File]
    BY <1>5 DEF ReqPartlySent, TypeOK, ChannelTypeOK, File
  <2>2. attempts' \in 0 .. MaxAttempts
    BY <1>5, ClientAssumption DEF ReqPartlySent, Sending, TypeOK
  <2> QED
    BY <1>5, <2>1, <2>2, <1>1, GoType
    DEF ReqPartlySent, Sending, TypeOK, ControlInv, ChannelTypeOK, adderVars, resVars,
        reqVars, Step
<1>6. CASE OutReconnect
  BY <1>6, ReconnectThenType DEF OutReconnect, outVars, TypeOK, Channel
<1> QED BY <1>2, <1>3, <1>4, <1>5, <1>6 DEF Request

(* What the answer to a request makes the loop do next.                    *)
LEMMA OutAnswerJob ==
  ASSUME TypeInv, OutAnswer
  PROVE  /\ pc' \in Step /\ job' \in Job /\ crashed' \in BOOLEAN
         /\ (pc' = pc /\ job' = job /\ pc = "out")
             \/ (pc' = "tail" /\ job' = NoJob)
             \/ (pc' \in {"lookup", "del"} /\ msg_queue # <<>> /\ job'.then = "tail")
<1> DEFINE res == Rx("out")[1].res
<1> USE DEF TypeInv
<1>1. pc = "out"
  BY DEF OutAnswer, Parses, Read
<1>2. CASE res \in {"ok", "err"} /\ msg_queue = <<>>
  BY <1>1, <1>2 DEF OutAnswer, TypeOK
<1>3. CASE res = "err" /\ msg_queue # <<>>
  <2>1. ResMsgAdd(Head(msg_queue), "err", "tail")
    BY <1>3 DEF OutAnswer
  <2>2. "err" \in ResultCode /\ "tail" \in After
    BY DEF ResultCode, After
  <2> QED BY <2>1, <2>2, <1>3, HeadType, ResMsgAddType DEF TypeOK
<1>4. CASE res = "ok" /\ msg_queue # <<>>
  <2>1. pc' = "del" /\ job' = Accepted /\ crashed' = crashed
    BY <1>4 DEF OutAnswer
  <2> QED BY <2>1, <1>4 DEF Accepted, NoJob, Job, ResultCode, After, Step, TypeOK
<1>5. CASE res \notin {"ok", "err"}
  <2>1. Go("tail")
    BY <1>5 DEF OutAnswer
  <2> QED BY <2>1, GoType DEF Step, TypeOK
<1> QED BY <1>2, <1>3, <1>4, <1>5

LEMMA InputType ==
  ASSUME TypeInv, Input
  PROVE  TypeInv'
<1> USE DEF TypeInv
<1>1. ASSUME NEW c \in Channel, RecvMore(c) PROVE TypeInv'
  BY <1>1, ReceiveType
  DEF RecvMore, Read, CanRecv, TypeOK, ControlInv, ChannelTypeOK, adderVars, resVars,
      reqVars, outVars, loopVars
<1>2. CASE InNothing
  BY <1>2, GoType
  DEF InNothing, TypeOK, ControlInv, ChannelTypeOK, chanVars, adderVars, resVars, reqVars,
      outVars, Step
<1>3. CASE In400
  <2>1. CASE Receive("in") /\ Go("next") /\ UNCHANGED <<sock, chan_ready, timer, batch>>
    <3>1. sock["in"] # NoSock
      BY <1>3 DEF In400, Garbled, Read, ControlInv
    <3> QED
      BY <1>3, <2>1, <3>1, GoType, ReceiveType
      DEF In400, TypeOK, ControlInv, ChannelTypeOK, adderVars, resVars, reqVars, outVars,
          Step, Channel
  <2>2. CASE ReconnectThen("in", "next")
    BY <1>3, <2>2, ReconnectThenType DEF In400, outVars, TypeOK, Channel
  <2> QED BY <1>3, <2>1, <2>2 DEF In400
<1>4. CASE InReg
  <2>1. CASE Rx("in")[1].res = "ok"
    <3>1. pc' \in {"wake", "next"} /\ job' = NoJob /\ job' \in Job /\ crashed' = crashed
      BY <1>4, <2>1, GoType DEF InReg, Step
    <3>2. file' \in [Fd -> File] /\ len' \in [Channel -> 0 .. BuffSize]
      BY <1>4, <2>1, ReceiveType DEF InReg, Parses, Read, CanRecv, TypeOK, Channel
    <3> QED
      BY <1>4, <2>1, <3>1, <3>2
      DEF InReg, TypeOK, ControlInv, ChannelTypeOK, adderVars, resVars, reqVars, outVars,
          Step
  <2>2. CASE Rx("in")[1].res # "ok"
    BY <1>4, <2>2, ReconnectThenType DEF InReg, outVars, TypeOK, Channel
  <2> QED BY <2>1, <2>2
<1>5. CASE InResult
  <2> DEFINE m == Rx("in")[1]
             store == IF m.id = 0 THEN Go("next") ELSE ResMsgAdd(m.id, m.res, "none")
  <2>1. m \in Message
    <3>1. sock["in"] \in Fd /\ Rx("in") \in Seq(Message) /\ Got("in") > 0
      BY <1>5 DEF InResult, Parses, Read, CanRecv, Rx, TypeOK, ChannelTypeOK, File, Channel
    <3>2. Len(Rx("in")) > 0
      BY <3>1, ChannelAssumption DEF Got, TypeOK, ChannelTypeOK, Channel
    <3> QED BY <3>1, <3>2
  <2>2. ASSUME store
        PROVE  /\ pc' \in {"next", "lookup"} /\ job' \in Job /\ crashed' = crashed
               /\ pc' = "next" => job' = NoJob
               /\ job'.then = "none"
    <3>1. CASE m.id = 0
      BY <2>2, <3>1, GoType DEF Step, NoJob
    <3>2. CASE m.id # 0
      BY <2>1, <2>2, <3>2, ResMsgAddType DEF Message, After
    <3> QED BY <3>1, <3>2
  <2>3. CASE Receive("in") /\ store /\ UNCHANGED <<sock, chan_ready, timer, batch>>
    <3>1. file' \in [Fd -> File] /\ len' \in [Channel -> 0 .. BuffSize]
      BY <1>5, <2>3, ReceiveType DEF InResult, Parses, Read, CanRecv, TypeOK, Channel
    <3> HIDE DEF store
    <3> QED
      BY <1>5, <2>2, <2>3, <3>1
      DEF InResult, TypeOK, ControlInv, ChannelTypeOK, adderVars, resVars, reqVars, outVars,
          Step
  <2>4. CASE Reconnect("in") /\ store /\ UNCHANGED batch
    <3>1. ChannelTypeOK'
      BY <2>4, ReconnectType DEF TypeOK, Channel
    <3> HIDE DEF store
    <3> QED
      BY <1>5, <2>2, <2>4, <3>1
      DEF InResult, TypeOK, ControlInv, adderVars, resVars, reqVars, outVars, Step
  <2>5. CASE Restart("in")
    BY <1>5, <2>5, ReconnectThenType
    DEF InResult, ReconnectThen, outVars, TypeOK, Channel
  <2> QED BY <1>5, <2>3, <2>4, <2>5 DEF InResult
<1>6. CASE OutNothing
  BY <1>6, GoType
  DEF OutNothing, TypeOK, ControlInv, ChannelTypeOK, chanVars, adderVars, resVars, reqVars,
      outVars, Step
<1>7. CASE OutGarbled
  BY <1>7, ReconnectThenType DEF OutGarbled, outVars, TypeOK, Channel
<1>8. CASE OutReg
  <2>1. CASE Rx("out")[1].res \in {"ok", "not_ready"}
    <3>1. file' \in [Fd -> File] /\ len' \in [Channel -> 0 .. BuffSize]
      BY <1>8, <2>1, ReceiveType DEF OutReg, Parses, Read, CanRecv, TypeOK, Channel
    <3>2. msg_status' \in {"ready", "busy"}
      BY <1>8, <2>1 DEF OutReg, TypeOK
    <3>3. pc' = "tail" /\ job' = NoJob /\ job' \in Job /\ crashed' = crashed
      BY <1>8, <2>1, GoType DEF OutReg, Step
    <3> QED
      BY <1>8, <2>1, <3>1, <3>2, <3>3
      DEF OutReg, TypeOK, ControlInv, ChannelTypeOK, adderVars, resVars, reqVars, Step
  <2>2. CASE Rx("out")[1].res \notin {"ok", "not_ready"}
    BY <1>8, <2>2, ReconnectThenType DEF OutReg, TypeOK, Channel
  <2> QED BY <2>1, <2>2
<1>9. CASE OutAnswer
  <2> DEFINE res == Rx("out")[1].res
  <2>1. file' \in [Fd -> File] /\ len' \in [Channel -> 0 .. BuffSize]
    BY <1>9, ReceiveType DEF OutAnswer, Parses, Read, CanRecv, TypeOK, Channel
  <2>2. attempts' \in 0 .. MaxAttempts
    BY <1>9, ClientAssumption DEF OutAnswer, TypeOK
  <2>3. /\ pc' \in Step /\ job' \in Job /\ crashed' \in BOOLEAN
        /\ (pc' = pc /\ job' = job /\ pc = "out")
            \/ (pc' = "tail" /\ job' = NoJob)
            \/ (pc' \in {"lookup", "del"} /\ msg_queue # <<>> /\ job'.then = "tail")
    BY <1>9, OutAnswerJob
  <2>4. msg_status' = "ready" /\ UNCHANGED <<sock, chan_ready, timer, batch, adderVars, resVars, reqVars>>
    BY <1>9 DEF OutAnswer
  <2> QED
    BY <2>1, <2>2, <2>3, <2>4 DEF TypeOK, ControlInv, ChannelTypeOK, adderVars, resVars, reqVars
<1>10. CASE OutTail
  BY <1>10, GoType
  DEF OutTail, TypeOK, ControlInv, ChannelTypeOK, chanVars, adderVars, resVars, reqVars,
      outVars, Step
<1> QED
  BY <1>1, <1>2, <1>3, <1>4, <1>5, <1>6, <1>7, <1>8, <1>9, <1>10 DEF Input

(* Back to the batch, or on to reqMsgDel.                                  *)
LEMMA AfterResMsgAddType ==
  ASSUME TypeInv, pc \in {"lookup", "publish"}, AfterResMsgAdd
  PROVE  /\ pc' \in Step /\ job' \in Job /\ crashed' = crashed
         /\ \/ pc' = "next" /\ job' = NoJob
            \/ pc' = "del" /\ msg_queue # <<>> /\ job'.then # "none"
<1>1. CASE job.then = "none"
  BY <1>1, GoType DEF AfterResMsgAdd, Step
<1>2. CASE job.then # "none"
  BY <1>2 DEF AfterResMsgAdd, TypeInv, TypeOK, ControlInv, Step
<1> QED BY <1>1, <1>2

LEMMA ResultType ==
  ASSUME TypeInv, Result
  PROVE  TypeInv'
<1> USE DEF TypeInv, TypeOK, ControlInv, ChannelTypeOK, chanVars, adderVars, resVars,
            reqVars, outVars, Step
<1>1. CASE ResLookup
  <2>1. CASE pc' = "write" /\ UNCHANGED <<job, crashed>> /\ job.id \in Ids
    BY <1>1, <2>1 DEF ResLookup
  <2>2. CASE AfterResMsgAdd
    BY <1>1, <2>2, AfterResMsgAddType DEF ResLookup
  <2> QED BY <1>1, <2>1, <2>2 DEF ResLookup
<1>2. CASE ResWrite
  <2>1. res_umap' \in [Ids -> {"absent", "unset"} \cup ResultCode]
    BY <1>2 DEF ResWrite, Job
  <2> QED BY <1>2, <2>1 DEF ResWrite
<1>3. CASE ResPublish
  <2>1. res_set' \subseteq Ids /\ answers' \in Seq(Ids)
    BY <1>3 DEF ResPublish
  <2> QED BY <1>3, <2>1, AfterResMsgAddType DEF ResPublish
<1>4. CASE ReqMsgDelStamp
  BY <1>4 DEF ReqMsgDelStamp
<1>5. CASE ReqMsgDelUnlink
  <2>1. Tail(msg_queue) \in Seq(Ids) /\ job.then \in Step
    BY <1>5 DEF ReqMsgDelUnlink, Job, After
  <2>2. pc' = job.then /\ job' = NoJob /\ job' \in Job /\ crashed' = crashed
    BY <1>5, <2>1, GoType DEF ReqMsgDelUnlink
  <2>3. pc' \in {"next", "reconnect", "wake", "tail"}
    BY <1>5, <2>2 DEF ReqMsgDelUnlink, Job, After
  <2> QED BY <1>5, <2>1, <2>2, <2>3 DEF ReqMsgDelUnlink
<1>6. CASE Wake
  BY <1>6, GoType DEF Wake
<1> QED BY <1>1, <1>2, <1>3, <1>4, <1>5, <1>6 DEF Result

LEMMA TypeStep == TypeInv /\ [Next]_vars => TypeInv'
<1> SUFFICES ASSUME TypeInv, [Next]_vars PROVE TypeInv'
  OBVIOUS
<1>1. CASE UNCHANGED vars
  BY <1>1 DEF vars, TypeInv, TypeOK, ControlInv, ChannelTypeOK, chanVars, adderVars,
              resVars, reqVars, outVars, loopVars
<1>2. CASE LoopNext
  BY <1>2, EpollWaitType, SocketEventType, IgnoreType, RequestType, InputType, ResultType
  DEF LoopNext
<1> QED BY <1>1, <1>2, AdderType, ConsumeType, OutsideType DEF Next

(* Every reachable state is well typed, whatever the number of requests,   *)
(* descriptors and events: recv.len stays in its buffer, attempts at its   *)
(* limit, and each step of the loop finds the data it works on.            *)
THEOREM TypeCorrect == Spec => []TypeOK
BY TypeStep, InitType, PTL DEF Spec, TypeInv

-----------------------------------------------------------------------------
(* Identifiers are given out one by one and leave the queue at its front,  *)
(* so the queue is always an interval: Oldest, Oldest + 1, ..., Newest.    *)

Newest == IF adder \in {"stamp", "link"} THEN msg_id - 1 ELSE msg_id
Oldest == Newest - Len(msg_queue) + 1

QueueInv == \A k \in DOMAIN msg_queue : msg_queue[k] = Oldest + k - 1

(* The stamps are an interval too; it is ahead of the queue at one end     *)
(* inside reqMsgAdd, and at the other inside reqMsgDel.                    *)
StampInv ==
  \A i \in Ids : i \in exp_stamps <=>
    /\ (IF pc = "unlink" THEN Oldest + 1 ELSE Oldest) <= i
    /\ i <= (IF adder = "link" THEN msg_id ELSE Newest)

SafeInv == TypeInv /\ QueueInv /\ StampInv

LEMMA IntervalType ==
  ASSUME TypeInv
  PROVE  /\ Newest \in Nat /\ Oldest \in Int /\ Len(msg_queue) \in Nat /\ msg_id \in Nat
         /\ Newest <= MaxReq /\ MaxReq \in Nat
         /\ DOMAIN msg_queue = 1 .. Len(msg_queue)
         /\ adder \in {"stamp", "link"} => msg_id = Newest + 1 /\ msg_id <= MaxReq
         /\ adder \notin {"stamp", "link"} => msg_id = Newest
<1>1. msg_id \in 0 .. MaxReq /\ MaxReq \in Nat /\ msg_queue \in Seq(Ids)
  BY ClientAssumption DEF TypeInv, TypeOK
<1>2. adder \in {"stamp", "link"} => msg_id \in Ids
  BY DEF TypeInv, ControlInv
<1>3. Newest \in Nat /\ Newest <= MaxReq
  BY <1>1, <1>2 DEF Newest, Ids
<1>4. Len(msg_queue) \in Nat /\ DOMAIN msg_queue = 1 .. Len(msg_queue)
  BY <1>1
<1> QED BY <1>1, <1>2, <1>3, <1>4 DEF Newest, Oldest, Ids

(* The requests in the queue, and the first of them.                       *)
LEMMA QueueRange ==
  ASSUME TypeInv, QueueInv
  PROVE  /\ Queued = Oldest .. Newest
         /\ msg_queue # <<>> => /\ Head(msg_queue) = Oldest /\ Oldest \in Queued
                                /\ Oldest \in Ids /\ Oldest <= Newest
<1>1. msg_queue \in Seq(Ids)
  BY DEF TypeInv, TypeOK
<1>2. ASSUME NEW i \in Queued PROVE i \in Oldest .. Newest
  <2>1. PICK k \in DOMAIN msg_queue : i = msg_queue[k]
    BY <1>2 DEF Queued
  <2> QED BY <2>1, IntervalType DEF QueueInv, Oldest
<1>3. ASSUME NEW i \in Oldest .. Newest PROVE i \in Queued
  <2> DEFINE k == i - Oldest + 1
  <2>1. k \in DOMAIN msg_queue /\ msg_queue[k] = i
    BY IntervalType DEF QueueInv, Oldest
  <2> QED BY <2>1 DEF Queued
<1>4. ASSUME msg_queue # <<>>
      PROVE  /\ Head(msg_queue) = Oldest /\ Oldest \in Queued /\ Oldest \in Ids
             /\ Oldest <= Newest
  <2>1. Len(msg_queue) # 0
    BY <1>1, <1>4
  <2>2. 1 \in DOMAIN msg_queue
    BY <2>1, IntervalType
  <2>3. msg_queue[1] = Oldest
    BY <2>2, IntervalType DEF QueueInv
  <2>5. Head(msg_queue) = msg_queue[1]
    BY <1>1, <2>1
  <2>6. Oldest <= Newest
    BY <2>1, IntervalType DEF Oldest
  <2>4. msg_queue[1] \in Ids
    BY <1>1, <2>2
  <2> QED BY <2>2, <2>3, <2>4, <2>5, <2>6 DEF Queued
<1> QED BY <1>2, <1>3, <1>4

LEMMA SafeImpliesMatch == SafeInv => StampsMatchQueue
<1> SUFFICES ASSUME SafeInv
             PROVE  exp_stamps =
                      (Queued \ (IF pc = "unlink" THEN {Head(msg_queue)} ELSE {}))
                        \cup (IF adder = "link" THEN {msg_id} ELSE {})
  BY DEF StampsMatchQueue
<1>1. exp_stamps \subseteq Ids /\ Queued \subseteq Ids
  BY DEF SafeInv, TypeInv, TypeOK, Queued
<1>2. pc = "unlink" => Head(msg_queue) = Oldest
  BY QueueRange DEF SafeInv, TypeInv, ControlInv
<1>3. adder = "link" => msg_id \in Ids
  BY DEF SafeInv, TypeInv, ControlInv
<1>4. \A i \in Ids : i \in Int
  BY IntervalType DEF SafeInv, Ids
<1>5. ASSUME NEW i \in Ids
      PROVE  i \in exp_stamps <=>
               \/ i \in Queued /\ ~(pc = "unlink" /\ i = Oldest)
               \/ adder = "link" /\ i = msg_id
  <2>1. i \in Queued <=> Oldest <= i /\ i <= Newest
    BY <1>4, QueueRange, IntervalType DEF SafeInv
  <2>2. pc = "unlink" => Oldest <= Newest
    BY QueueRange DEF SafeInv, TypeInv, ControlInv
  <2>3. i \in exp_stamps <=>
          /\ (IF pc = "unlink" THEN Oldest + 1 ELSE Oldest) <= i
          /\ i <= (IF adder = "link" THEN msg_id ELSE Newest)
    BY DEF SafeInv, StampInv
  <2>4. Oldest <= Newest + 1
    BY IntervalType DEF SafeInv, Oldest
  <2> QED BY <1>4, <2>1, <2>2, <2>3, <2>4, IntervalType DEF SafeInv
<1> QED BY <1>1, <1>2, <1>3, <1>5

-----------------------------------------------------------------------------
(* The steps of the loop outside reqMsgDel leave the queue, its stamps and *)
(* reqMsgAdd alone.                                                        *)

QueueVars == <<msg_id, adder, msg_queue, exp_stamps>>
Quiet == UNCHANGED QueueVars /\ pc # "unlink" /\ pc' # "unlink"

LEMMA ReconnectPc ==
  ASSUME NEW c \in Channel, NEW step, ReconnectThen(c, step)
  PROVE  pc' \in {step, "next"} /\ job' = NoJob
BY DEF ReconnectThen, Restart, Go

LEMMA QuietEvents ==
  ASSUME TypeInv,
         \/ EpollWait
         \/ \E c \in Channel : HupReconnect(c) \/ ConnectFd(c) \/ SockIn(c)
         \/ \E e \in Event : Ignore(e)
  PROVE  Quiet
<1> USE DEF Quiet, QueueVars, adderVars, reqVars
<1>1. CASE EpollWait
  BY <1>1 DEF EpollWait
<1>2. ASSUME NEW c \in Channel, HupReconnect(c) \/ ConnectFd(c) \/ SockIn(c)
      PROVE  Quiet
  BY <1>2 DEF HupReconnect, ConnectFd, SockIn, Restart, Take, Go, Channel
<1>3. ASSUME NEW e \in Event, Ignore(e) PROVE Quiet
  BY <1>3 DEF Ignore, Take, Go
<1> QED BY <1>1, <1>2, <1>3

LEMMA QuietRequest ==
  ASSUME TypeInv, Request
  PROVE  Quiet
<1> USE DEF Quiet, QueueVars, adderVars, reqVars, Go, ResMsgAdd, ReqEvent, Take, Sending
<1>1. CASE ReqEmpty \/ ReqSent \/ ReqPartlySent
  BY <1>1 DEF ReqEmpty, ReqSent, ReqPartlySent
<1>2. CASE ReqUnavailable \/ ReqTooMany \/ ReqSendFails
  BY <1>2 DEF ReqUnavailable, ReqTooMany, ReqSendFails
<1>3. CASE OutReconnect
  BY <1>3, ReconnectPc DEF OutReconnect, Channel
<1> QED BY <1>1, <1>2, <1>3 DEF Request

LEMMA QuietInput ==
  ASSUME TypeInv, Input
  PROVE  Quiet
<1> USE DEF Quiet, QueueVars, adderVars, reqVars, Read, Parses, Channel
<1>1. ASSUME NEW c \in Channel, RecvMore(c) PROVE Quiet
  BY <1>1 DEF RecvMore, loopVars
<1>2. CASE InNothing \/ OutNothing \/ OutTail
  BY <1>2 DEF InNothing, OutNothing, OutTail, Go
<1>3. CASE In400
  BY <1>3, ReconnectPc DEF In400, Garbled, Go
<1>4. CASE InReg
  BY <1>4, ReconnectPc DEF InReg, Go
<1>5. CASE InResult
  BY <1>5 DEF InResult, Restart, Go, ResMsgAdd
<1>6. CASE OutGarbled
  BY <1>6, ReconnectPc DEF OutGarbled, Garbled
<1>7. CASE OutReg
  BY <1>7, ReconnectPc DEF OutReg, Go
<1>8. CASE OutAnswer
  <2>1. UNCHANGED QueueVars /\ pc = "out"
    BY <1>8 DEF OutAnswer
  <2> QED BY <1>8, <2>1, OutAnswerJob
<1> QED
  BY <1>1, <1>2, <1>3, <1>4, <1>5, <1>6, <1>7, <1>8 DEF Input

LEMMA QuietResult ==
  ASSUME TypeInv, ResLookup \/ ResWrite \/ ResPublish \/ Wake
  PROVE  Quiet
BY AfterResMsgAddType
DEF Quiet, QueueVars, adderVars, reqVars, ResLookup, ResWrite, ResPublish, Wake, Go

LEMMA QuietLoop ==
  ASSUME TypeInv, LoopNext
  PROVE  Quiet \/ ReqMsgDelStamp \/ ReqMsgDelUnlink
BY QuietEvents, QuietRequest, QuietInput, QuietResult DEF LoopNext, Result

LEMMA QuietKeepsSafe ==
  ASSUME SafeInv, UNCHANGED QueueVars, pc' = "unlink" <=> pc = "unlink"
  PROVE  QueueInv' /\ StampInv'
BY DEF SafeInv, QueueVars, QueueInv, StampInv, Newest, Oldest

-----------------------------------------------------------------------------
(* The steps of reqMsgAdd and reqMsgDel.                                   *)

LEMMA SafeInit == Init => SafeInv
<1> SUFFICES ASSUME Init PROVE SafeInv
  OBVIOUS
<1>1. TypeInv /\ Newest = 0 /\ Oldest = 1
  BY InitType DEF Init, Newest, Oldest
<1>2. QueueInv
  BY DEF Init, QueueInv
<1>3. StampInv
  BY <1>1 DEF Init, StampInv, Ids
<1> QED BY <1>1, <1>2, <1>3 DEF SafeInv

LEMMA AdderSafe ==
  ASSUME SafeInv, ReqMsgAddEmplace \/ AdderContinue
  PROVE  QueueInv' /\ StampInv'
<1> USE DEF SafeInv, loopVars
<1>1. CASE ReqMsgAddEmplace
  <2>1. Newest' = Newest /\ Oldest' = Oldest /\ UNCHANGED <<msg_queue, exp_stamps, pc>>
    BY <1>1, IntervalType DEF ReqMsgAddEmplace, reqVars, Newest, Oldest
  <2> QED BY <1>1, <2>1 DEF QueueInv, StampInv, ReqMsgAddEmplace
<1>2. CASE ReqMsgAddStamp
  <2>1. Newest' = Newest /\ Oldest' = Oldest /\ UNCHANGED <<msg_queue, pc, msg_id>>
    BY <1>2, IntervalType DEF ReqMsgAddStamp, Newest, Oldest
  <2>2. msg_id = Newest + 1 /\ exp_stamps' = exp_stamps \cup {msg_id}
    BY <1>2, IntervalType DEF ReqMsgAddStamp
  <2>3. ASSUME NEW i \in Ids
        PROVE  i \in exp_stamps' <=>
                 /\ (IF pc = "unlink" THEN Oldest + 1 ELSE Oldest) <= i
                 /\ i <= msg_id
    <3>1. pc = "unlink" => Oldest <= Newest
      BY QueueRange DEF TypeInv, ControlInv
    <3>2. i \in Int /\ Oldest <= Newest + 1
      BY IntervalType DEF Ids, Oldest
    <3>3. i \in exp_stamps <=>
            /\ (IF pc = "unlink" THEN Oldest + 1 ELSE Oldest) <= i
            /\ i <= Newest
      BY <1>2 DEF StampInv, ReqMsgAddStamp
    <3> QED BY <2>2, <3>1, <3>2, <3>3, IntervalType
  <2> QED BY <1>2, <2>1, <2>3 DEF QueueInv, StampInv, ReqMsgAddStamp
<1>3. CASE ReqMsgAddLink
  <2>1. msg_queue \in Seq(Ids) /\ msg_id \in Ids
    BY <1>3 DEF TypeInv, TypeOK, ControlInv, ReqMsgAddLink
  <2>2. /\ Len(msg_queue') = Len(msg_queue) + 1
        /\ \A k \in 1 .. Len(msg_queue) : msg_queue'[k] = msg_queue[k]
        /\ msg_queue'[Len(msg_queue) + 1] = msg_id
        /\ DOMAIN msg_queue' = 1 .. Len(msg_queue) + 1
    BY <1>3, <2>1 DEF ReqMsgAddLink
  <2>3. /\ UNCHANGED <<exp_stamps, pc, msg_id>>
        /\ Newest' = Newest + 1 /\ Oldest' = Oldest /\ Newest' = msg_id
    BY <1>3, <2>2, IntervalType DEF ReqMsgAddLink, Newest, Oldest
  <2>4. QueueInv'
    <3> SUFFICES ASSUME NEW k \in 1 .. Len(msg_queue) + 1
                 PROVE  msg_queue'[k] = Oldest + k - 1
      BY <2>2, <2>3 DEF QueueInv
    <3>1. CASE k \in 1 .. Len(msg_queue)
      BY <2>2, <3>1, IntervalType DEF QueueInv
    <3>2. CASE k = Len(msg_queue) + 1
      BY <2>2, <2>3, <3>2, IntervalType DEF Oldest
    <3> QED BY <3>1, <3>2, IntervalType
  <2> QED BY <1>3, <2>3, <2>4 DEF StampInv, ReqMsgAddLink
<1>4. CASE ReqMsgAddWake
  <2>1. Newest' = Newest /\ Oldest' = Oldest /\ UNCHANGED <<msg_queue, exp_stamps, pc>>
    BY <1>4, IntervalType DEF ReqMsgAddWake, Newest, Oldest
  <2> QED BY <1>4, <2>1 DEF QueueInv, StampInv, ReqMsgAddWake
<1> QED BY <1>1, <1>2, <1>3, <1>4 DEF AdderContinue

LEMMA DelSafe ==
  ASSUME SafeInv, ReqMsgDelStamp \/ ReqMsgDelUnlink
  PROVE  QueueInv' /\ StampInv'
<1> USE DEF SafeInv, adderVars
<1>1. msg_queue # <<>> /\ msg_queue \in Seq(Ids)
  BY DEF TypeInv, TypeOK, ControlInv, ReqMsgDelStamp, ReqMsgDelUnlink
<1>2. CASE ReqMsgDelStamp
  <2>1. Newest' = Newest /\ Oldest' = Oldest /\ UNCHANGED <<msg_queue, msg_id, adder>>
    BY <1>2 DEF ReqMsgDelStamp, Newest, Oldest
  <2>2. exp_stamps' = exp_stamps \ {Oldest}
    BY <1>1, <1>2, QueueRange DEF ReqMsgDelStamp
  <2>3. ASSUME NEW i \in Ids
        PROVE  i \in exp_stamps' <=> /\ Oldest + 1 <= i
                                     /\ i <= (IF adder = "link" THEN msg_id ELSE Newest)
    BY <1>2, <2>2, IntervalType DEF ReqMsgDelStamp, StampInv, Ids
  <2> QED BY <1>2, <2>1, <2>3 DEF QueueInv, StampInv, ReqMsgDelStamp
<1>3. CASE ReqMsgDelUnlink
  <2>1. /\ Len(msg_queue') = Len(msg_queue) - 1
        /\ DOMAIN msg_queue' = 1 .. Len(msg_queue) - 1
        /\ \A k \in 1 .. Len(msg_queue) - 1 : msg_queue'[k] = msg_queue[k + 1]
    BY <1>1, <1>3 DEF ReqMsgDelUnlink
  <2>2. /\ UNCHANGED <<exp_stamps, msg_id, adder>>
        /\ Newest' = Newest /\ Oldest' = Oldest + 1
    BY <1>3, <2>1, IntervalType DEF ReqMsgDelUnlink, Newest, Oldest
  <2>3. QueueInv'
    <3> SUFFICES ASSUME NEW k \in 1 .. Len(msg_queue) - 1
                 PROVE  msg_queue'[k] = Oldest + 1 + k - 1
      BY <2>1, <2>2 DEF QueueInv
    <3>1. k + 1 \in DOMAIN msg_queue
      BY IntervalType
    <3>2. msg_queue[k + 1] = Oldest + (k + 1) - 1
      BY <3>1 DEF QueueInv
    <3>3. msg_queue'[k] = msg_queue[k + 1]
      BY <2>1
    <3> QED BY <3>2, <3>3, IntervalType
  <2>4. pc = "unlink" /\ pc' # "unlink"
    BY <1>3 DEF ReqMsgDelUnlink, Go, TypeInv, TypeOK, Job, After
  <2> QED BY <2>2, <2>3, <2>4 DEF StampInv
<1> QED BY <1>2, <1>3

LEMMA SafeStep == SafeInv /\ [Next]_vars => SafeInv'
<1> SUFFICES ASSUME SafeInv, [Next]_vars PROVE QueueInv' /\ StampInv'
  BY TypeStep DEF SafeInv
<1>1. ASSUME UNCHANGED QueueVars, pc' = "unlink" <=> pc = "unlink"
      PROVE  QueueInv' /\ StampInv'
  BY <1>1, QuietKeepsSafe
<1>2. CASE UNCHANGED vars
  BY <1>1, <1>2 DEF vars, adderVars, reqVars, loopVars, QueueVars
<1>3. CASE ReqMsgAddEmplace \/ AdderContinue
  BY <1>3, AdderSafe
<1>4. CASE \E id \in Ids : Consume(id)
  BY <1>1, <1>4 DEF Consume, adderVars, reqVars, loopVars, QueueVars
<1>5. CASE Outside
  BY <1>1, <1>5 DEF Outside, adderVars, reqVars, loopVars, QueueVars
<1>6. CASE LoopNext
  BY <1>1, <1>6, QuietLoop, DelSafe DEF SafeInv, Quiet
<1> QED BY <1>2, <1>3, <1>4, <1>5, <1>6 DEF Next

(* The expiry stamps are those of the queued requests, except inside the   *)
(* two windows of reqMsgAdd and reqMsgDel, for any number of requests, any *)
(* server and with exceptions.                                             *)
THEOREM StampsMatch == Spec => []StampsMatchQueue
BY SafeInit, SafeStep, SafeImpliesMatch, PTL DEF Spec
-----------------------------------------------------------------------------
(* The code as it stands.                                                  *)

(* out.recv.buff is null, and the server sends no result of a request this *)
(* client numbered: none was ever sent to it.                              *)
AsIs ==
  /\ OutBuff = FALSE
  /\ \A c \in Channel : \A m \in ServerMsg[c] : m.reg \/ m.id \notin Ids

-----------------------------------------------------------------------------
(* Nothing unread on a socket is the result of a request of this client.   *)

Harmless == {m \in Message : m.reg \/ m.id \notin Ids}
RxInv == \A f \in Fd : file[f].rx \in Seq(Harmless)
RxOf(files) == \A f \in Fd : files[f].rx \in Seq(Harmless)

LEMMA EmptyRx == ClosedFile.rx \in Seq(Harmless) /\ Connected.rx \in Seq(Harmless)
<1>1. <<>> \in Seq(Harmless)
  OBVIOUS
<1> QED BY <1>1 DEF ClosedFile, Connected

(* Closing and opening sockets.                                            *)
LEMMA ConnectRx ==
  ASSUME NEW files \in [Fd -> File], RxOf(files)
  PROVE  /\ \A f \in Fd : RxOf([files EXCEPT ![f] = ClosedFile])
         /\ \A f \in Fd : RxOf([files EXCEPT ![f] = Connected])
         /\ \A r \in SsConnect(files) : RxOf(r.file) /\ r.file \in [Fd -> File]
                                        /\ r.sock \in Fd \cup {NoSock}
<1>1. ASSUME NEW f \in Fd
      PROVE  /\ RxOf([files EXCEPT ![f] = ClosedFile])
             /\ RxOf([files EXCEPT ![f] = Connected])
  BY EmptyRx DEF RxOf
<1>2. ASSUME NEW r \in SsConnect(files)
      PROVE  RxOf(r.file) /\ r.file \in [Fd -> File] /\ r.sock \in Fd \cup {NoSock}
  <2>1. CASE r = [sock |-> NoSock, file |-> files]
    BY <2>1
  <2>2. ASSUME NEW f \in Fd, r = [sock |-> f, file |-> [files EXCEPT ![f] = Connected]]
        PROVE  RxOf(r.file) /\ r.file \in [Fd -> File] /\ r.sock \in Fd \cup {NoSock}
    <3>1. r.file = [files EXCEPT ![f] = Connected] /\ r.sock = f
      BY <2>2
    <3>2. r.file \in [Fd -> File]
      BY <3>1, NewFiles
    <3> QED BY <1>1, <3>1, <3>2
  <2> QED BY <2>1, <2>2 DEF SsConnect
<1> QED BY <1>1, <1>2

LEMMA ReconnectRx ==
  ASSUME ChannelTypeOK, RxInv, NEW c \in Channel, Reconnect(c) \/ ReconnectThrows(c)
  PROVE  RxInv'
<1> USE DEF ChannelTypeOK
<1>1. CASE sock[c] = NoSock
  BY <1>1 DEF Reconnect, ReconnectThrows, RxInv
<1>2. CASE sock[c] # NoSock
  <2>1. CloseFd(sock[c]) \in [Fd -> File] /\ RxOf(CloseFd(sock[c]))
    BY <1>2, ConnectRx, NewFiles DEF CloseFd, RxInv, RxOf
  <2>2. CASE Reconnect(c)
    BY <2>1, <2>2, ConnectRx DEF Reconnect, RxInv, RxOf
  <2>3. CASE ReconnectThrows(c)
    <3>1. PICK f \in Fd : file' = [CloseFd(sock[c]) EXCEPT ![f] = Connected]
      BY <1>2, <2>3 DEF ReconnectThrows, ThrowInSsConnect
    <3>2. RxOf(file')
      BY <2>1, <3>1, ConnectRx
    <3> QED BY <3>2 DEF RxOf, RxInv
  <2> QED BY <2>2, <2>3
<1> QED BY <1>1, <1>2

LEMMA ConnectFdRx ==
  ASSUME ChannelTypeOK, RxInv, NEW c \in Channel, ConnectChannel(c) \/ ConnectThrows(c)
  PROVE  RxInv'
<1> USE DEF ChannelTypeOK
<1>1. RxOf(file)
  BY DEF RxOf, RxInv
<1>2. CASE ConnectChannel(c)
  <2>1. PICK r \in SsConnect(file) :
          IF r.sock = NoSock
          THEN /\ file' = r.file
               /\ timer' = [timer EXCEPT ![c] = "armed"]
          ELSE /\ file' = [r.file EXCEPT ![r.sock].epoll = "in"]
               /\ timer' = timer
    BY <1>2 DEF ConnectChannel
  <2>2. RxOf(r.file) /\ r.file \in [Fd -> File] /\ r.sock \in Fd \cup {NoSock}
    BY <1>1, ConnectRx
  <2>3. ASSUME NEW f \in Fd PROVE file'[f].rx = r.file[f].rx
    <3>1. CASE r.sock = NoSock
      BY <2>1, <3>1
    <3>2. CASE r.sock # NoSock
      <4>1. file' = [r.file EXCEPT ![r.sock].epoll = "in"]
        BY <2>1, <3>2
      <4> QED BY <2>2, <4>1 DEF File
    <3> QED BY <3>1, <3>2
  <2> QED BY <2>2, <2>3 DEF RxOf, RxInv
<1>3. CASE ConnectThrows(c)
  <2>1. PICK f \in Fd : file' = [file EXCEPT ![f] = Connected]
    BY <1>3 DEF ConnectThrows, ThrowInSsConnect
  <2>2. RxOf(file')
    BY <1>1, <2>1, ConnectRx
  <2> QED BY <2>2 DEF RxOf, RxInv
<1> QED BY <1>2, <1>3

LEMMA EnvironmentRx ==
  ASSUME AsIs, ChannelTypeOK, RxInv, Environment
  PROVE  RxInv'
<1>1. ASSUME NEW c \in Channel, TimerExpire(c) PROVE RxInv'
  BY <1>1 DEF TimerExpire, RxInv
<1>2. ASSUME NEW c \in Channel, ServerSend(c) PROVE RxInv'
  <2>1. PICK m \in ServerMsg[c] : file' = [file EXCEPT ![sock[c]].rx = Append(@, m)]
    BY <1>2 DEF ServerSend
  <2>2. sock[c] \in Fd /\ m \in Harmless
    BY <1>2, ChannelAssumption DEF ServerSend, ChannelTypeOK, AsIs, Harmless
  <2>3. Append(file[sock[c]].rx, m) \in Seq(Harmless)
    BY <2>2 DEF RxInv
  <2>4. ASSUME NEW f \in Fd PROVE file'[f].rx \in Seq(Harmless)
    BY <2>1, <2>2, <2>3 DEF RxInv, ChannelTypeOK, File
  <2> QED BY <2>4 DEF RxInv
<1>3. ASSUME NEW f \in Fd, ServerClose(f) PROVE RxInv'
  BY <1>3 DEF ServerClose, RxInv, ChannelTypeOK, File
<1> QED BY <1>1, <1>2, <1>3 DEF Environment

LEMMA ReceiveRx ==
  ASSUME ChannelTypeOK, RxInv, NEW c \in Channel, sock[c] # NoSock, Receive(c)
  PROVE  RxInv'
<1>1. sock[c] \in Fd /\ Rx(c) \in Seq(Harmless) /\ len[c] \in 0 .. BuffSize
  BY DEF ChannelTypeOK, Rx, RxInv
<1>2. Got(c) \in Nat /\ Got(c) <= Len(Rx(c))
  BY <1>1, ChannelAssumption DEF Got
<1>3. SubSeq(Rx(c), Got(c) + 1, Len(Rx(c))) \in Seq(Harmless)
  BY <1>1, <1>2
<1>4. ASSUME NEW f \in Fd PROVE file'[f].rx \in Seq(Harmless)
  BY <1>1, <1>3 DEF Receive, Rx, RxInv, ChannelTypeOK, File
<1> QED BY <1>4 DEF RxInv

-----------------------------------------------------------------------------
(* The loop never finds the out channel ready, so it answers each request  *)
(* itself; a result from the server is for a request it does not know.     *)

Work == {"lookup", "write", "publish", "del", "unlink"}

ControlAsIs ==
  /\ ~chan_ready["out"]
  /\ pc \notin {"reconnect", "tail"}
  /\ pc \in Work =>
       \/ job.then = "wake" /\ job.id = Oldest
       \/ pc = "lookup" /\ job.then = "none" /\ job.id \notin Ids

AsIsInv == SafeInv /\ RxInv /\ ControlAsIs

(* A step of the loop that is not one of resMsgAdd or reqMsgDel.           *)
Resting ==
  /\ UNCHANGED resVars
  /\ pc \notin Work /\ (pc' \in Work => pc' = "lookup")

LEMMA ReconnectAsIs ==
  ASSUME AsIsInv, NEW c \in Channel, Reconnect(c) \/ ReconnectThrows(c)
  PROVE  RxInv' /\ ~chan_ready'["out"]
<1>1. RxInv'
  BY ReconnectRx DEF AsIsInv, SafeInv, TypeInv, TypeOK
<1>2. ~chan_ready'["out"]
  <2>1. chan_ready' = [chan_ready EXCEPT ![c] = FALSE]
    BY DEF Reconnect, ReconnectThrows
  <2>2. chan_ready \in [Channel -> BOOLEAN] /\ "out" \in Channel /\ ~chan_ready["out"]
    BY DEF AsIsInv, ControlAsIs, SafeInv, TypeInv, TypeOK, ChannelTypeOK, Channel
  <2> QED BY <2>1, <2>2
<1> QED BY <1>1, <1>2

LEMMA EventsAsIs ==
  ASSUME AsIs, AsIsInv,
         \/ EpollWait
         \/ \E c \in Channel : HupReconnect(c) \/ ConnectFd(c) \/ SockIn(c)
         \/ \E e \in Event : Ignore(e)
  PROVE  Resting /\ RxInv' /\ ControlAsIs'
<1> USE DEF Resting, ControlAsIs, Work, RxInv, Go
<1>1. CASE EpollWait
  BY <1>1 DEF EpollWait, AsIsInv
<1>2. ASSUME NEW c \in Channel, HupReconnect(c) \/ ConnectFd(c) \/ SockIn(c)
      PROVE  Resting /\ RxInv' /\ ControlAsIs'
  <2>1. CASE HupReconnect(c)
    <3>1. RxInv' /\ ~chan_ready'["out"]
      BY <2>1, ReconnectAsIs DEF HupReconnect, Restart
    <3> QED BY <2>1, <3>1 DEF HupReconnect, Restart, Take
  <2>2. CASE ConnectFd(c)
    <3>1. RxInv'
      BY <2>2, ConnectFdRx DEF ConnectFd, AsIsInv, SafeInv, TypeInv, TypeOK
    <3> QED
      BY <2>2, <3>1 DEF ConnectFd, ConnectChannel, ConnectThrows, Take, AsIsInv
  <2>3. CASE SockIn(c)
    BY <2>3 DEF SockIn, Take, AsIsInv, chanVars, Channel
  <2> QED BY <1>2, <2>1, <2>2, <2>3
<1>3. ASSUME NEW e \in Event, Ignore(e) PROVE Resting /\ RxInv' /\ ControlAsIs'
  BY <1>3 DEF Ignore, Take, AsIsInv, chanVars
<1> QED BY <1>1, <1>2, <1>3

LEMMA RequestAsIs ==
  ASSUME AsIs, AsIsInv, Request
  PROVE  Resting /\ RxInv' /\ ControlAsIs'
<1> USE DEF Resting, ControlAsIs, Work, RxInv, Go, ReqEvent, Take, AsIsInv, Sendable
<1>1. CASE ReqEmpty
  BY <1>1 DEF ReqEmpty, chanVars
<1>2. CASE ReqUnavailable
  <2>1. Oldest' = Oldest /\ Head(msg_queue) = Oldest
    BY <1>2, QueueRange
    DEF ReqUnavailable, SafeInv, adderVars, reqVars, Oldest, Newest
  <2> QED BY <1>2, <2>1 DEF ReqUnavailable, ResMsgAdd, chanVars
<1>3. CASE ReqTooMany \/ ReqSent \/ ReqPartlySent \/ ReqSendFails \/ OutReconnect
  BY <1>3 DEF ReqTooMany, ReqSent, ReqPartlySent, ReqSendFails, Sending, OutReconnect
<1> QED BY <1>1, <1>2, <1>3 DEF Request

LEMMA InputAsIs ==
  ASSUME AsIs, AsIsInv, Input
  PROVE  Resting /\ RxInv' /\ ControlAsIs'
<1> USE DEF Resting, ControlAsIs, Work
<1>0. /\ "in" \in Channel /\ "out" \in Channel /\ ChannelTypeOK
      /\ ~Read("out") /\ RxInv /\ ControlAsIs
  BY DEF Channel, Read, CanRecv, AsIs, AsIsInv, SafeInv, TypeInv, TypeOK
<1>1. ASSUME NEW c \in Channel, RecvMore(c)
      PROVE  Resting /\ RxInv' /\ ControlAsIs'
  <2>1. c = "in" /\ sock["in"] # NoSock /\ pc = "in" /\ Receive("in")
    BY <1>0, <1>1 DEF RecvMore, Read, CanRecv, Channel
  <2> QED BY <1>0, <1>1, <2>1, ReceiveRx DEF RecvMore, loopVars
<1>2. CASE InNothing \/ OutNothing
  BY <1>0, <1>2 DEF InNothing, OutNothing, Go, RxInv, chanVars
<1>3. ASSUME NEW step \in {"next"}, ReconnectThen("in", step), pc = "in", UNCHANGED resVars
      PROVE  Resting /\ RxInv' /\ ControlAsIs'
  BY <1>0, <1>3, ReconnectAsIs DEF ReconnectThen, Restart, Go
<1>4. CASE In400
  <2>1. pc = "in" /\ sock["in"] # NoSock
    BY <1>4 DEF In400, Garbled, Read, AsIsInv, SafeInv, TypeInv, ControlInv
  <2>2. CASE Receive("in") /\ Go("next") /\ UNCHANGED <<sock, chan_ready, timer, batch>>
    BY <1>0, <1>4, <2>1, <2>2, ReceiveRx DEF In400, Go
  <2> QED BY <1>3, <1>4, <2>1, <2>2 DEF In400
<1>5. CASE InReg
  <2>1. pc = "in" /\ sock["in"] # NoSock
    BY <1>5 DEF InReg, Parses, Read, CanRecv
  <2>2. CASE Rx("in")[1].res = "ok"
    <3>1. RxInv'
      BY <1>0, <1>5, <2>1, <2>2, ReceiveRx DEF InReg
    <3>2. ~chan_ready'["out"]
      BY <1>0, <1>5, <2>2 DEF InReg, ChannelTypeOK
    <3> QED BY <1>5, <2>1, <2>2, <3>1, <3>2 DEF InReg, Go
  <2> QED BY <1>3, <1>5, <2>1, <2>2 DEF InReg
<1>6. CASE InResult
  <2> DEFINE m == Rx("in")[1]
             store == IF m.id = 0 THEN Go("next") ELSE ResMsgAdd(m.id, m.res, "none")
  <2>1. pc = "in" /\ sock["in"] # NoSock /\ ~m.reg
    BY <1>6 DEF InResult, Parses, Read, CanRecv
  <2>2. m.id \notin Ids
    <3>1. Rx("in") \in Seq(Harmless) /\ Rx("in") \in Seq(Message) /\ len["in"] \in 0 .. BuffSize
      BY <1>0, <2>1 DEF Rx, RxInv, ChannelTypeOK, File
    <3>2. Got("in") > 0
      BY <1>6 DEF InResult, Parses, Read
    <3>3. Len(Rx("in")) > 0
      BY <3>1, <3>2, ChannelAssumption DEF Got
    <3>4. m \in Harmless
      BY <3>1, <3>3
    <3> QED BY <2>1, <3>4 DEF Harmless
  <2>3. ASSUME store
        PROVE  pc' = "next" \/ (pc' = "lookup" /\ job'.then = "none" /\ job'.id \notin Ids)
    BY <2>2, <2>3 DEF Go, ResMsgAdd
  <2>4. UNCHANGED resVars
    BY <1>6 DEF InResult
  <2>5. CASE Receive("in") /\ store /\ UNCHANGED <<sock, chan_ready, timer, batch>>
    <3> HIDE DEF store
    <3> QED BY <1>0, <2>1, <2>3, <2>4, <2>5, ReceiveRx
  <2>6. CASE Reconnect("in") /\ store /\ UNCHANGED batch
    <3> HIDE DEF store
    <3> QED BY <1>0, <2>1, <2>3, <2>4, <2>6, ReconnectAsIs
  <2>7. CASE Restart("in")
    BY <1>0, <2>1, <2>4, <2>7, ReconnectAsIs DEF Restart, Go
  <2> QED BY <1>6, <2>5, <2>6, <2>7 DEF InResult
<1>7. ~(OutGarbled \/ OutReg \/ OutAnswer \/ OutTail)
  BY <1>0 DEF OutGarbled, Garbled, OutReg, OutAnswer, Parses, OutTail
<1> QED BY <1>1, <1>2, <1>4, <1>5, <1>6, <1>7 DEF Input

-----------------------------------------------------------------------------
(* Each request before FirstOpen has its result, and no other has: the     *)
(* results published so far are 1, 2, ..., FirstOpen - 1.                  *)

FirstOpen == IF pc \in {"del", "unlink"} THEN Oldest + 1 ELSE Oldest

AnsweredRange == \A i \in Ids : i \in Answered <=> i < FirstOpen
AnswersSoFar == Len(answers) = FirstOpen - 1 /\ \A k \in DOMAIN answers : answers[k] = k
TakenOnce == res_set \cap Delivered = {}
EntryThere == \A i \in Ids : i <= msg_id /\ i \notin Delivered => res_umap[i] # "absent"
Filled ==
  /\ \A i \in res_set : res_umap[i] \in ResultCode
  /\ pc = "publish" => res_umap[job.id] \in ResultCode

AnswerInv == AnsweredRange /\ AnswersSoFar /\ TakenOnce /\ EntryThere /\ Filled
Inv == AsIsInv /\ AnswerInv

(* The request in the hands of resMsgAdd and reqMsgDel is the oldest, and  *)
(* has no result until resMsgAdd publishes it.                             *)
LEMMA InHand ==
  ASSUME Inv, pc \in Work, job.then # "none"
  PROVE  /\ job.then = "wake" /\ job.id = Oldest
         /\ Oldest \in Ids /\ Oldest <= Newest /\ Oldest <= msg_id
         /\ Head(msg_queue) = Oldest /\ job.code \in ResultCode
         /\ pc \notin {"del", "unlink"} =>
              Oldest \notin Answered /\ res_umap[Oldest] # "absent"
<1> USE DEF Inv, AsIsInv
<1>1. job.then = "wake" /\ job.id = Oldest
  BY DEF ControlAsIs
<1>2. msg_queue # <<>> /\ job.code \in ResultCode
  BY DEF SafeInv, TypeInv, TypeOK, ControlInv, Work, Job
<1>3. /\ Oldest \in Ids /\ Oldest <= Newest /\ Oldest <= msg_id
      /\ Head(msg_queue) = Oldest
  BY <1>2, QueueRange, IntervalType DEF SafeInv
<1>4. ASSUME pc \notin {"del", "unlink"} PROVE Oldest \notin Answered
  BY <1>3, <1>4, IntervalType DEF SafeInv, AnswerInv, AnsweredRange, FirstOpen
<1>5. ASSUME pc \notin {"del", "unlink"} PROVE res_umap[Oldest] # "absent"
  BY <1>3, <1>4, <1>5 DEF AnswerInv, EntryThere, Answered
<1> QED BY <1>1, <1>2, <1>3, <1>4, <1>5

(* Before its result a request may have none, whoever looks.               *)
LEMMA OpenRange ==
  ASSUME Inv
  PROVE  FirstOpen \in Int /\ FirstOpen <= Newest + 1 /\ Oldest <= FirstOpen
<1>1. pc \in {"del", "unlink"} => msg_queue # <<>>
  BY DEF Inv, AsIsInv, SafeInv, TypeInv, ControlInv
<1>2. pc \in {"del", "unlink"} => Oldest <= Newest
  BY <1>1, QueueRange DEF Inv, AsIsInv, SafeInv
<1>3. Oldest <= Newest + 1 /\ Oldest \in Int /\ Newest \in Int
  BY IntervalType DEF Inv, AsIsInv, SafeInv, Oldest
<1> QED BY <1>2, <1>3 DEF FirstOpen

LEMMA InvImplies ==
  Inv => NoSilentDrop /\ AnsweredInOrder /\ NoWriteToErased /\ PublishedIsFilled
<1> SUFFICES ASSUME Inv
             PROVE  NoSilentDrop /\ AnsweredInOrder /\ NoWriteToErased /\ PublishedIsFilled
  OBVIOUS
<1> USE DEF Inv, AsIsInv, AnswerInv
<1>0. Delivered \subseteq Ids
  BY DEF SafeInv, TypeInv, TypeOK, Delivered
<1>1. MaxReq \in Nat /\ msg_id \in 0 .. MaxReq /\ Answered \subseteq Ids
  BY <1>0, ClientAssumption DEF SafeInv, TypeInv, TypeOK, Answered
<1>2. NoSilentDrop
  <2> SUFFICES ASSUME NEW id \in 1 .. msg_id,
                      ~(id = msg_id /\ adder \in {"stamp", "link"}), id \notin Answered
               PROVE  id \in Queued
    BY DEF NoSilentDrop
  <2>1. id \in Ids
    BY <1>1 DEF Ids
  <2>2. Oldest <= id
    BY <2>1, OpenRange, IntervalType DEF AnsweredRange, SafeInv, Ids
  <2>3. id <= Newest
    BY IntervalType DEF SafeInv
  <2> QED BY <2>2, <2>3, QueueRange, IntervalType DEF SafeInv
<1>3. AnsweredInOrder
  <2>1. ASSUME NEW id \in Answered, NEW j \in 1 .. id PROVE j \in Answered
    <3>1. id \in Ids /\ j \in Ids /\ j <= id /\ id < FirstOpen
      BY <1>1 DEF AnsweredRange, Ids
    <3>2. j < FirstOpen
      BY <3>1, OpenRange DEF Ids
    <3> QED BY <3>1, <3>2 DEF AnsweredRange
  <2> QED BY <2>1 DEF AnsweredInOrder, TakenOnce
<1>4. NoWriteToErased
  <2>1. ASSUME pc = "write" PROVE res_umap[job.id] # "absent"
    <3>1. job.then # "none"
      BY <2>1 DEF ControlAsIs, Work
    <3> QED BY <2>1, <3>1, InHand DEF Work
  <2> QED BY <2>1 DEF NoWriteToErased
<1>5. PublishedIsFilled
  BY DEF PublishedIsFilled, Filled
<1> QED BY <1>2, <1>3, <1>4, <1>5

-----------------------------------------------------------------------------
(* The invariant is kept by each kind of step.                             *)

LEMMA AnswersInit == Init => Inv
<1> SUFFICES ASSUME Init PROVE Inv
  OBVIOUS
<1>1. SafeInv
  BY SafeInit
<1>2. RxInv
  BY EmptyRx DEF Init, ChannelInit, RxInv
<1>3. ControlAsIs
  BY DEF Init, ChannelInit, ControlAsIs, Work, Channel
<1>4. Oldest = 1
  BY DEF Init, Oldest, Newest
<1>5. AnswerInv
  BY <1>4 DEF Init, AnswerInv, AnsweredRange, AnswersSoFar, TakenOnce, EntryThere, Filled,
              FirstOpen, Answered, Delivered, Ids
<1> QED BY <1>1, <1>2, <1>3, <1>5 DEF Inv, AsIsInv

(* The results and the queue are left alone, and no result is under way.   *)
LEMMA RestKeeps ==
  ASSUME Inv, UNCHANGED <<QueueVars, resVars>>,
         pc' = pc \/ {pc, pc'} \cap {"publish", "del", "unlink"} = {},
         pc' = "publish" => job' = job
  PROVE  AnswerInv' /\ Oldest' = Oldest
<1>1. Oldest' = Oldest
  BY DEF QueueVars, Oldest, Newest
<1>2. FirstOpen' = FirstOpen /\ (pc' = "publish" => pc = "publish")
  BY <1>1 DEF FirstOpen
<1> QED
  BY <1>1, <1>2 DEF Inv, AnswerInv, AnsweredRange, AnswersSoFar, TakenOnce, EntryThere, Filled,
                    Answered, Delivered, QueueVars, resVars

LEMMA OldestKept ==
  ASSUME SafeInv, ReqMsgAddEmplace \/ AdderContinue
  PROVE  Oldest' = Oldest /\ UNCHANGED <<pc, job, chanVars>>
<1> USE DEF SafeInv, loopVars, reqVars
<1>1. CASE ReqMsgAddEmplace
  BY <1>1, IntervalType DEF ReqMsgAddEmplace, Newest, Oldest
<1>2. CASE ReqMsgAddStamp \/ ReqMsgAddWake
  BY <1>2, IntervalType DEF ReqMsgAddStamp, ReqMsgAddWake, Newest, Oldest
<1>3. CASE ReqMsgAddLink
  <2>1. msg_queue \in Seq(Ids) /\ msg_id \in Ids
    BY <1>3 DEF TypeInv, TypeOK, ControlInv, ReqMsgAddLink
  <2>2. Len(msg_queue') = Len(msg_queue) + 1
    BY <1>3, <2>1 DEF ReqMsgAddLink
  <2> QED BY <1>3, <2>2, IntervalType DEF ReqMsgAddLink, Newest, Oldest
<1> QED BY <1>1, <1>2, <1>3 DEF AdderContinue

LEMMA AdderAnswers ==
  ASSUME Inv, ReqMsgAddEmplace \/ AdderContinue
  PROVE  AnswerInv' /\ RxInv' /\ ControlAsIs'
<1> USE DEF Inv, AsIsInv
<1>1. Oldest' = Oldest /\ UNCHANGED <<pc, job, chanVars>>
  BY OldestKept
<1>2. RxInv' /\ ControlAsIs' /\ FirstOpen' = FirstOpen
  BY <1>1 DEF RxInv, ControlAsIs, FirstOpen, chanVars
<1>3. CASE ReqMsgAddEmplace
  <2>1. msg_id = Newest /\ msg_id + 1 \in Ids /\ msg_id' = msg_id + 1 /\ msg_id \in Nat
    BY <1>3, IntervalType DEF ReqMsgAddEmplace, SafeInv, Ids
  <2>2. msg_id + 1 \notin Answered
    BY <2>1, OpenRange DEF AnswerInv, AnsweredRange
  <2>3. /\ UNCHANGED <<res_set, answers, taken>>
        /\ res_umap' = [res_umap EXCEPT ![msg_id + 1] = "unset"]
        /\ res_umap \in [Ids -> {"absent", "unset"} \cup ResultCode] /\ res_set \subseteq Ids
    BY <1>3 DEF ReqMsgAddEmplace, SafeInv, TypeInv, TypeOK
  <2>4. AnsweredRange' /\ AnswersSoFar' /\ TakenOnce'
    BY <1>2, <2>3
    DEF AnswerInv, AnsweredRange, AnswersSoFar, TakenOnce, Answered, Delivered
  <2>5. EntryThere'
    <3> SUFFICES ASSUME NEW i \in Ids, i <= msg_id', i \notin Delivered
                 PROVE  res_umap'[i] # "absent"
      BY <2>3 DEF EntryThere, Delivered
    <3>1. CASE i = msg_id + 1
      BY <2>3, <3>1
    <3>2. CASE i # msg_id + 1
      <4>1. i <= msg_id
        BY <2>1, <3>2 DEF Ids
      <4> QED BY <2>3, <3>2, <4>1 DEF AnswerInv, EntryThere
    <3> QED BY <3>1, <3>2
  <2>6. Filled'
    <3>1. ASSUME NEW i \in res_set' PROVE res_umap'[i] \in ResultCode
      BY <2>2, <2>3 DEF AnswerInv, Filled, Answered
    <3>2. ASSUME pc' = "publish" PROVE res_umap'[job'.id] \in ResultCode
      <4>1. pc = "publish" /\ job.then # "none"
        BY <1>1, <3>2 DEF ControlAsIs, Work
      <4>2. job.id \in Ids /\ job.id # msg_id + 1
        BY <2>1, <4>1, InHand DEF Work, Ids
      <4> QED BY <1>1, <2>3, <4>1, <4>2 DEF AnswerInv, Filled
    <3> QED BY <3>1, <3>2 DEF Filled
  <2> QED BY <1>2, <2>4, <2>5, <2>6 DEF AnswerInv
<1>4. CASE AdderContinue
  <2>1. UNCHANGED <<msg_id, resVars>>
    BY <1>4 DEF AdderContinue, ReqMsgAddStamp, ReqMsgAddLink, ReqMsgAddWake
  <2> QED
    BY <1>1, <1>2, <2>1 DEF AnswerInv, AnsweredRange, AnswersSoFar, TakenOnce, EntryThere,
                            Filled, Answered, Delivered, resVars
<1> QED BY <1>3, <1>4

(* What the consumer took, after one more.                                 *)
LEMMA DeliveredAppend ==
  ASSUME taken \in Seq(Ids), NEW id \in Ids, taken' = Append(taken, id)
  PROVE  Delivered' = Delivered \cup {id}
<1>1. /\ Len(taken) \in Nat /\ DOMAIN taken = 1 .. Len(taken)
      /\ DOMAIN taken' = 1 .. Len(taken) + 1
      /\ \A k \in 1 .. Len(taken) : taken'[k] = taken[k]
      /\ taken'[Len(taken) + 1] = id
  OBVIOUS
<1>2. ASSUME NEW i \in Delivered PROVE i \in Delivered'
  <2>1. PICK k \in 1 .. Len(taken) : i = taken[k]
    BY <1>1, <1>2 DEF Delivered
  <2> QED BY <1>1, <2>1 DEF Delivered
<1>3. id \in Delivered'
  BY <1>1 DEF Delivered
<1>4. ASSUME NEW i \in Delivered' PROVE i \in Delivered \cup {id}
  <2>1. PICK k \in 1 .. Len(taken) + 1 : i = taken'[k]
    BY <1>1, <1>4 DEF Delivered
  <2>2. CASE k = Len(taken) + 1
    BY <1>1, <2>1, <2>2
  <2>3. CASE k # Len(taken) + 1
    BY <1>1, <2>1, <2>3 DEF Delivered
  <2> QED BY <2>2, <2>3
<1> QED BY <1>2, <1>3, <1>4

(* The consumer takes a result only after resMsgAdd is done with it.       *)
LEMMA ConsumeAnswers ==
  ASSUME Inv, NEW id \in Ids, Consume(id)
  PROVE  AnswerInv' /\ RxInv' /\ ControlAsIs'
<1> USE DEF Inv, AsIsInv
<1>1. Oldest' = Oldest /\ UNCHANGED <<pc, job, chanVars, msg_id>>
  BY DEF Consume, adderVars, reqVars, loopVars, Oldest, Newest
<1>2. RxInv' /\ ControlAsIs' /\ FirstOpen' = FirstOpen
  BY <1>1 DEF RxInv, ControlAsIs, FirstOpen, chanVars
<1>0. Delivered' = Delivered \cup {id}
  BY DeliveredAppend DEF Consume, SafeInv, TypeInv, TypeOK
<1>3. /\ id \in res_set /\ res_set' = res_set \ {id} /\ answers' = answers
      /\ res_umap' = [res_umap EXCEPT ![id] = "absent"] /\ Answered' = Answered
      /\ res_umap \in [Ids -> {"absent", "unset"} \cup ResultCode] /\ res_set \subseteq Ids
  BY <1>0 DEF Consume, Answered, SafeInv, TypeInv, TypeOK
<1>4. AnsweredRange' /\ AnswersSoFar' /\ TakenOnce' /\ EntryThere'
  BY <1>0, <1>1, <1>2, <1>3
  DEF AnswerInv, AnsweredRange, AnswersSoFar, TakenOnce, EntryThere
<1>5. ASSUME pc' = "publish" PROVE res_umap'[job'.id] \in ResultCode
  <2>1. pc = "publish" /\ job.then # "none"
    BY <1>1, <1>5 DEF ControlAsIs, Work
  <2>2. job.id \in Ids /\ job.id # id
    BY <1>3, <2>1, InHand DEF Work, Answered
  <2> QED BY <1>1, <1>3, <2>1, <2>2 DEF AnswerInv, Filled
<1>6. Filled'
  BY <1>3, <1>5 DEF AnswerInv, Filled
<1> QED BY <1>2, <1>4, <1>6 DEF AnswerInv

(* resMsgAdd and reqMsgDel: the oldest request gets its result, is         *)
(* published, and only then leaves the queue.                              *)
LEMMA ResultAnswers ==
  ASSUME Inv, Result
  PROVE  AnswerInv' /\ RxInv' /\ ControlAsIs'
<1> USE DEF Inv, AsIsInv
<1>1. /\ res_umap \in [Ids -> {"absent", "unset"} \cup ResultCode]
      /\ job.then # "none" => pc \notin Work \/ (job.id \in Ids /\ job.then = "wake")
  BY InHand DEF SafeInv, TypeInv, TypeOK
<1>2. RxInv' /\ UNCHANGED chanVars
  BY DEF Result, ResLookup, ResWrite, ResPublish, ReqMsgDelStamp, ReqMsgDelUnlink, Wake,
         RxInv, chanVars
<1>3. CASE ResLookup
  <2>1. UNCHANGED <<QueueVars, resVars>>
    BY <1>3 DEF ResLookup, adderVars, reqVars, QueueVars
  <2>2. /\ pc = "lookup"
        /\ \/ pc' = "write" /\ job' = job /\ job.id \in Ids
           \/ pc' = "next" /\ job.id \notin Ids
    <3>1. CASE job.then # "none"
      BY <1>3, <3>1, InHand DEF ResLookup, Work
    <3>2. CASE job.then = "none"
      BY <1>3, <3>2 DEF ResLookup, ControlAsIs, Work, AfterResMsgAdd, Go
    <3> QED BY <3>1, <3>2
  <2>3. AnswerInv' /\ Oldest' = Oldest
    BY <2>1, <2>2, RestKeeps
  <2> QED BY <1>2, <2>2, <2>3 DEF ControlAsIs, Work, chanVars
<1>4. CASE ResWrite
  <2>1. /\ pc = "write" /\ pc' = "publish" /\ job' = job /\ job.then # "none"
        /\ UNCHANGED <<QueueVars, res_set, answers, taken>>
    BY <1>4 DEF ResWrite, ControlAsIs, Work, adderVars, reqVars, QueueVars
  <2>2. res_umap' = [res_umap EXCEPT ![Oldest] = job.code] /\ job.id = Oldest
        /\ Oldest \in Ids /\ job.code \in ResultCode
    BY <1>4, <2>1, InHand DEF ResWrite, Work
  <2>3. Oldest' = Oldest /\ FirstOpen' = FirstOpen
    BY <2>1 DEF QueueVars, Oldest, Newest, FirstOpen
  <2>4. AnsweredRange' /\ AnswersSoFar' /\ TakenOnce'
    BY <2>1, <2>3 DEF AnswerInv, AnsweredRange, AnswersSoFar, TakenOnce, Answered, Delivered
  <2>5. "absent" \notin ResultCode
    BY DEF ResultCode
  <2>6. EntryThere' /\ Filled'
    BY <1>1, <2>1, <2>2, <2>5 DEF AnswerInv, EntryThere, Filled, Delivered, QueueVars,
                                 SafeInv, TypeInv, TypeOK
  <2> QED BY <1>2, <2>1, <2>2, <2>3, <2>4, <2>6 DEF AnswerInv, ControlAsIs, Work, chanVars
<1>5. CASE ResPublish
  <2>1. /\ pc = "publish" /\ job.then = "wake" /\ job.id = Oldest
        /\ Oldest \in Ids /\ Oldest \notin Answered
    BY <1>5, InHand DEF ResPublish, ControlAsIs, Work
  <2>2. /\ pc' = "del" /\ job' = job /\ res_set' = res_set \cup {Oldest}
        /\ answers' = Append(answers, Oldest)
        /\ UNCHANGED <<QueueVars, res_umap, taken>>
    BY <1>5, <2>1 DEF ResPublish, AfterResMsgAdd, adderVars, reqVars, QueueVars
  <2>3. Oldest' = Oldest /\ FirstOpen = Oldest /\ FirstOpen' = Oldest + 1
    BY <2>1, <2>2 DEF QueueVars, Oldest, Newest, FirstOpen
  <2>4. AnsweredRange'
    BY <2>1, <2>2, <2>3 DEF AnswerInv, AnsweredRange, Answered, Delivered, Ids
  <2>5. TakenOnce' /\ EntryThere' /\ Filled'
    BY <2>1, <2>2 DEF AnswerInv, TakenOnce, EntryThere, Filled, Answered, Delivered, QueueVars
  <2>6. AnswersSoFar'
    <3>1. answers \in Seq(Ids) /\ Len(answers) = Oldest - 1
          /\ \A k \in DOMAIN answers : answers[k] = k
      BY <2>3 DEF AnswerInv, AnswersSoFar, SafeInv, TypeInv, TypeOK
    <3>2. /\ Len(answers') = Len(answers) + 1 /\ DOMAIN answers = 1 .. Len(answers)
          /\ DOMAIN answers' = 1 .. Len(answers) + 1
          /\ \A k \in 1 .. Len(answers) : answers'[k] = answers[k]
          /\ answers'[Len(answers) + 1] = Oldest /\ Len(answers) \in Nat
      BY <2>1, <2>2, <3>1
    <3>3. Len(answers') = Oldest /\ Oldest = Len(answers) + 1
      BY <2>1, <3>1, <3>2 DEF Ids
    <3>4. ASSUME NEW k \in DOMAIN answers' PROVE answers'[k] = k
      BY <3>1, <3>2, <3>3
    <3> QED BY <2>1, <2>3, <3>3, <3>4 DEF AnswersSoFar, Ids
  <2> QED BY <1>2, <2>1, <2>2, <2>3, <2>4, <2>5, <2>6 DEF AnswerInv, ControlAsIs, Work, chanVars
<1>6. CASE ReqMsgDelStamp
  <2>1. /\ pc = "del" /\ pc' = "unlink" /\ job' = job
        /\ UNCHANGED <<msg_queue, msg_id, adder, resVars>>
    BY <1>6 DEF ReqMsgDelStamp, adderVars
  <2>2. Oldest' = Oldest /\ FirstOpen' = FirstOpen
    BY <2>1 DEF Oldest, Newest, FirstOpen
  <2> QED
    BY <1>2, <2>1, <2>2 DEF AnswerInv, AnsweredRange, AnswersSoFar, TakenOnce, EntryThere,
                            Filled, Answered, Delivered, ControlAsIs, Work, chanVars, resVars
<1>7. CASE ReqMsgDelUnlink
  <2>1. /\ pc = "unlink" /\ pc' = "wake" /\ UNCHANGED <<msg_id, adder, resVars>>
        /\ msg_queue' = Tail(msg_queue)
    BY <1>7, InHand DEF ReqMsgDelUnlink, ControlAsIs, Work, Go, adderVars
  <2>2. msg_queue \in Seq(Ids) /\ msg_queue # <<>>
    BY <2>1 DEF SafeInv, TypeInv, TypeOK, ControlInv
  <2>3. Len(msg_queue') = Len(msg_queue) - 1
    BY <2>1, <2>2
  <2>4. Oldest' = Oldest + 1
    BY <2>1, <2>3, IntervalType DEF SafeInv, Oldest, Newest
  <2>5. FirstOpen' = FirstOpen
    BY <2>1, <2>4 DEF FirstOpen
  <2> QED
    BY <1>2, <2>1, <2>5 DEF AnswerInv, AnsweredRange, AnswersSoFar, TakenOnce, EntryThere,
                            Filled, Answered, Delivered, ControlAsIs, Work, chanVars, resVars
<1>8. CASE Wake
  <2>1. /\ pc = "wake" /\ pc' = "next" /\ UNCHANGED <<QueueVars, resVars>>
    BY <1>8 DEF Wake, Go, adderVars, QueueVars
  <2>2. AnswerInv'
    BY <2>1, RestKeeps
  <2> QED BY <1>2, <2>1, <2>2 DEF ControlAsIs, Work, chanVars
<1> QED BY <1>3, <1>4, <1>5, <1>6, <1>7, <1>8 DEF Result

LEMMA AnswersStep ==
  ASSUME AsIs, Inv, [Next]_vars
  PROVE  Inv'
<1> USE DEF Inv, AsIsInv
<1>1. SafeInv'
  BY SafeStep
<1>2. SUFFICES AnswerInv' /\ RxInv' /\ ControlAsIs'
  BY <1>1
<1>3. ASSUME Resting, RxInv', ControlAsIs', LoopNext
      PROVE  AnswerInv'
  <2>1. UNCHANGED QueueVars
    BY <1>3, QuietLoop
    DEF SafeInv, Quiet, Resting, Work, ReqMsgDelStamp, ReqMsgDelUnlink
  <2> QED BY <1>3, <2>1, RestKeeps DEF Resting, Work
<1>4. CASE UNCHANGED vars
  <2>1. UNCHANGED <<QueueVars, resVars, pc, job, chanVars>>
    BY <1>4 DEF vars, QueueVars, adderVars, reqVars, loopVars
  <2> QED BY <2>1, RestKeeps DEF RxInv, ControlAsIs, chanVars
<1>5. CASE ReqMsgAddEmplace \/ AdderContinue
  BY <1>5, AdderAnswers
<1>6. ASSUME NEW id \in Ids, Consume(id) PROVE AnswerInv' /\ RxInv' /\ ControlAsIs'
  BY <1>6, ConsumeAnswers
<1>7. CASE LoopNext
  BY <1>3, <1>7, EventsAsIs, RequestAsIs, InputAsIs, ResultAnswers DEF LoopNext
<1>8. CASE Outside
  <2>1. UNCHANGED <<QueueVars, resVars, pc, job, chan_ready>>
    BY <1>8 DEF Outside, Environment, TimerExpire, ServerSend, ServerClose, QueueVars,
                adderVars, reqVars, loopVars
  <2>2. RxInv'
    BY <1>8, EnvironmentRx DEF Outside, SafeInv, TypeInv, TypeOK
  <2> QED BY <2>1, <2>2, RestKeeps DEF ControlAsIs
<1> QED BY <1>4, <1>5, <1>6, <1>7, <1>8 DEF Next

(* As the code stands each request is answered by the loop, in the order   *)
(* of submission and once; none is dropped without result; no write goes   *)
(* to an erased entry; and no result is published before it is filled in.  *)
(* This holds across restarts, and for any number of requests and sockets. *)
THEOREM AnswersCorrect ==
  ASSUME AsIs
  PROVE  Spec => [](NoSilentDrop /\ AnsweredInOrder /\ NoWriteToErased /\ PublishedIsFilled)
<1>1. Inv /\ [Next]_vars => Inv'
  BY AnswersStep
<1> QED BY <1>1, AnswersInit, InvImplies, PTL DEF Spec

-----------------------------------------------------------------------------
(* AbsClient: a submission, the publication of the oldest request and the  *)
(* consumer's step are its three actions, and any other step a stutter.    *)

AbsVars == <<msg_id, answers, taken>>

LEMMA PublishAnswers ==
  ASSUME Inv, ResPublish
  PROVE  Abs!Answer
<1> USE DEF Inv, AsIsInv, AnswerInv
<1>1. pc = "publish" /\ job.then = "wake" /\ job.id = Oldest
  BY InHand DEF ResPublish, ControlAsIs, Work
<1>2. Oldest \in Ids /\ Oldest <= msg_id /\ msg_id \in Nat
  BY <1>1, InHand, IntervalType DEF Work, SafeInv
<1>3. Len(answers) = Oldest - 1
  BY <1>1 DEF AnswersSoFar, FirstOpen
<1>4. answers' = Append(answers, Oldest) /\ UNCHANGED <<msg_id, taken>>
  BY <1>1 DEF ResPublish, adderVars
<1>5. Len(answers) < msg_id /\ Oldest = Len(answers) + 1
  BY <1>2, <1>3 DEF Ids
<1> QED BY <1>4, <1>5 DEF Abs!Answer

LEMMA LoopAbstracts ==
  ASSUME AsIs, Inv, LoopNext
  PROVE  Abs!Answer \/ UNCHANGED AbsVars
<1> USE DEF AbsVars
<1>1. UNCHANGED msg_id
  BY QuietLoop DEF Inv, AsIsInv, SafeInv, Quiet, QueueVars, ReqMsgDelStamp, ReqMsgDelUnlink,
                   adderVars
<1>2. CASE Resting
  BY <1>1, <1>2 DEF Resting, resVars
<1>3. CASE ResPublish
  BY <1>3, PublishAnswers
<1>4. CASE ResLookup \/ ResWrite \/ ReqMsgDelStamp \/ ReqMsgDelUnlink \/ Wake
  BY <1>1, <1>4
  DEF ResLookup, ResWrite, ReqMsgDelStamp, ReqMsgDelUnlink, Wake, resVars
<1> QED
  BY <1>2, <1>3, <1>4, EventsAsIs, RequestAsIs, InputAsIs DEF Inv, LoopNext, Result

(* A published result the consumer finds in res_set was never taken.       *)
LEMMA ConsumeDelivers ==
  ASSUME Inv, NEW id \in Ids, Consume(id)
  PROVE  Abs!Deliver(id)
<1> USE DEF Inv, AsIsInv, AnswerInv
<1>1. id \in res_set /\ taken' = Append(taken, id) /\ UNCHANGED <<msg_id, answers>>
  BY DEF Consume, adderVars
<1>2. \A k \in DOMAIN taken : taken[k] # id
  BY <1>1 DEF TakenOnce, Delivered
<1>3. id < FirstOpen
  BY <1>1 DEF AnsweredRange, Answered
<1>4. Len(answers) = FirstOpen - 1 /\ answers \in Seq(Ids) /\ FirstOpen \in Int
  BY OpenRange DEF AnswersSoFar, SafeInv, TypeInv, TypeOK
<1>5. id \in DOMAIN answers
  BY <1>3, <1>4 DEF Ids
<1>6. answers[id] = id
  BY <1>5 DEF AnswersSoFar
<1> QED BY <1>1, <1>2, <1>5, <1>6 DEF Abs!Deliver

LEMMA StepAbstracts ==
  ASSUME AsIs, Inv, [Next]_vars
  PROVE  [Abs!Next]_AbsVars
<1>0. MaxReq \in Nat /\ msg_id \in 0 .. MaxReq
  BY ClientAssumption DEF Inv, AsIsInv, SafeInv, TypeInv, TypeOK
<1>1. CASE ReqMsgAddEmplace
  <2>1. Abs!Submit
    BY <1>0, <1>1 DEF ReqMsgAddEmplace, Abs!Submit
  <2> QED BY <2>1 DEF Abs!Next
<1>2. ASSUME NEW id \in Ids, Consume(id) PROVE Abs!Next
  BY <1>2, ConsumeDelivers DEF Abs!Next, Ids
<1>3. CASE LoopNext
  BY <1>3, LoopAbstracts DEF Abs!Next
<1>4. CASE AdderContinue \/ Outside \/ UNCHANGED vars
  BY <1>4 DEF AdderContinue, ReqMsgAddStamp, ReqMsgAddLink, ReqMsgAddWake, Outside, vars,
              adderVars, resVars, AbsVars
<1> QED BY <1>1, <1>2, <1>3, <1>4 DEF Next

(* As the code stands the client implements AbsClient: resMsgAdd publishes *)
(* the requests 1, 2, 3 ... each once and after it was submitted, and each *)
(* is taken after that and at most once, for any number of requests and    *)
(* sockets and across restarts.                                            *)
THEOREM RequestsImplemented ==
  ASSUME AsIs
  PROVE  Spec => ImplementsRequests
<1>1. Init => Abs!Init
  BY DEF Init, Abs!Init
<1>2. Inv /\ [Next]_vars => Inv' /\ [Abs!Next]_AbsVars
  BY AnswersStep, StepAbstracts
<1> QED BY <1>1, <1>2, AnswersInit, PTL DEF Spec, ImplementsRequests, Abs!Spec, AbsVars

-----------------------------------------------------------------------------
(* The wake-ups, while nothing throws and the batch is handled to its end. *)

LEMMA NoThrow ==
  ASSUME MayThrow = FALSE, NEW c \in Channel, sock[c] # NoSock
  PROVE  ~ReconnectThrows(c)
BY DEF ReconnectThrows, ThrowInSsConnect

(* A step that takes no wake-up away.                                      *)
LEMMA WakeKept ==
  ASSUME NoLostWakeup, UNCHANGED <<msg_queue, adder>>, req_edge => req_edge',
         Req \in batch => Req \in batch', pc # "wake", job.then # "wake"
  PROVE  NoLostWakeup'
BY DEF NoLostWakeup

LEMMA EventsWake ==
  ASSUME Inv, NoLostWakeup, MayThrow = FALSE,
         \/ EpollWait
         \/ \E c \in Channel : HupReconnect(c) \/ ConnectFd(c) \/ SockIn(c)
         \/ \E e \in Event : Ignore(e)
  PROVE  NoLostWakeup'
<1> USE DEF Inv, AsIsInv, SafeInv, TypeInv
<1>1. pc = "next" /\ job.then # "wake"
  <2>1. pc = "next"
    BY DEF EpollWait, HupReconnect, ConnectFd, SockIn, Ignore, Take
  <2>2. job = NoJob
    BY <2>1 DEF ControlInv
  <2> QED BY <2>1, <2>2 DEF NoJob
<1>2. CASE EpollWait
  BY <1>1, <1>2 DEF EpollWait, NoLostWakeup, adderVars
<1>3. ASSUME NEW c \in Channel, HupReconnect(c)
      PROVE  NoLostWakeup'
  <2>1. sock[c] # NoSock
    BY <1>3, ChannelAssumption DEF HupReconnect, Take, TypeOK, Event, Req
  <2>2. batch' = batch \ {<<"hup", sock[c]>>}
    BY <1>3, <2>1, NoThrow DEF HupReconnect, Restart, Done
  <2> QED BY <1>1, <1>3, <2>2, WakeKept DEF HupReconnect, adderVars, reqVars, Req
<1>4. ASSUME NEW c \in Channel, ConnectFd(c) \/ SockIn(c)
      PROVE  NoLostWakeup'
  <2>1. Req \in batch => Req \in batch'
    BY <1>4 DEF ConnectFd, SockIn, ConnectThrows, ThrowInSsConnect, Done, Req
  <2> QED BY <1>1, <1>4, <2>1, WakeKept DEF ConnectFd, SockIn, adderVars, reqVars
<1>5. ASSUME NEW e \in Event, Ignore(e) PROVE NoLostWakeup'
  <2>1. e # Req /\ batch' = batch \ {e}
    BY <1>5 DEF Ignore, Done, Req
  <2> QED BY <1>1, <1>5, <2>1, WakeKept DEF Ignore, adderVars, reqVars
<1> QED BY <1>2, <1>3, <1>4, <1>5

LEMMA InputWake ==
  ASSUME AsIs, Inv, NoLostWakeup, MayThrow = FALSE, Input
  PROVE  NoLostWakeup'
<1> USE DEF Inv, AsIsInv, SafeInv, TypeInv
<1>1. ~Read("out") /\ pc # "tail"
  BY DEF Read, CanRecv, AsIs, ControlAsIs
<1>2. pc \in {"in", "out"} /\ job.then # "wake"
  BY <1>1
  DEF Input, RecvMore, InNothing, In400, Garbled, InReg, InResult, OutNothing, OutGarbled,
      OutReg, OutAnswer, OutTail, Parses, Read, Channel, ControlInv, NoJob
<1>3. UNCHANGED <<msg_queue, adder, req_edge>>
  BY <1>1
  DEF Input, RecvMore, InNothing, In400, Garbled, InReg, InResult, OutNothing, OutGarbled,
      OutReg, OutAnswer, OutTail, Parses, adderVars, reqVars
<1>4. batch' = batch
  <2>1. ASSUME pc = "in" PROVE ~ReconnectThrows("in")
    BY <2>1, NoThrow DEF ControlInv, Channel
  <2>2. CASE (\E c \in Channel : RecvMore(c)) \/ InNothing \/ OutNothing
    BY <2>2 DEF RecvMore, InNothing, OutNothing, loopVars
  <2>3. CASE In400 \/ InReg \/ InResult
    BY <2>1, <2>3 DEF In400, Garbled, InReg, InResult, Parses, Read, ReconnectThen, Restart
  <2> QED
    BY <1>1, <2>2, <2>3
    DEF Input, OutGarbled, Garbled, OutReg, OutAnswer, OutTail, Parses
<1> QED BY <1>2, <1>3, <1>4, WakeKept

LEMMA WakeStep ==
  ASSUME AsIs, MayThrow = FALSE, Inv, NoLostWakeup, [Next]_vars
  PROVE  NoLostWakeup'
<1> USE DEF Inv, AsIsInv
<1>1. CASE UNCHANGED <<msg_queue, adder, req_edge, batch, pc, job>>
  BY <1>1 DEF NoLostWakeup
<1>2. CASE UNCHANGED vars \/ Outside \/ \E id \in Ids : Consume(id)
  BY <1>1, <1>2 DEF vars, Outside, Consume, adderVars, reqVars, loopVars
<1>3. CASE ReqMsgAddEmplace \/ AdderContinue
  BY <1>3
  DEF ReqMsgAddEmplace, AdderContinue, ReqMsgAddStamp, ReqMsgAddLink, ReqMsgAddWake,
      NoLostWakeup, reqVars, loopVars
<1>4. CASE Request
  <2>1. CASE ReqEmpty
    BY <2>1 DEF ReqEmpty, ReqEvent, reqVars, NoLostWakeup
  <2>2. CASE ReqUnavailable
    BY <2>2 DEF ReqUnavailable, ResMsgAdd, NoLostWakeup
  <2> QED
    BY <1>4, <2>1, <2>2
    DEF Request, ReqTooMany, ReqSent, ReqPartlySent, ReqSendFails, Sending, Sendable,
        OutReconnect, ControlAsIs
<1>5. CASE Result
  <2>1. CASE ResLookup
    <3>1. job.then = "wake" => job'.then = "wake"
      BY <2>1, InHand DEF ResLookup, AfterResMsgAdd, Work
    <3> QED BY <2>1, <3>1 DEF ResLookup, NoLostWakeup, adderVars, reqVars
  <2>2. CASE ResWrite \/ ReqMsgDelStamp
    BY <2>2 DEF ResWrite, ReqMsgDelStamp, NoLostWakeup, adderVars, reqVars
  <2>3. CASE ResPublish
    <3>1. job.then = "wake" /\ job' = job
      BY <2>3 DEF ResPublish, ControlAsIs, Work, AfterResMsgAdd
    <3> QED BY <3>1 DEF NoLostWakeup
  <2>4. CASE ReqMsgDelUnlink
    BY <2>4 DEF ReqMsgDelUnlink, ControlAsIs, Work, Go, NoLostWakeup
  <2>5. CASE Wake
    BY <2>5 DEF Wake, NoLostWakeup
  <2> QED BY <1>5, <2>1, <2>2, <2>3, <2>4, <2>5 DEF Result
<1>6. CASE LoopNext
  BY <1>4, <1>5, <1>6, EventsWake, InputWake DEF LoopNext
<1> QED BY <1>2, <1>3, <1>6 DEF Next

(* No order of submissions, reconnects, results and wake-ups leaves a      *)
(* request in the queue and the loop asleep, while nothing throws and the  *)
(* out channel cannot become ready.                                        *)
THEOREM WakeupsKept ==
  ASSUME AsIs, MayThrow = FALSE
  PROVE  Spec => []NoLostWakeup
<1>1. Init => Inv /\ NoLostWakeup
  BY AnswersInit DEF Init, NoLostWakeup
<1>2. Inv /\ NoLostWakeup /\ [Next]_vars => (Inv /\ NoLostWakeup)'
  BY AnswersStep, WakeStep
<1> QED BY <1>1, <1>2, PTL DEF Spec

-----------------------------------------------------------------------------
(* The removal of requests, whatever the server sends and out.recv.buff is.*)

(* resMsgAdd, when reqMsgDel follows, is about the oldest request; when    *)
(* reqMsgDel runs, that request has its result or the server's ok.         *)
InHandIsOldest ==
  pc \in {"lookup", "write", "publish"} /\ job.then # "none" => job.id = Oldest
OldestSettled == pc \in {"del", "unlink"} => Oldest \in Answered \/ job = Accepted

RemovalInv == InHandIsOldest /\ OldestSettled /\ EntryThere

(* A handler of the loop, up to the point where it starts one of the two.  *)
Starts ==
  /\ UNCHANGED resVars
  /\ \/ pc' \notin Work
     \/ pc' = "lookup" /\ (job'.then # "none" => job'.id = Oldest)
     \/ pc' = "del" /\ job' = Accepted

LEMMA HandlersStart ==
  ASSUME SafeInv, LoopNext, ~Result
  PROVE  Starts
<1> USE DEF Starts, Work, Go
<1>1. CASE EpollWait \/ \E e \in Event : Ignore(e)
  BY <1>1 DEF EpollWait, Ignore, Take
<1>2. ASSUME NEW c \in Channel, HupReconnect(c) \/ ConnectFd(c) \/ SockIn(c) PROVE Starts
  BY <1>2 DEF HupReconnect, ConnectFd, SockIn, Restart, Channel
<1>3. CASE Request
  <2>1. CASE ReqEmpty \/ ReqSent \/ ReqPartlySent
    BY <2>1 DEF ReqEmpty, ReqSent, ReqPartlySent, Sending, ReqEvent
  <2>2. CASE ReqUnavailable \/ ReqTooMany \/ ReqSendFails
    <3>1. msg_queue # <<>> /\ UNCHANGED resVars
      BY <2>2 DEF ReqUnavailable, ReqTooMany, ReqSendFails, Sending, ReqEvent
    <3>2. Head(msg_queue) = Oldest
      BY <3>1, QueueRange DEF SafeInv
    <3> QED BY <2>2, <3>1, <3>2 DEF ReqUnavailable, ReqTooMany, ReqSendFails, ResMsgAdd
  <2>3. CASE OutReconnect
    BY <2>3, ReconnectPc DEF OutReconnect, Channel
  <2> QED BY <1>3, <2>1, <2>2, <2>3 DEF Request
<1>4. CASE Input
  <2>1. ASSUME NEW c \in Channel, RecvMore(c) PROVE Starts
    BY <2>1 DEF RecvMore, Read, loopVars, Channel
  <2>2. CASE InNothing \/ OutNothing \/ OutTail
    BY <2>2 DEF InNothing, OutNothing, OutTail
  <2>3. CASE In400 \/ InReg
    BY <2>3, ReconnectPc DEF In400, InReg, Channel
  <2>4. CASE InResult
    BY <2>4 DEF InResult, Restart, ResMsgAdd
  <2>5. CASE OutGarbled \/ OutReg
    BY <2>5, ReconnectPc DEF OutGarbled, OutReg, Channel
  <2>6. CASE OutAnswer
    <3> DEFINE res == Rx("out")[1].res
    <3>1. UNCHANGED resVars /\ pc = "out"
      BY <2>6 DEF OutAnswer, Parses, Read
    <3>2. CASE msg_queue = <<>> \/ res \notin {"ok", "err"}
      BY <2>6, <3>1, <3>2 DEF OutAnswer
    <3>3. CASE msg_queue # <<>> /\ res = "err"
      <4>1. Head(msg_queue) = Oldest
        BY <3>3, QueueRange DEF SafeInv
      <4> QED BY <2>6, <3>1, <3>3, <4>1 DEF OutAnswer, ResMsgAdd
    <3>4. CASE msg_queue # <<>> /\ res = "ok"
      BY <2>6, <3>1, <3>4 DEF OutAnswer
    <3> QED BY <3>2, <3>3, <3>4
  <2> QED BY <1>4, <2>1, <2>2, <2>3, <2>4, <2>5, <2>6 DEF Input
<1> QED BY <1>1, <1>2, <1>3, <1>4 DEF LoopNext

(* Nothing but reqMsgDelUnlink changes which request is the oldest.        *)
LEMMA OldestStays ==
  ASSUME SafeInv, [Next]_vars, ~ReqMsgDelUnlink
  PROVE  Oldest' = Oldest
<1>1. CASE UNCHANGED <<msg_id, adder, msg_queue>>
  BY <1>1 DEF Oldest, Newest
<1>2. CASE UNCHANGED vars \/ Outside \/ \E id \in Ids : Consume(id)
  BY <1>1, <1>2 DEF vars, Outside, Consume, adderVars, reqVars
<1>3. CASE LoopNext
  BY <1>1, <1>3, QuietLoop DEF SafeInv, Quiet, QueueVars, ReqMsgDelStamp, adderVars
<1> QED BY <1>2, <1>3, OldestKept DEF Next

LEMMA AdderRemoval ==
  ASSUME SafeInv, RemovalInv, ReqMsgAddEmplace \/ AdderContinue
  PROVE  RemovalInv'
<1> USE DEF SafeInv
<1>1. Oldest' = Oldest /\ UNCHANGED <<pc, job, res_set, taken>>
  BY OldestKept DEF ReqMsgAddEmplace, AdderContinue, ReqMsgAddStamp, ReqMsgAddLink,
                    ReqMsgAddWake, resVars
<1>2. InHandIsOldest' /\ OldestSettled'
  BY <1>1 DEF RemovalInv, InHandIsOldest, OldestSettled, Answered, Delivered
<1>3. EntryThere'
  <2>1. CASE ReqMsgAddEmplace
    <3>1. /\ msg_id' = msg_id + 1 /\ res_umap' = [res_umap EXCEPT ![msg_id + 1] = "unset"]
          /\ res_umap \in [Ids -> {"absent", "unset"} \cup ResultCode] /\ msg_id \in Nat
      BY <2>1, IntervalType DEF ReqMsgAddEmplace, TypeInv, TypeOK
    <3>2. ASSUME NEW i \in Ids, i <= msg_id + 1, i \notin Delivered
          PROVE  res_umap'[i] # "absent"
      <4>1. i = msg_id + 1 \/ i <= msg_id
        BY <3>1, <3>2 DEF Ids
      <4> QED BY <3>1, <3>2, <4>1 DEF RemovalInv, EntryThere
    <3> QED BY <1>1, <3>1, <3>2 DEF EntryThere, Delivered
  <2>2. CASE AdderContinue
    BY <2>2 DEF AdderContinue, ReqMsgAddStamp, ReqMsgAddLink, ReqMsgAddWake, resVars,
                RemovalInv, EntryThere, Delivered
  <2> QED BY <2>1, <2>2
<1> QED BY <1>2, <1>3 DEF RemovalInv

LEMMA ConsumeRemoval ==
  ASSUME SafeInv, RemovalInv, NEW id \in Ids, Consume(id)
  PROVE  RemovalInv'
<1>1. /\ UNCHANGED <<pc, job, msg_id, msg_queue, adder>>
      /\ Delivered' = Delivered \cup {id} /\ res_set' = res_set \ {id} /\ id \in res_set
      /\ res_umap' = [res_umap EXCEPT ![id] = "absent"]
      /\ res_umap \in [Ids -> {"absent", "unset"} \cup ResultCode]
  BY DeliveredAppend DEF Consume, SafeInv, TypeInv, TypeOK, adderVars, reqVars, loopVars
<1>2. Oldest' = Oldest /\ Answered' = Answered
  BY <1>1 DEF Oldest, Newest, Answered
<1>3. EntryThere'
  BY <1>1 DEF RemovalInv, EntryThere
<1> QED BY <1>1, <1>2, <1>3 DEF RemovalInv, InHandIsOldest, OldestSettled

LEMMA ResultRemoval ==
  ASSUME SafeInv, RemovalInv, Result
  PROVE  RemovalInv'
<1> USE DEF RemovalInv, InHandIsOldest, OldestSettled
<1>1. /\ res_umap \in [Ids -> {"absent", "unset"} \cup ResultCode] /\ job \in Job
      /\ pc \in {"lookup", "write", "publish"} /\ job.then # "none" =>
           job.id = Oldest /\ Oldest \in Ids /\ Oldest <= msg_id
  BY QueueRange, IntervalType DEF SafeInv, TypeInv, TypeOK, ControlInv
<1>2. UNCHANGED <<msg_id, taken>> /\ (~ReqMsgDelUnlink => Oldest' = Oldest)
  <2>1. UNCHANGED <<msg_id, taken>>
    BY DEF Result, ResLookup, ResWrite, ResPublish, ReqMsgDelStamp, ReqMsgDelUnlink, Wake,
           adderVars, resVars
  <2>2. UNCHANGED adder /\ (~ReqMsgDelUnlink => UNCHANGED msg_queue)
    BY DEF Result, ResLookup, ResWrite, ResPublish, ReqMsgDelStamp, ReqMsgDelUnlink, Wake,
           adderVars, reqVars
  <2> QED BY <2>1, <2>2 DEF Oldest, Newest
<1>3. Delivered' = Delivered
  BY <1>2 DEF Delivered
<1>4. CASE ResLookup
  <2>1. pc = "lookup" /\ UNCHANGED <<res_umap, res_set>> /\ ~ReqMsgDelUnlink
    BY <1>4 DEF ResLookup, resVars, ReqMsgDelUnlink
  <2>2. EntryThere' /\ Answered' = Answered
    BY <1>2, <1>3, <2>1 DEF EntryThere, Answered
  <2>3. CASE pc' = "write" /\ job' = job
    BY <1>2, <2>1, <2>2, <2>3
  <2>4. CASE AfterResMsgAdd /\ ~(job.id \in Ids /\ res_umap[job.id] # "absent")
    <3>1. job.then # "none" => Oldest \in Answered
      BY <1>1, <2>1, <2>4 DEF EntryThere, Answered
    <3> QED BY <1>2, <2>1, <2>2, <2>4, <3>1 DEF AfterResMsgAdd, Go
  <2> QED BY <1>4, <2>3, <2>4 DEF ResLookup
<1>5. CASE ResWrite
  <2>1. /\ pc = "write" /\ pc' = "publish" /\ job' = job /\ ~ReqMsgDelUnlink
        /\ res_umap' = IF res_umap[job.id] = "absent" THEN res_umap
                       ELSE [res_umap EXCEPT ![job.id] = job.code]
    BY <1>5 DEF ResWrite, ReqMsgDelUnlink
  <2>2. job.code # "absent"
    BY <1>1 DEF Job, ResultCode
  <2>3. EntryThere'
    BY <1>1, <1>2, <1>3, <2>1, <2>2 DEF EntryThere
  <2> QED BY <1>2, <2>1, <2>3
<1>6. CASE ResPublish
  <2>1. /\ pc = "publish" /\ res_umap' = res_umap /\ res_set' = res_set \cup {job.id}
        /\ AfterResMsgAdd /\ ~ReqMsgDelUnlink
    BY <1>6 DEF ResPublish, ReqMsgDelUnlink
  <2>2. EntryThere'
    BY <1>2, <1>3, <2>1 DEF EntryThere
  <2>3. job.then # "none" => Oldest' \in Answered'
    BY <1>1, <1>2, <2>1 DEF Answered
  <2> QED BY <2>1, <2>2, <2>3 DEF AfterResMsgAdd, Go
<1>7. CASE ReqMsgDelStamp
  <2>1. pc = "del" /\ pc' = "unlink" /\ job' = job /\ UNCHANGED <<res_umap, res_set>>
        /\ ~ReqMsgDelUnlink
    BY <1>7 DEF ReqMsgDelStamp, resVars, ReqMsgDelUnlink
  <2> QED BY <1>2, <1>3, <2>1 DEF EntryThere, Answered
<1>8. CASE ReqMsgDelUnlink
  <2>1. pc' = job.then /\ pc = "unlink" /\ UNCHANGED res_umap
    BY <1>8 DEF ReqMsgDelUnlink, Go, resVars
  <2>2. pc' \notin Work
    BY <1>1, <2>1 DEF Work, Job, After
  <2> QED BY <1>2, <1>3, <2>1, <2>2 DEF EntryThere, Work
<1>9. CASE Wake
  <2>1. pc' = "next" /\ UNCHANGED res_umap
    BY <1>9 DEF Wake, Go, resVars
  <2> QED BY <1>2, <1>3, <2>1 DEF EntryThere
<1> QED BY <1>4, <1>5, <1>6, <1>7, <1>8, <1>9 DEF Result

LEMMA RemovalStep ==
  ASSUME SafeInv, RemovalInv, [Next]_vars
  PROVE  RemovalInv'
<1>1. CASE UNCHANGED vars \/ Outside
  <2>1. UNCHANGED <<pc, job, msg_id, res_umap, res_set, taken, msg_queue, adder>>
    BY <1>1 DEF vars, Outside, adderVars, resVars, reqVars, loopVars
  <2> QED
    BY <2>1 DEF RemovalInv, InHandIsOldest, OldestSettled, EntryThere, Answered, Delivered,
                Oldest, Newest
<1>2. CASE LoopNext /\ ~Result
  <2>1. Starts /\ Oldest' = Oldest /\ UNCHANGED msg_id
    BY <1>2, HandlersStart, OldestStays, QuietLoop
    DEF SafeInv, Quiet, QueueVars, Result
  <2> QED
    BY <2>1 DEF Starts, Work, RemovalInv, InHandIsOldest, OldestSettled, EntryThere,
                Delivered, resVars
<1> QED BY <1>1, <1>2, AdderRemoval, ConsumeRemoval, ResultRemoval DEF Next

(* Only reqMsgDel makes the queue lose a request: the oldest.              *)
LEMMA OldestLeaves ==
  ASSUME SafeInv, OldestSettled, [Next]_vars, NEW id \in Queued \ Queued'
  PROVE  id \in Answered \/ job = Accepted
<1>1. msg_queue \in Seq(Ids) /\ DOMAIN msg_queue = 1 .. Len(msg_queue)
  BY DEF SafeInv, TypeInv, TypeOK
<1>2. PICK k \in 1 .. Len(msg_queue) : id = msg_queue[k]
  BY <1>1 DEF Queued
<1>3. CASE ReqMsgDelUnlink
  <2>1. msg_queue # <<>> /\ pc = "unlink" /\ msg_queue' = Tail(msg_queue)
    BY <1>3 DEF ReqMsgDelUnlink, SafeInv, TypeInv, ControlInv
  <2>2. ASSUME k # 1 PROVE FALSE
    <3>1. k - 1 \in DOMAIN msg_queue' /\ msg_queue'[k - 1] = id
      BY <1>1, <1>2, <2>1, <2>2
    <3> QED BY <3>1 DEF Queued
  <2>3. Head(msg_queue) = msg_queue[1]
    BY <1>1, <2>1
  <2>4. id = Oldest
    BY <1>2, <2>1, <2>2, <2>3, QueueRange DEF SafeInv
  <2> QED BY <2>1, <2>4 DEF OldestSettled
<1>4. CASE ReqMsgAddLink
  <2>1. msg_queue' = Append(msg_queue, msg_id) /\ msg_id \in Ids
    BY <1>4 DEF ReqMsgAddLink, SafeInv, TypeInv, ControlInv
  <2>2. k \in DOMAIN msg_queue' /\ msg_queue'[k] = id
    BY <1>1, <1>2, <2>1
  <2> QED BY <2>2 DEF Queued
<1>5. CASE ~ReqMsgDelUnlink /\ ~ReqMsgAddLink
  <2>1. msg_queue' = msg_queue
    <3>1. CASE LoopNext
      BY <1>5, <3>1, QuietLoop DEF SafeInv, Quiet, QueueVars, ReqMsgDelStamp
    <3> QED
      BY <1>5, <3>1
      DEF Next, ReqMsgAddEmplace, AdderContinue, ReqMsgAddStamp, ReqMsgAddWake, Consume,
          Outside, vars, reqVars
  <2> QED BY <2>1 DEF Queued
<1> QED BY <1>3, <1>4, <1>5

(* No request leaves the queue without a result the consumer can take or   *)
(* the server's ok, across the locks of resMsgAdd and reqMsgDel, for any   *)
(* answers of the server on both channels, any number of requests and      *)
(* attempts, and restarts in between.                                      *)
THEOREM RemovalsAnswered == Spec => RemovedOnlyIfAnswered
<1>1. Init => SafeInv /\ RemovalInv
  BY SafeInit
  DEF Init, RemovalInv, InHandIsOldest, OldestSettled, EntryThere, Ids
<1>2. SafeInv /\ RemovalInv /\ [Next]_vars => (SafeInv /\ RemovalInv)'
  BY SafeStep, RemovalStep
<1>3. SafeInv /\ RemovalInv /\ [Next]_vars =>
        \A id \in Queued \ Queued' : id \in Answered \/ job = Accepted
  BY OldestLeaves DEF RemovalInv
<1> QED BY <1>1, <1>2, <1>3, PTL DEF Spec, RemovedOnlyIfAnswered

=============================================================================
