------------------------------- MODULE SSClient -------------------------------
(***************************************************************************)
(* class SSClient: the thread that submits requests with reqMsgAdd, the    *)
(* epoll loop of start() and the consumer of the results.  The channels    *)
(* are in SSChannel.                                                       *)
(*                                                                         *)
(* One step is what runs between two points where another thread or the    *)
(* kernel can interfere: a section under one of the spinlocks, a recv(), a *)
(* write to the request eventfd.  `pc` says which step the loop does next. *)
(***************************************************************************)
EXTENDS SSChannel

CONSTANTS
  MaxReq,       (* bound: requests ever submitted                           *)
  MaxQueue,     (* max_queue: nodes of msg_queue                            *)
  MaxAttempts,  (* out.send.max_attempts                                    *)
  MaxEvents     (* max_events: events one epoll_wait returns                *)

ASSUME ClientAssumption ==
  /\ MaxReq \in Nat
  /\ {MaxQueue, MaxAttempts, MaxEvents} \subseteq Nat \ {0}

VARIABLES
  msg_id,      (* the last identifier given out                             *)
  msg_queue,   (* identifiers of the linked requests, from beg to end       *)
  exp_stamps,  (* requests with an entry in exp_stamps                      *)
  adder,       (* what reqMsgAdd does next                                  *)
  res_umap,    (* per request: no entry, an empty one, or its rescode       *)
  res_set,     (* requests whose result is published                        *)
  answers,     (* history: requests resMsgAdd published, in that order      *)
  taken,       (* history: requests whose result the consumer took          *)
  req_edge,    (* req_msg_evfd was written since epoll_wait reported it     *)
  msg_status,  (* out.msg_status                                            *)
  attempts,    (* out.send.attempts, saturated at MaxAttempts               *)
  batch,       (* events epoll_wait returned and the loop did not handle    *)
  pc,          (* what the loop does next                                   *)
  job,         (* the resMsgAdd or reqMsgDel in progress, and what follows  *)
  crashed      (* the loop dereferenced a null msg_queue.beg                *)

adderVars == <<msg_id, adder>>
resVars == <<res_umap, res_set, answers, taken>>
reqVars == <<msg_queue, exp_stamps, req_edge>>
outVars == <<msg_status, attempts>>
loopVars == <<batch, pc, job, crashed>>
vars == <<chanVars, adderVars, resVars, reqVars, outVars, loopVars>>

Ids == 1 .. MaxReq
Req == <<"req", NoSock>>
Event == {Req} \cup ({"connect"} \X Channel) \cup ({"hup", "in", "out"} \X Fd)
Step == {"next", "in", "out", "lookup", "write", "publish", "del", "unlink",
         "reconnect", "wake", "tail"}
After == {"none", "next", "reconnect", "wake", "tail"}
Job == [id : Nat, code : ResultCode, then : After]
NoJob == [id |-> 0, code |-> "ok", then |-> "none"]
Accepted == [NoJob EXCEPT !.then = "tail"]   (* the server said ok         *)

TypeOK ==
  /\ ChannelTypeOK
  /\ msg_id \in 0 .. MaxReq
  /\ msg_queue \in Seq(Ids)
  /\ exp_stamps \subseteq Ids
  /\ adder \in {"idle", "stamp", "link", "wake"}
  /\ res_umap \in [Ids -> {"absent", "unset"} \cup ResultCode]
  /\ res_set \subseteq Ids /\ answers \in Seq(Ids) /\ taken \in Seq(Ids)
  /\ req_edge \in BOOLEAN
  /\ msg_status \in {"ready", "busy"}
  /\ attempts \in 0 .. MaxAttempts
  /\ batch \subseteq Event
  /\ pc \in Step
  /\ job \in Job
  /\ crashed \in BOOLEAN

(* eventfd(1, O_NONBLOCK) leaves an edge to report at once.                *)
Init ==
  /\ ChannelInit
  /\ msg_id = 0 /\ adder = "idle"
  /\ msg_queue = <<>> /\ exp_stamps = {} /\ req_edge = TRUE
  /\ res_umap = [i \in Ids |-> "absent"] /\ res_set = {}
  /\ answers = <<>> /\ taken = <<>>
  /\ msg_status = "ready" /\ attempts = 0
  /\ batch = {} /\ pc = "next" /\ job = NoJob /\ crashed = FALSE

-----------------------------------------------------------------------------
(* reqMsgAdd, in the one thread that may call it.  The caller holds a node *)
(* it allocated.  The failure of the emplace needs an identifier that      *)
(* wrapped around and is left out.                                         *)

ReqMsgAddEmplace ==
  /\ adder = "idle" /\ msg_id < MaxReq /\ Len(msg_queue) < MaxQueue
  /\ msg_id' = msg_id + 1
  /\ res_umap' = [res_umap EXCEPT ![msg_id + 1] = "unset"]
  /\ adder' = "stamp"
  /\ UNCHANGED <<chanVars, res_set, answers, taken, reqVars, outVars, loopVars>>

ReqMsgAddStamp ==
  /\ adder = "stamp"
  /\ exp_stamps' = exp_stamps \cup {msg_id}
  /\ adder' = "link"
  /\ UNCHANGED <<chanVars, msg_id, resVars, msg_queue, req_edge, outVars, loopVars>>

(* Definitions named Bad... are mistakes this code could contain; nothing  *)
(* uses them but the tests of the properties.                              *)

(* The node is linked at the front.                                        *)
BadReqMsgAddLink ==
  /\ adder = "link"
  /\ msg_queue' = <<msg_id>> \o msg_queue
  /\ adder' = "wake"
  /\ UNCHANGED <<chanVars, msg_id, resVars, exp_stamps, req_edge, outVars, loopVars>>

ReqMsgAddLink ==
  /\ adder = "link"
  /\ msg_queue' = Append(msg_queue, msg_id)
  /\ adder' = "wake"
  /\ UNCHANGED <<chanVars, msg_id, resVars, exp_stamps, req_edge, outVars, loopVars>>

ReqMsgAddWake ==
  /\ adder = "wake"
  /\ req_edge' = TRUE
  /\ adder' = "idle"
  /\ UNCHANGED <<chanVars, msg_id, resVars, msg_queue, exp_stamps, outVars, loopVars>>

AdderContinue == ReqMsgAddStamp \/ ReqMsgAddLink \/ ReqMsgAddWake

(* The owner of the results takes one and erases its entry.                *)
Consume(id) ==
  /\ id \in res_set
  /\ res_set' = res_set \ {id}
  /\ res_umap' = [res_umap EXCEPT ![id] = "absent"]
  /\ taken' = Append(taken, id)
  /\ UNCHANGED <<chanVars, adderVars, answers, reqVars, outVars, loopVars>>

-----------------------------------------------------------------------------
(* The epoll loop.                                                         *)

Go(step) == pc' = step /\ job' = NoJob /\ UNCHANGED crashed

(* resMsgAdd(id, code): then is "none" when nothing follows it, or else    *)
(* what follows the reqMsgDel after it.                                    *)
ResMsgAdd(id, code, then) ==
  /\ pc' = "lookup"
  /\ job' = [id |-> id, code |-> code, then |-> then]
  /\ UNCHANGED crashed

(* A reconnect that restarts start(): the catch clauses drop the rest of   *)
(* the batch.                                                              *)
Restart(c) == ReconnectThrows(c) /\ Go("next") /\ batch' = {}

ReconnectThen(c, step) ==
  \/ Reconnect(c) /\ Go(step) /\ UNCHANGED batch
  \/ Restart(c)

Ready ==
  (IF req_edge THEN {Req} ELSE {})
    \cup {<<"connect", c>> : c \in {d \in Channel : timer[d] = "fired"}}
    \cup {<<"hup", f>> : f \in {g \in Fd : file[g].epoll \in {"in", "out"} /\ file[g].gone}}
    \cup {<<"in", f>> : f \in {g \in Fd : /\ file[g].epoll = "in" /\ ~file[g].gone
                                          /\ file[g].rx # <<>>}}
    \cup {<<"out", f>> : f \in {g \in Fd : file[g].epoll = "out" /\ ~file[g].gone}}

(* epoll_wait: as many ready events as fit.  The eventfd and the timers    *)
(* are edge-triggered, the sockets level-triggered.                        *)
EpollWait ==
  /\ pc = "next" /\ batch = {}
  /\ batch' \in {S \in SUBSET Ready : /\ S # {} /\ Cardinality(S) <= MaxEvents
                                      /\ S = Ready \/ Cardinality(S) = MaxEvents}
  /\ req_edge' = (req_edge /\ Req \notin batch')
  /\ timer' = [c \in Channel |-> IF <<"connect", c>> \in batch' THEN "off" ELSE timer[c]]
  /\ UNCHANGED <<sock, file, chan_ready, len, adderVars, resVars, msg_queue,
                 exp_stamps, outVars, pc, job, crashed>>

Take(e) == pc = "next" /\ e \in batch
Done(e) == batch' = batch \ {e}

(* EPOLLHUP, EPOLLRDHUP or EPOLLERR on a channel's socket.                 *)
HupReconnect(c) ==
  /\ Take(<<"hup", sock[c]>>)
  /\ \/ Reconnect(c) /\ Go("next") /\ Done(<<"hup", sock[c]>>)
     \/ Restart(c)
  /\ UNCHANGED <<adderVars, resVars, reqVars, outVars>>

ConnectFd(c) ==
  /\ Take(<<"connect", c>>)
  /\ \/ ConnectChannel(c) /\ Done(<<"connect", c>>)
     \/ ConnectThrows(c) /\ batch' = {}
  /\ Go("next")
  /\ UNCHANGED <<adderVars, resVars, reqVars, outVars>>

SockIn(c) ==
  /\ Take(<<"in", sock[c]>>)
  /\ Done(<<"in", sock[c]>>)
  /\ Go(c)
  /\ UNCHANGED <<chanVars, adderVars, resVars, reqVars, outVars>>

(* EPOLLOUT has an empty branch, and an event for a descriptor that is no  *)
(* longer a channel's matches no branch.                                   *)
Ignore(e) ==
  /\ Take(e)
  /\ e[1] = "out" \/ (e[1] \in {"hup", "in"} /\ \A c \in Channel : e[2] # sock[c])
  /\ Done(e)
  /\ Go("next")
  /\ UNCHANGED <<chanVars, adderVars, resVars, reqVars, outVars>>

(* The req_msg_evfd branch.                                                *)
Sendable == msg_status = "ready" /\ chan_ready["in"] /\ chan_ready["out"]

ReqEvent == Take(Req) /\ Done(Req) /\ UNCHANGED <<adderVars, resVars, reqVars>>

ReqEmpty ==
  /\ ReqEvent /\ msg_queue = <<>>
  /\ Go("next")
  /\ UNCHANGED <<chanVars, outVars>>

(* No wake-up for the next request, and no result.                         *)
BadReqUnavailableSleeps ==
  /\ ReqEvent /\ msg_queue # <<>> /\ ~Sendable
  /\ ResMsgAdd(Head(msg_queue), "unavailable", "next")
  /\ UNCHANGED <<chanVars, outVars>>

BadReqUnavailableSilent ==
  /\ ReqEvent /\ msg_queue # <<>> /\ ~Sendable
  /\ pc' = "del" /\ job' = [NoJob EXCEPT !.then = "wake"]
  /\ UNCHANGED <<chanVars, outVars, crashed>>

ReqUnavailable ==
  /\ ReqEvent /\ msg_queue # <<>> /\ ~Sendable
  /\ ResMsgAdd(Head(msg_queue), "unavailable", "wake")
  /\ UNCHANGED <<chanVars, outVars>>

ReqTooMany ==
  /\ ReqEvent /\ msg_queue # <<>> /\ Sendable /\ attempts >= MaxAttempts
  /\ ResMsgAdd(Head(msg_queue), "too_many", "next")
  /\ UNCHANGED <<chanVars, outVars>>

Sending == ReqEvent /\ msg_queue # <<>> /\ Sendable /\ attempts < MaxAttempts

(* SEND_OK, which is also what ssSendAll returns when it sent nothing.     *)
ReqSent ==
  /\ Sending /\ sock["out"] # NoSock
  /\ msg_status' = "busy"
  /\ Go("next")
  /\ UNCHANGED <<chanVars, attempts>>

(* Part of the message was sent, and epollMod succeeds.                    *)
ReqPartlySent ==
  /\ Sending /\ sock["out"] # NoSock /\ file[sock["out"]].epoll # "none"
  /\ file' = [file EXCEPT ![sock["out"]].epoll = "out"]
  /\ attempts' = attempts + 1
  /\ Go("next")
  /\ UNCHANGED <<sock, chan_ready, len, timer, msg_status>>

(* SEND_ERR, or part of it was sent and epollMod fails.                    *)
ReqSendFails ==
  /\ Sending
  /\ ResMsgAdd(Head(msg_queue), "err", "reconnect")
  /\ UNCHANGED <<chanVars, outVars>>

OutReconnect ==
  /\ pc = "reconnect"
  /\ ReconnectThen("out", "next")
  /\ UNCHANGED <<adderVars, resVars, reqVars, outVars>>

-----------------------------------------------------------------------------
(* inEpollin and outEpollin.  A read that ends with MSG_END is not looked  *)
(* at (the strncmp has its sense inverted), one that does not is parsed    *)
(* with all the buffer holds; recv.len goes back to 0 only in a reconnect, *)
(* so that only the first message of a socket can parse.                   *)

Rx(c) == file[sock[c]].rx
BadGot(c) == Len(Rx(c))
Got(c) == IF Len(Rx(c)) <= BuffSize - len[c] THEN Len(Rx(c)) ELSE BuffSize - len[c]

Receive(c) ==
  /\ file' = [file EXCEPT ![sock[c]].rx = SubSeq(@, Got(c) + 1, Len(@))]
  /\ len' = [len EXCEPT ![c] = @ + Got(c)]

CanRecv(c) == sock[c] # NoSock /\ (c = "in" \/ OutBuff)
Read(c) == pc = c /\ CanRecv(c) /\ Got(c) > 0
Parses(c) == Read(c) /\ ~Rx(c)[1].term /\ len[c] + Got(c) = 1
Garbled(c) == Read(c) /\ ~Rx(c)[Got(c)].term /\ len[c] + Got(c) > 1

RecvMore(c) ==
  /\ Read(c) /\ Rx(c)[Got(c)].term
  /\ Receive(c)
  /\ UNCHANGED <<sock, chan_ready, timer, adderVars, resVars, reqVars, outVars, loopVars>>

(* recv() gives EAGAIN.                                                    *)
InNothing ==
  /\ pc = "in" /\ Rx("in") = <<>> /\ ~file[sock["in"]].gone
  /\ Go("next")
  /\ UNCHANGED <<chanVars, adderVars, resVars, reqVars, outVars, batch>>

(* The label in_400: garbled input, or recv() gives 0.                     *)
In400 ==
  /\ \/ Garbled("in")
     \/ pc = "in" /\ Got("in") = 0 /\ (Rx("in") # <<>> \/ file[sock["in"]].gone)
  /\ \/ Receive("in") /\ Go("next") /\ UNCHANGED <<sock, chan_ready, timer, batch>>
     \/ ReconnectThen("in", "next")
  /\ UNCHANGED <<adderVars, resVars, reqVars, outVars>>

InReg ==
  /\ Parses("in") /\ Rx("in")[1].reg
  /\ IF Rx("in")[1].res = "ok"
     THEN /\ chan_ready' = [chan_ready EXCEPT !["in"] = TRUE]
          /\ Receive("in")
          /\ Go(IF msg_queue # <<>> /\ chan_ready["out"] /\ msg_status = "ready"
                THEN "wake" ELSE "next")
          /\ UNCHANGED <<sock, timer, batch>>
     ELSE ReconnectThen("in", "next")
  /\ UNCHANGED <<adderVars, resVars, reqVars, outVars>>

(* The result of a request.  It is stored even when the answer to it could *)
(* not be sent, unless the reconnect throws.                               *)
InResult ==
  /\ Parses("in") /\ ~Rx("in")[1].reg
  /\ LET m == Rx("in")[1]
         store == IF m.id = 0 THEN Go("next") ELSE ResMsgAdd(m.id, m.res, "none")
     IN  \/ Receive("in") /\ store /\ UNCHANGED <<sock, chan_ready, timer, batch>>
         \/ Reconnect("in") /\ store /\ UNCHANGED batch
         \/ Restart("in")
  /\ UNCHANGED <<adderVars, resVars, reqVars, outVars>>

(* recv() gives anything but data; EFAULT without a buffer.                *)
OutNothing ==
  /\ pc = "out" /\ (CanRecv("out") => Got("out") = 0)
  /\ Go("next")
  /\ UNCHANGED <<chanVars, adderVars, resVars, reqVars, outVars, batch>>

(* After outReconnect the loop goes on and reads the new socket.           *)
OutGarbled ==
  /\ Garbled("out")
  /\ ReconnectThen("out", "out")
  /\ UNCHANGED <<adderVars, resVars, reqVars, outVars>>

OutReg ==
  /\ Parses("out") /\ Rx("out")[1].reg
  /\ IF Rx("out")[1].res \in {"ok", "not_ready"}
     THEN /\ chan_ready' = [chan_ready EXCEPT !["out"] = TRUE]
          /\ msg_status' = IF Rx("out")[1].res = "ok" THEN "ready" ELSE msg_status
          /\ Receive("out")
          /\ Go("tail")
          /\ UNCHANGED <<sock, timer, batch>>
     ELSE ReconnectThen("out", "tail") /\ UNCHANGED msg_status
  /\ UNCHANGED <<adderVars, resVars, reqVars, attempts>>

(* The answer to a request, taken to be the one at msg_queue.beg.          *)
OutAnswer ==
  /\ Parses("out") /\ ~Rx("out")[1].reg
  /\ LET res == Rx("out")[1].res
     IN  /\ attempts' = IF res = "busy" /\ attempts < MaxAttempts
                        THEN attempts + 1 ELSE attempts
         /\ CASE res \in {"ok", "err"} /\ msg_queue = <<>> ->
                   crashed' = TRUE /\ UNCHANGED <<pc, job>>
              [] res = "err" /\ msg_queue # <<>> ->
                   ResMsgAdd(Head(msg_queue), res, "tail")
              [] res = "ok" /\ msg_queue # <<>> ->
                   /\ pc' = "del" /\ job' = Accepted
                   /\ UNCHANGED crashed
              [] OTHER -> Go("tail")
  /\ msg_status' = "ready"
  /\ Receive("out")
  /\ UNCHANGED <<sock, chan_ready, timer, batch, adderVars, resVars, reqVars>>

OutTail ==
  /\ pc = "tail"
  /\ Go(IF msg_queue # <<>> /\ chan_ready["in"] /\ msg_status = "ready"
        THEN "wake" ELSE "next")
  /\ UNCHANGED <<chanVars, adderVars, resVars, reqVars, outVars, batch>>

-----------------------------------------------------------------------------
(* resMsgAdd: find the entry under res_umap_lock, fill it in without, add  *)
(* the request to res_set under res_set_lock.  Then reqMsgDel: the stamp   *)
(* under exp_mmap_lock, the node under the list's lock.                    *)

AfterResMsgAdd ==
  IF job.then = "none" THEN Go("next") ELSE pc' = "del" /\ UNCHANGED <<job, crashed>>

(* The request is published before its result is filled in.                *)
BadResLookup ==
  /\ pc = "lookup"
  /\ pc' = "publish"
  /\ UNCHANGED <<chanVars, adderVars, resVars, reqVars, outVars, batch, job, crashed>>

ResLookup ==
  /\ pc = "lookup"
  /\ IF job.id \in Ids /\ res_umap[job.id] # "absent"
     THEN pc' = "write" /\ UNCHANGED <<job, crashed>>
     ELSE AfterResMsgAdd
  /\ UNCHANGED <<chanVars, adderVars, resVars, reqVars, outVars, batch>>

(* A write to an entry that was erased goes to freed memory.               *)
ResWrite ==
  /\ pc = "write"
  /\ pc' = "publish"
  /\ res_umap' = IF res_umap[job.id] = "absent" THEN res_umap
                 ELSE [res_umap EXCEPT ![job.id] = job.code]
  /\ UNCHANGED <<chanVars, adderVars, res_set, answers, taken, reqVars, outVars,
                 batch, job, crashed>>

(* The request never gets into res_set.                                    *)
BadResPublish ==
  /\ pc = "publish"
  /\ AfterResMsgAdd
  /\ UNCHANGED <<chanVars, adderVars, resVars, reqVars, outVars, batch>>

ResPublish ==
  /\ pc = "publish"
  /\ res_set' = res_set \cup {job.id}
  /\ answers' = Append(answers, job.id)
  /\ AfterResMsgAdd
  /\ UNCHANGED <<chanVars, adderVars, res_umap, taken, reqVars, outVars, batch>>

(* The stamp, or the node, stays.                                          *)
BadReqMsgDelStamp ==
  /\ pc = "del"
  /\ pc' = "unlink"
  /\ UNCHANGED <<chanVars, adderVars, resVars, reqVars, outVars, batch, job, crashed>>

BadReqMsgDelUnlink ==
  /\ pc = "unlink"
  /\ Go(job.then)
  /\ UNCHANGED <<chanVars, adderVars, resVars, reqVars, outVars, batch>>

ReqMsgDelStamp ==
  /\ pc = "del"
  /\ pc' = "unlink"
  /\ exp_stamps' = exp_stamps \ {Head(msg_queue)}
  /\ UNCHANGED <<chanVars, adderVars, resVars, msg_queue, req_edge, outVars,
                 batch, job, crashed>>

ReqMsgDelUnlink ==
  /\ pc = "unlink"
  /\ msg_queue' = Tail(msg_queue)
  /\ Go(job.then)
  /\ UNCHANGED <<chanVars, adderVars, resVars, exp_stamps, req_edge, outVars, batch>>

BadWake ==
  /\ pc = "wake"
  /\ Go("next")
  /\ UNCHANGED <<chanVars, adderVars, resVars, reqVars, outVars, batch>>

(* eventfd_write(req_msg_evfd, 0).                                         *)
Wake ==
  /\ pc = "wake"
  /\ req_edge' = TRUE
  /\ Go("next")
  /\ UNCHANGED <<chanVars, adderVars, resVars, msg_queue, exp_stamps, outVars, batch>>

-----------------------------------------------------------------------------

Request ==
  \/ ReqEmpty \/ ReqUnavailable \/ ReqTooMany \/ ReqSent \/ ReqPartlySent
  \/ ReqSendFails \/ OutReconnect

Input ==
  \/ \E c \in Channel : RecvMore(c)
  \/ InNothing \/ In400 \/ InReg \/ InResult
  \/ OutNothing \/ OutGarbled \/ OutReg \/ OutAnswer \/ OutTail

Result == ResLookup \/ ResWrite \/ ResPublish \/ ReqMsgDelStamp \/ ReqMsgDelUnlink \/ Wake

LoopNext ==
  \/ EpollWait
  \/ \E c \in Channel : HupReconnect(c) \/ ConnectFd(c) \/ SockIn(c)
  \/ \E e \in Event : Ignore(e)
  \/ Request \/ Input \/ Result

Outside == Environment /\ UNCHANGED <<adderVars, resVars, reqVars, outVars, loopVars>>

Next ==
  /\ ~crashed
  /\ \/ ReqMsgAddEmplace \/ AdderContinue
     \/ \E id \in Ids : Consume(id)
     \/ LoopNext
     \/ Outside

(* The loop thread and the thread inside reqMsgAdd keep running.           *)
Fairness == WF_vars(~crashed /\ LoopNext) /\ WF_vars(~crashed /\ AdderContinue)

Spec == Init /\ [][Next]_vars /\ Fairness

-----------------------------------------------------------------------------

Queued == {msg_queue[k] : k \in DOMAIN msg_queue}
Delivered == {taken[k] : k \in DOMAIN taken}
Answered == res_set \cup Delivered

(* The request queue and the expiry stamps are under two locks and change  *)
(* in two steps in each thread: outside the two windows they agree, so no  *)
(* stamp outlives its node and no queued request is without one.           *)
StampsMatchQueue ==
  exp_stamps = (Queued \ (IF pc = "unlink" THEN {Head(msg_queue)} ELSE {}))
                 \cup (IF adder = "link" THEN {msg_id} ELSE {})

(* The eventfd is never read and is edge-triggered: a request in the queue *)
(* whose edge was consumed too early would wait for the next reqMsgAdd.    *)
(* While the out channel cannot become ready every order of submissions,   *)
(* reconnects and wake-ups leaves an edge, or a step that writes one.      *)
NoLostWakeup ==
  msg_queue # <<>> =>
    \/ req_edge \/ Req \in batch
    \/ adder = "wake" \/ pc = "wake" \/ job.then = "wake"

(* Between ++msg_id and the consumer, each request is always in the hands  *)
(* of reqMsgAdd, in the queue or answered: none is dropped without result. *)
NoSilentDrop ==
  \A id \in 1 .. msg_id :
    \/ id = msg_id /\ adder \in {"stamp", "link"}
    \/ id \in Queued \cup Answered

(* A request is answered after every earlier one and never a second time,  *)
(* even when the consumer takes its result while the loop still has to     *)
(* remove it from the queue.                                               *)
AnsweredInOrder ==
  /\ res_set \cap Delivered = {}
  /\ \A id \in Answered : 1 .. id \subseteq Answered

(* resMsgAdd writes through a pointer it took under a lock it has given    *)
(* back: the consumer must not erase the entry in between.                 *)
NoWriteToErased == pc = "write" => res_umap[job.id] # "absent"

(* A result is published only with its rescode filled in, although the two *)
(* are under different locks.                                              *)
PublishedIsFilled == \A id \in res_set : res_umap[id] \in ResultCode

(* A channel without a socket has its connect timer armed or its expiry    *)
(* under way, through failed connects, reconnects and restarts, so the     *)
(* client never stops trying; and a channel with one has not, or the timer *)
(* would connect over it and lose the open socket.                         *)
ReconnectPending ==
  \A c \in Channel :
    sock[c] = NoSock <=> timer[c] # "off" \/ <<"connect", c>> \in batch

(* A ready "in" channel has a socket that ss_epoll watches for input:      *)
(* reconnect paths that leave the new socket out of epoll clear the flag.  *)
ReadyInWatched ==
  chan_ready["in"] => sock["in"] # NoSock /\ file[sock["in"]].epoll = "in"

(* The only steps that leave queued requests without a wake-up are one that *)
(* handles the request event and sends or gives up, and a restart that     *)
(* drops the event: no order of submissions, answers and reconnects does.  *)
SleepsOnlyAtRequest ==
  [][NoLostWakeup /\ ~NoLostWakeup' =>
       \/ ReqTooMany \/ ReqSent \/ ReqPartlySent \/ ReqSendFails
       \/ Req \in batch /\ batch' = {} /\ pc' = "next"]_vars

(* cleanAll forgets the sockets before it closes them: a restart loses     *)
(* both.  No other step, of any order of closes, connects and reused       *)
(* descriptors, loses one.                                                 *)
Lost(f) == file[f].epoll # "closed" /\ \A c \in Channel : sock[c] # f
LostOnlyInRestart ==
  [][\A f \in Fd : ~Lost(f) /\ Lost(f)' => batch' = {} /\ \A c \in Channel : sock'[c] = NoSock]_vars

(* "recv==0(conn closed or buffer is full due too big msg)" (inEpollin):   *)
(* messages that fit in the buffer do not make recv() give 0 on a          *)
(* connection that is open.                                                *)
FullOnlyIfTooBig ==
  pc = "in" /\ Got("in") = 0 /\ Rx("in") # <<>> => file[sock["in"]].gone

(* A request leaves the queue only when its result is published, whoever   *)
(* took it since, or when the server said ok on the out channel: resMsgAdd *)
(* and reqMsgDel, which nothing ties together but their order in the loop, *)
(* treat the same request although reqMsgAdd and the consumer run between. *)
RemovedOnlyIfAnswered ==
  [][\A id \in Queued \ Queued' : id \in Answered \/ job = Accepted]_vars

(* For its users the client, all its locks, wake-ups and channels included, *)
(* is the one of AbsClient: what resMsgAdd publishes is 1, 2, 3 ... with no *)
(* request twice nor before it was submitted, and the consumer takes none  *)
(* twice nor before it was published.                                      *)
Abs == INSTANCE AbsClient WITH submitted <- msg_id
ImplementsRequests == Abs!Spec

(* Every request submitted gets a result, whatever the channels do.        *)
EveryRequestAnswered ==
  \A id \in Ids : (msg_id >= id) ~> (id \in Answered)
=============================================================================
