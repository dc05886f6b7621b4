------------------------------ MODULE SSChannel ------------------------------
(***************************************************************************)
(* The two service channels of an SSClient: the sockets, their connect     *)
(* timers and their receive buffers (in_struct and out_struct), what       *)
(* ssConnect, inReconnect, outReconnect, cleanAll and init do to them, and *)
(* the kernel and the server behind the sockets.  SSClient composes these  *)
(* operators with the request path and the epoll loop; this module has no  *)
(* next-state relation of its own.                                         *)
(*                                                                         *)
(* A descriptor is a member of Fd; NoSock is the -1 of the code.  A closed *)
(* socket frees its descriptor, and the next socket() may get the same     *)
(* one.  recv() returns whole messages: one split in two does not parse,   *)
(* and the code treats it as the second message of a buffer, see SSClient. *)
(***************************************************************************)
EXTENDS Naturals, Sequences, FiniteSets

CONSTANTS
  Fd,        (* descriptors the process can use for channel sockets         *)
  NoSock,    (* the value -1 of in.sock and out.sock                        *)
  OutBuff,   (* whether out.recv.buff points to a buffer: init() allocates  *)
             (* in.recv.buff only, so FALSE is the code as it stands        *)
  ServerMsg, (* the messages the server may send, per channel               *)
  BuffSize,  (* SERVER_MSG_BUFF_SIZE, in messages                           *)
  MaxRx,     (* bound: messages the server leaves unread on one socket      *)
  MayThrow   (* whether the allocation in ssReg may throw std::bad_alloc    *)

Channel == {"in", "out"}

(* The result codes the code tells apart.                                  *)
ResultCode == {"ok", "not_ready", "err", "busy", "too_many", "unavailable"}

(* What the loop reads in a message: whether its method is chan_reg, its   *)
(* res, its msg_id (0: it has none) and whether MSG_END ends it.           *)
Message == [reg : BOOLEAN, res : ResultCode, id : Nat, term : BOOLEAN]

ASSUME ChannelAssumption ==
  /\ IsFiniteSet(Fd)
  /\ NoSock \notin Fd
  /\ OutBuff \in BOOLEAN
  /\ ServerMsg \in [Channel -> SUBSET Message]
  /\ BuffSize \in Nat \ {0}
  /\ MaxRx \in Nat \ {0}
  /\ MayThrow \in BOOLEAN

VARIABLES
  sock,        (* in.sock and out.sock                                      *)
  file,        (* what the kernel holds behind each descriptor              *)
  chan_ready,  (* in.chan_ready and out.chan_ready                          *)
  len,         (* in.recv.len and out.recv.len, in messages                 *)
  timer        (* the connect_fd timers: off, armed, or fired and unseen    *)

chanVars == <<sock, file, chan_ready, len, timer>>

(* epoll: closed, open, or open and in ss_epoll for EPOLLIN or EPOLLOUT;   *)
(* rx: what the server sent and nobody received; gone: it closed its end.  *)
File == [epoll : {"closed", "none", "in", "out"}, rx : Seq(Message),
         gone : BOOLEAN]

ClosedFile == [epoll |-> "closed", rx |-> <<>>, gone |-> FALSE]
Connected == [ClosedFile EXCEPT !.epoll = "none"]

ChannelTypeOK ==
  /\ sock \in [Channel -> Fd \cup {NoSock}]
  /\ file \in [Fd -> File]
  /\ chan_ready \in [Channel -> BOOLEAN]
  /\ len \in [Channel -> 0 .. BuffSize]
  /\ timer \in [Channel -> {"off", "armed", "fired"}]

(* The SSClient constructor, then init().                                  *)
ChannelInit ==
  /\ sock = [c \in Channel |-> NoSock]
  /\ file = [f \in Fd |-> ClosedFile]
  /\ chan_ready = [c \in Channel |-> FALSE]
  /\ len = [c \in Channel |-> 0]
  /\ timer = [c \in Channel |-> "armed"]

(* Definitions named Bad... are mistakes this code could contain; nothing  *)
(* uses them but the tests of the properties.                              *)
BadCloseFd(f) == file

CloseFd(f) == [file EXCEPT ![f] = ClosedFile]

(* The socket is closed, but its number is kept.                           *)
BadSsConnect(files) ==
  {[sock |-> f, file |-> g] :
     f \in {h \in Fd : files[h].epoll = "closed"}, g \in {files}}

(* ssConnect: the outcomes of socket, connect and ssReg when the open      *)
(* files are `files`.  Every failure closes the socket and leaves -1; a    *)
(* new socket is not in ss_epoll.                                          *)
SsConnect(files) ==
  {[sock |-> f, file |-> [files EXCEPT ![f] = Connected]] :
     f \in {g \in Fd : files[g].epoll = "closed"}}
    \cup {[sock |-> NoSock, file |-> files]}

(* chan_ready stays as it was.                                             *)
BadReconnect(c) ==
  /\ sock[c] # NoSock
  /\ \E r \in SsConnect(CloseFd(sock[c])) :
       /\ sock' = [sock EXCEPT ![c] = r.sock]
       /\ file' = r.file
       /\ timer' = IF r.sock = NoSock THEN [timer EXCEPT ![c] = "armed"] ELSE timer
  /\ chan_ready' = chan_ready
  /\ len' = [len EXCEPT ![c] = 0]

(* inReconnect and outReconnect when nothing throws.                       *)
Reconnect(c) ==
  /\ sock[c] # NoSock
  /\ \E r \in SsConnect(CloseFd(sock[c])) :
       /\ sock' = [sock EXCEPT ![c] = r.sock]
       /\ file' = r.file
       /\ timer' = IF r.sock = NoSock THEN [timer EXCEPT ![c] = "armed"] ELSE timer
  /\ chan_ready' = [chan_ready EXCEPT ![c] = FALSE]
  /\ len' = [len EXCEPT ![c] = 0]

(* A failed connect does not set the timer again.                          *)
BadConnectChannel(c) ==
  /\ \E r \in SsConnect(file) :
       /\ sock' = [sock EXCEPT ![c] = r.sock]
       /\ file' = IF r.sock = NoSock THEN r.file
                  ELSE [r.file EXCEPT ![r.sock].epoll = "in"]
  /\ UNCHANGED <<chan_ready, len, timer>>

(* The connect_fd branches of start(), which do add the socket to epoll.   *)
(* The event has turned the timer off.                                     *)
ConnectChannel(c) ==
  /\ \E r \in SsConnect(file) :
       /\ sock' = [sock EXCEPT ![c] = r.sock]
       /\ IF r.sock = NoSock
          THEN /\ file' = r.file
               /\ timer' = [timer EXCEPT ![c] = "armed"]
          ELSE /\ file' = [r.file EXCEPT ![r.sock].epoll = "in"]
               /\ timer' = timer
  /\ UNCHANGED <<chan_ready, len>>

(* cleanAll without the resets, and only the out timer set by init().      *)
BadCleanAllKeepsSockets ==
  /\ len' = [c \in Channel |-> 0]
  /\ timer' = [c \in Channel |-> "armed"]
  /\ sock' = sock

BadInitOneTimer ==
  /\ sock' = [c \in Channel |-> NoSock]
  /\ len' = [c \in Channel |-> 0]
  /\ timer' = [timer EXCEPT !["out"] = "armed"]

(* cleanAll, then init(): reset() comes before close(), so the sockets are *)
(* forgotten, not closed, and chan_ready keeps its value.                  *)
CleanAllAndInit ==
  /\ sock' = [c \in Channel |-> NoSock]
  /\ len' = [c \in Channel |-> 0]
  /\ timer' = [c \in Channel |-> "armed"]

(* std::bad_alloc in ssReg, when the socket is connected already.          *)
ThrowInSsConnect(files) ==
  /\ MayThrow
  /\ \E f \in Fd : /\ files[f].epoll = "closed"
                   /\ file' = [files EXCEPT ![f] = Connected]
  /\ CleanAllAndInit

(* A reconnect that ends in the catch clauses of start(): ssReg throws, or *)
(* the channel has no socket, so that close(-1) and the epollMod after it  *)
(* fail and ntbException is thrown.                                        *)
ReconnectThrows(c) ==
  /\ \/ sock[c] = NoSock /\ file' = file /\ CleanAllAndInit
     \/ sock[c] # NoSock /\ ThrowInSsConnect(CloseFd(sock[c]))
  /\ chan_ready' = [chan_ready EXCEPT ![c] = FALSE]

ConnectThrows(c) == ThrowInSsConnect(file) /\ UNCHANGED chan_ready

-----------------------------------------------------------------------------
(* The kernel and the server.                                              *)

TimerExpire(c) ==
  /\ timer[c] = "armed"
  /\ timer' = [timer EXCEPT ![c] = "fired"]
  /\ UNCHANGED <<sock, file, chan_ready, len>>

Peer(f) == file[f].epoll # "closed" /\ ~file[f].gone

(* The registration told the server which channel a socket is.             *)
ServerSend(c) ==
  /\ sock[c] # NoSock /\ Peer(sock[c])
  /\ Len(file[sock[c]].rx) < MaxRx
  /\ \E m \in ServerMsg[c] : file' = [file EXCEPT ![sock[c]].rx = Append(@, m)]
  /\ UNCHANGED <<sock, chan_ready, len, timer>>

ServerClose(f) ==
  /\ Peer(f)
  /\ file' = [file EXCEPT ![f].gone = TRUE]
  /\ UNCHANGED <<sock, chan_ready, len, timer>>

Environment ==
  \/ \E c \in Channel : TimerExpire(c) \/ ServerSend(c)
  \/ \E f \in Fd : ServerClose(f)

-----------------------------------------------------------------------------

(* Each open descriptor is a channel's socket: no order of close, connect  *)
(* and timer events makes the reconnect paths of start() lose one.         *)
NoDescriptorLeak ==
  \A f \in Fd : file[f].epoll # "closed" => \E c \in Channel : sock[c] = f

(* A channel's socket is open and is not the other channel's, although     *)
(* descriptors are closed and reused while events for them are pending.    *)
SocketsOpen ==
  /\ \A c \in Channel : sock[c] # NoSock => file[sock[c]].epoll # "closed"
  /\ sock["in"] = sock["out"] => sock["in"] = NoSock
=============================================================================
