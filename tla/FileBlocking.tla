---------------------------- MODULE FileBlocking ----------------------------
(***************************************************************************)
(* The blocking handlers of the file service (AppendOneLargeFile and       *)
(* AppendManySmallFiles of file_target.cc) with the clients that call them *)
(* in lock step (test_large_blocking and test_small_blocking of            *)
(* file_initiator.cc).  The handlers read the member buffer_size for the   *)
(* allocation, for the copy and for the write of every request, and any    *)
(* client may set it in between; all large clients use one file, which     *)
(* each call truncates.                                                    *)
(*                                                                         *)
(* gRPC and the file system are external.  An access past the end of a     *)
(* buffer leaves the service "corrupt", where the model stops.             *)
(***************************************************************************)
EXTENDS Integers, Sequences, FiniteSets

CONSTANTS
  Clients,   \* the client processes, each with one stream
  Confs,     \* what they may be started with: kind, n, size
  MaxN       \* no client sends more requests than this

ConfType == [kind : {"large", "small"}, n : Nat, size : Nat \ {0}]

ASSUME BlockingAssumption ==
  /\ IsFiniteSet(Clients)
  /\ Confs \subseteq [Clients -> ConfType]
  /\ MaxN \in Nat
  /\ \A f \in Confs, c \in Clients : f[c].n <= MaxN

VARIABLES
  conf,      \* conf[c]: the arguments of client c
  corrupt,   \* the clients whose handler damaged memory
  bufSize,   \* the member buffer_size
  cpc,       \* cpc[c]: the client
  sent,      \* sent[c]: requests it has written
  got,       \* got[c]: replies it has read
  wire,      \* wire[c]: the requests under way, none or one
  replies,   \* replies[c]: the replies under way
  hpc,       \* hpc[c]: the handler
  request,   \* request[c]: number and data length of the request it holds
  fd,        \* fd[c]: whether its open succeeded
  buffer,    \* buffer[c]: the size of the buffer it has allocated
  file,      \* file[f]: the writes that file f holds, oldest first
  disturbed  \* disturbed[c]: another client interfered with c's call

clientVars  == <<cpc, sent, got>>
streamVars  == <<wire, replies>>
handlerVars == <<hpc, request, fd, buffer>>
vars == <<conf, corrupt, bufSize, clientVars, streamVars, handlerVars, file, disturbed>>

(* File 0 is /mnt/large-file, file i is /mnt/small-file-(i-1).             *)
LargeFile == 0
Names == 0 .. MaxN

Large(c) == conf[c].kind = "large"
NoRequest == [no |-> 0, data |-> 0]

Init ==
  /\ conf \in Confs
  /\ corrupt = {}
  /\ bufSize = 0
  /\ cpc = [c \in Clients |-> "params"]
  /\ sent = [c \in Clients |-> 0]
  /\ got = [c \in Clients |-> 0]
  /\ wire = [c \in Clients |-> <<>>]
  /\ replies = [c \in Clients |-> 0]
  /\ hpc = [c \in Clients |-> "none"]
  /\ request = [c \in Clients |-> NoRequest]
  /\ fd = [c \in Clients |-> FALSE]
  /\ buffer = [c \in Clients |-> 0]
  /\ file = [f \in Names |-> <<>>]
  /\ disturbed = [c \in Clients |-> FALSE]

-----------------------------------------------------------------------------
(* The clients.                                                            *)

ClientGoto(c, step) == cpc' = [cpc EXCEPT ![c] = step]
Running(c) == cpc[c] \notin {"params", "ok", "failed"}

(* set_target_params and SetParameters; then the stream is opened and its  *)
(* handler starts.                                                         *)
Start(c) ==
  /\ cpc[c] = "params"
  /\ bufSize' = conf[c].size
  /\ disturbed' = [d \in Clients |->
       disturbed[d] \/ (Running(d) /\ conf[d].size # conf[c].size)]
  /\ ClientGoto(c, "open")
  /\ UNCHANGED <<conf, corrupt, sent, got, streamVars, handlerVars, file>>

OpenStream(c) ==
  /\ cpc[c] = "open"
  /\ ClientGoto(c, "loop")
  /\ hpc' = [hpc EXCEPT ![c] = IF Large(c) THEN "first" ELSE "read"]
  /\ UNCHANGED <<conf, corrupt, bufSize, sent, got, streamVars, request, fd, buffer, file,
                 disturbed>>

Returned(c) == hpc[c] \in {"good", "bad"}

(* stream->Write.  It has no effect once the call has ended.  The data is  *)
(* at least buffer_size long: set_data takes an unterminated buffer for a  *)
(* string.                                                                 *)
WriteRequest(c) ==
  /\ cpc[c] = "loop" /\ sent[c] < conf[c].n
  /\ sent' = [sent EXCEPT ![c] = @ + 1]
  /\ wire' = IF Returned(c) THEN wire
             ELSE [wire EXCEPT ![c] = Append(@, [no |-> sent'[c], data |-> conf[c].size])]
  /\ ClientGoto(c, "reply")
  /\ UNCHANGED <<conf, corrupt, bufSize, got, replies, handlerVars, file, disturbed>>

(* stream->Read.  It returns false when the call has ended, which the      *)
(* client does not look at.                                                *)
ReadReply(c) ==
  /\ cpc[c] = "reply"
  /\ \/ /\ replies[c] > 0
        /\ replies' = [replies EXCEPT ![c] = @ - 1]
        /\ got' = [got EXCEPT ![c] = @ + 1]
     \/ replies[c] = 0 /\ Returned(c) /\ UNCHANGED <<replies, got>>
  /\ ClientGoto(c, "loop")
  /\ UNCHANGED <<conf, corrupt, bufSize, sent, wire, handlerVars, file, disturbed>>

WritesDone(c) ==
  /\ cpc[c] = "loop" /\ sent[c] = conf[c].n
  /\ ClientGoto(c, "finish")
  /\ UNCHANGED <<conf, corrupt, bufSize, sent, got, streamVars, handlerVars, file, disturbed>>

(* Finish waits for the status.                                            *)
Finish(c) ==
  /\ cpc[c] = "finish" /\ Returned(c)
  /\ ClientGoto(c, IF hpc[c] = "good" THEN "ok" ELSE "failed")
  /\ UNCHANGED <<conf, corrupt, bufSize, sent, got, streamVars, handlerVars, file, disturbed>>

-----------------------------------------------------------------------------
(* The handlers.                                                           *)

Goto(c, step) == hpc' = [hpc EXCEPT ![c] = step]

Receive(c) ==
  /\ wire[c] # <<>>
  /\ request' = [request EXCEPT ![c] = Head(wire[c])]
  /\ wire' = [wire EXCEPT ![c] = Tail(@)]

StreamEnded(c) == wire[c] = <<>> /\ cpc[c] = "finish"

(* The large handler's first Read: its result is ignored, so a stream      *)
(* without requests is handled like one with an empty request.             *)
FirstRequest(c) ==
  /\ hpc[c] = "first"
  /\ Receive(c) \/ (StreamEnded(c) /\ UNCHANGED <<request, wire>>)
  /\ Goto(c, "openlarge")
  /\ UNCHANGED <<conf, corrupt, bufSize, clientVars, replies, fd, buffer, file, disturbed>>

(* open with O_TRUNC, which drops what other clients have written.  Its    *)
(* result is not looked at; it fails when there was no request to name the *)
(* file.                                                                   *)
OpenLarge(c) ==
  /\ hpc[c] = "openlarge"
  /\ \/ /\ request[c] # NoRequest
        /\ fd' = [fd EXCEPT ![c] = TRUE]
        /\ file' = [file EXCEPT ![LargeFile] = <<>>]
        /\ disturbed' = [d \in Clients |->
             disturbed[d] \/ \E i \in 1 .. Len(file[LargeFile]) : file[LargeFile][i].who = d]
     \/ UNCHANGED <<fd, file, disturbed>>
  /\ Goto(c, "alloc")
  /\ UNCHANGED <<conf, corrupt, bufSize, clientVars, streamVars, request, buffer>>

(* The loops: the next request, or the end of the stream, where the large  *)
(* handler closes its file.                                                *)
NextRequest(c) ==
  /\ hpc[c] = "read"
  /\ \/ Receive(c) /\ Goto(c, IF Large(c) THEN "alloc" ELSE "opensmall") /\ UNCHANGED fd
     \/ /\ StreamEnded(c)
        /\ Goto(c, "good")
        /\ fd' = [fd EXCEPT ![c] = FALSE]
        /\ UNCHANGED <<request, wire>>
  /\ UNCHANGED <<conf, corrupt, bufSize, clientVars, replies, buffer, file, disturbed>>

OpenSmall(c) ==
  /\ hpc[c] = "opensmall"
  /\ fd' = [fd EXCEPT ![c] = TRUE]
  /\ Goto(c, "alloc")
  /\ UNCHANGED <<conf, corrupt, bufSize, clientVars, streamVars, request, buffer, file,
                 disturbed>>

AllocShort(c) ==
  /\ hpc[c] = "alloc"
  /\ buffer' = [buffer EXCEPT ![c] = bufSize - 1]
  /\ Goto(c, "copy")
  /\ UNCHANGED <<conf, corrupt, bufSize, clientVars, streamVars, request, fd, file, disturbed>>

(* posix_memalign, with the buffer_size of the moment.                     *)
Alloc(c) ==
  /\ hpc[c] = "alloc"
  /\ buffer' = [buffer EXCEPT ![c] = bufSize]
  /\ Goto(c, "copy")
  /\ UNCHANGED <<conf, corrupt, bufSize, clientVars, streamVars, request, fd, file, disturbed>>

(* An early return: open, posix_memalign or close fails.                   *)
CallFails(c) ==
  /\ hpc[c] \in {"opensmall", "alloc", "close"}
  /\ Goto(c, "bad")
  /\ UNCHANGED <<conf, corrupt, bufSize, clientVars, streamVars, request, fd, buffer, file,
                 disturbed>>

Corrupt(c) ==
  /\ corrupt' = {c}
  /\ UNCHANGED <<conf, bufSize, clientVars, streamVars, handlerVars, file, disturbed>>

(* memcpy of buffer_size bytes, from the request to the buffer.            *)
Copy(c) ==
  /\ hpc[c] = "copy"
  /\ IF bufSize <= buffer[c] /\ bufSize <= request[c].data
     THEN /\ Goto(c, "write")
          /\ UNCHANGED <<conf, corrupt, bufSize, clientVars, streamVars, request, fd, buffer,
                         file, disturbed>>
     ELSE Corrupt(c)

Target(c) == IF Large(c) THEN LargeFile ELSE request[c].no

ShortAccepted(c) == TRUE

(* The small handler compares the result of write with buffer_size, the    *)
(* large one only with 0.                                                  *)
ShortIsGood(c) == Large(c)

(* write of buffer_size bytes: all of them, a part, or none.               *)
Write(c) ==
  /\ hpc[c] = "write"
  /\ IF bufSize > buffer[c]
     THEN Corrupt(c)
     ELSE /\ \/ /\ fd[c]
                /\ \E full \in BOOLEAN :
                     /\ file' = [file EXCEPT ![Target(c)] =
                          Append(@, [who |-> c, no |-> request[c].no, full |-> full])]
                     /\ Goto(c, IF ~full /\ ~ShortIsGood(c) THEN "bad"
                                ELSE IF Large(c) THEN "reply" ELSE "close")
             \/ Goto(c, "bad") /\ UNCHANGED file
          /\ UNCHANGED <<conf, corrupt, bufSize, clientVars, streamVars, request, fd, buffer,
                         disturbed>>

Close(c) ==
  /\ hpc[c] = "close"
  /\ fd' = [fd EXCEPT ![c] = FALSE]
  /\ Goto(c, "reply")
  /\ UNCHANGED <<conf, corrupt, bufSize, clientVars, streamVars, request, buffer, file,
                 disturbed>>

ReplyForgotten(c) ==
  /\ hpc[c] = "reply"
  /\ Goto(c, "read")
  /\ UNCHANGED <<conf, corrupt, bufSize, clientVars, streamVars, request, fd, buffer, file,
                 disturbed>>

Reply(c) ==
  /\ hpc[c] = "reply"
  /\ replies' = [replies EXCEPT ![c] = @ + 1]
  /\ Goto(c, "read")
  /\ UNCHANGED <<conf, corrupt, bufSize, clientVars, wire, request, fd, buffer, file,
                 disturbed>>

-----------------------------------------------------------------------------
Client(c) ==
  \/ Start(c) \/ OpenStream(c) \/ WriteRequest(c) \/ ReadReply(c) \/ WritesDone(c) \/ Finish(c)

Handler(c) ==
  \/ FirstRequest(c) \/ OpenLarge(c) \/ NextRequest(c) \/ OpenSmall(c)
  \/ Alloc(c) \/ CallFails(c) \/ Copy(c) \/ Write(c) \/ Close(c) \/ Reply(c)

Next == corrupt = {} /\ \E c \in Clients : Client(c) \/ Handler(c)

Spec == Init /\ [][Next]_vars

(* The clients and the threads of the service are scheduled.               *)
FairSpec ==
  /\ Spec
  /\ \A c \in Clients : WF_vars(corrupt = {} /\ Client(c)) /\ WF_vars(corrupt = {} /\ Handler(c))

-----------------------------------------------------------------------------
(* Properties.                                                             *)

Entry == [who : Clients, no : Nat, full : BOOLEAN]

(* Each variable has its type.                                             *)
TypeOK ==
  /\ conf \in Confs
  /\ corrupt \subseteq Clients
  /\ bufSize \in Nat
  /\ cpc \in [Clients -> {"params", "open", "loop", "reply", "finish", "ok", "failed"}]
  /\ sent \in [Clients -> Nat] /\ got \in [Clients -> Nat]
  /\ wire \in [Clients -> Seq([no : Nat, data : Nat])]
  /\ replies \in [Clients -> Nat]
  /\ hpc \in [Clients -> {"none", "first", "openlarge", "read", "opensmall", "alloc", "copy",
                          "write", "close", "reply", "good", "bad"}]
  /\ request \in [Clients -> [no : Nat, data : Nat]]
  /\ fd \in [Clients -> BOOLEAN]
  /\ buffer \in [Clients -> Nat]
  /\ file \in [Names -> Seq(Entry)]
  /\ disturbed \in [Clients -> BOOLEAN]

(* A call that has requests, and that no other client interferes with: by  *)
(* another buffer size, or by truncating the large file it has written to. *)
Regular(c) == ~disturbed[c] /\ conf[c].n > 0

Places == UNION {{f} \X (1 .. Len(file[f])) : f \in Names}
Mine(c) == {x \in Places : file[x[1]][x[2]].who = c}

(* What a client has replies for was written, in its place and once, and   *)
(* at most one request is ahead of its reply.  A small file was written in *)
(* full; a short write to the large file is answered like a full one.      *)
AckedOnFile ==
  \A c \in Clients : Regular(c) =>
    /\ \A k \in 1 .. got[c] :
         LET f == IF Large(c) THEN LargeFile ELSE k
         IN  Cardinality({i \in 1 .. Len(file[f]) :
               /\ file[f][i].who = c /\ file[f][i].no = k
               /\ file[f][i].full \/ Large(c)}) = 1
    /\ Cardinality(Mine(c)) \in got[c] .. got[c] + 1

(* No copy and no write of a call passes the end of its buffer or of its   *)
(* request's data, unless the size was changed under this call or it is a  *)
(* large call without a request.                                           *)
NoOverrun == \A c \in corrupt : ~Regular(c)

(* Every client comes to its end, also when its handler returns early.     *)
ClientsEnd == \A c \in Clients : <>(corrupt # {} \/ cpc[c] \in {"ok", "failed"})

=============================================================================
