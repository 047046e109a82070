------------------------------ MODULE VchiqLib ------------------------------
(***************************************************************************)
(* The library that clients of VCHIQ link (vchiq_lib.c): one instance that *)
(* its clients count, slots for services, a thread that awaits completions *)
(* and calls back, and message buffers on a free list.  The driver below   *)
(* has one port, so one open service, per file.                            *)
(*                                                                         *)
(* `upset` names what the library or the driver do not guard against, and  *)
(* ends the behaviour: "count" and "limbo": an initialise that overlaps a  *)
(* shutdown (they hold different mutexes); "end": a shutdown that ends in  *)
(* the middle of another one's; "second": a second service is opened;      *)
(* "late": a service is opened while messages of the last one are left;    *)
(* "header": a client frees a buffer that is still the thread's, as the    *)
(* driver does not count msgbufcount down; "nothing": vchi_msg_hold says   *)
(* that it holds a message where there is none.                            *)
(***************************************************************************)
EXTENDS Integers, SequencesExt, FiniteSetsExt  \* @@ is TLC's

CONSTANTS
  LibClients,   \* threads that initialise the library once, each with one service at a time
  LibServices,  \* the services each may create: is_open, fourcc and callback
  LibSlots,     \* VCHIQ_MAX_INSTANCE_SERVICES
  LibHandles,   \* bound on services created
  LibMessages,  \* bound on messages received
  LibBatch,     \* entries of msgbufs
  LibBuffers    \* buffers that can be allocated

VARIABLE lib

NoHandle == 0  \* VCHIQ_SERVICE_HANDLE_INVALID

LibInit ==
  lib = [initialised |-> 0, connected |-> FALSE, used_services |-> 0, handle_seq |-> 0,
         services |-> [i \in 1 .. LibSlots |->
           [lib_handle |-> NoHandle, is_open |-> FALSE, callback |-> "", fourcc |-> "",
            peek_buf |-> 0, peek_size |-> 0]],
         mutex |-> FALSE, free_msgbufs |-> {}, lost |-> {},
         thread |-> [at |-> "none", msgbufs |-> {}, batch |-> <<>>],
         \* the driver's file: its service, messages to be told of, and told of
         file |-> "closed", user |-> 0, open |-> FALSE, data |-> <<>>, queue |-> <<>>,
         sent |-> 0, next |-> 1, inOrder |-> TRUE, astray |-> FALSE,
         client |-> [c \in LibClients |->
           [at |-> "out", saw |-> 0, slot |-> 0, handle |-> NoHandle, old |-> {}, held |-> {}]],
         upset |-> {}]

At(c, at) == lib.client[c].at = at

Upset(s, why) == [s EXCEPT !.upset = @ \cup {why}]

is_valid_instance == lib.initialised > 0

\* find_service_by_handle: 0 where there is none.
find_service_by_handle(handle) ==
  IF \E i \in 1 .. LibSlots : handle # NoHandle /\ lib.services[i].lib_handle = handle
  THEN CHOOSE i \in 1 .. LibSlots : lib.services[i].lib_handle = handle
  ELSE 0

-----------------------------------------------------------------------------
(* Buffers *)

InUse == lib.free_msgbufs \cup lib.lost \cup lib.thread.msgbufs
         \cup {lib.services[i].peek_buf : i \in 1 .. LibSlots}
         \cup UNION {lib.client[c].held : c \in LibClients}

\* The buffers alloc_msgbuf may return: a free one, else a new one, which may fail.
alloc_msgbuf ==
  IF lib.free_msgbufs # {} THEN {Min(lib.free_msgbufs)}
  ELSE {Min(new) : new \in {(1 .. LibBuffers) \ InUse} \ {{}}}

free_msgbuf(s, buf) == [s EXCEPT !.free_msgbufs = @ \cup {buf}]

-----------------------------------------------------------------------------
(* The instance *)

\* vchiq_initialise and vchi_initialise; vchiq_lib_mutex does not exclude a shutdown.
LibInitReads(c) ==
  /\ At(c, "out")
  /\ \A d \in LibClients : ~At(d, "initialise")
  /\ lib' = [lib EXCEPT !.client[c].at = "initialise", !.client[c].saw = lib.initialised]

\* A file that cannot be opened, or whose driver has another version, is no instance.
vchiq_lib_init(c) ==
  /\ At(c, "initialise")
  /\ LET saw == lib.client[c].saw
         s == [lib EXCEPT !.client[c].at = "in", !.client[c].saw = 0, !.initialised = saw + 1]
     IN lib' \in IF saw # lib.initialised THEN {Upset(s, "count")}
                 ELSE IF saw = -1 THEN {Upset(lib, "limbo")}
                 ELSE IF saw > 0 THEN {s}
                 ELSE {[s EXCEPT !.used_services = 0, !.file = "open"],
                       [lib EXCEPT !.client[c].at = "out"]}

\* Where a thread cannot be created the driver stays connected; the client may try again.
vchiq_connect(c) ==
  /\ At(c, "in") /\ is_valid_instance /\ ~lib.mutex /\ ~lib.connected
  /\ lib' = [lib EXCEPT !.connected = TRUE, !.thread.at = "fill"]

\* vchiq_shutdown and vchi_disconnect take the instance's mutex, ...
ShutdownReads(c) ==
  /\ At(c, "in") /\ is_valid_instance /\ ~lib.mutex /\ lib.client[c].held = {}
  /\ lib' = [lib EXCEPT !.mutex = TRUE, !.client[c].at = "shutdown",
                        !.client[c].saw = lib.initialised]

\* ... count down, or enter limbo, ...
ShutdownCounts(c) ==
  /\ At(c, "shutdown")
  /\ LET saw == lib.client[c].saw
         s == IF saw = 1 THEN [lib EXCEPT !.initialised = -1, !.client[c].at = "limbo"]
              ELSE [lib EXCEPT !.initialised = saw - 1, !.mutex = FALSE, !.client[c].at = "last"]
     IN lib' = IF saw # lib.initialised THEN Upset(s, "count") ELSE s

\* ... remove the services, ...
ShutdownRemoves(c) ==
  /\ At(c, "limbo")
  /\ \E i \in 1 .. lib.used_services :
       /\ lib.services[i].lib_handle # NoHandle
       /\ lib' = [lib EXCEPT !.services[i].lib_handle = NoHandle, !.open = FALSE]

\* Mutant: the thread is not waited for.
StopsUnjoined(c) ==
  /\ At(c, "limbo")
  /\ \A i \in 1 .. lib.used_services : lib.services[i].lib_handle = NoHandle
  /\ lib' = [lib EXCEPT !.connected = FALSE, !.file = "closed", !.mutex = FALSE,
                        !.data = <<>>, !.queue = <<>>, !.client[c].at = "last"]

\* ... purge the driver's queue and join the thread, ...
ShutdownStops(c) ==
  /\ At(c, "limbo")
  /\ \A i \in 1 .. lib.used_services : lib.services[i].lib_handle = NoHandle
  /\ IF lib.connected /\ lib.file = "open"
     THEN lib' = [lib EXCEPT !.file = "purged"]
     ELSE /\ lib.connected => lib.thread.at = "ended"
          /\ lib' = [lib EXCEPT !.connected = FALSE, !.file = "closed", !.mutex = FALSE,
                                !.data = <<>>, !.queue = <<>>, !.client[c].at = "last"]

\* ... and end, once the mutex is released: any shutdown that finds limbo deletes the mutex.
ShutdownEnds(c) ==
  /\ At(c, "last")
  /\ LET s == [lib EXCEPT !.client[c].at = "gone", !.client[c].saw = 0]
     IN lib' = IF lib.initialised # -1 THEN s
               ELSE IF lib.client[c].saw # 1 THEN Upset(s, "end")
               ELSE [s EXCEPT !.initialised = 0, !.client = [d \in LibClients |->
                       [@[d] EXCEPT !.handle = NoHandle,
                                    !.old = @ \cup ({lib.client[d].handle} \ {NoHandle})]]]

-----------------------------------------------------------------------------
(* Services *)

\* The slot: the first free one, for a server only if no other has its fourcc with another callback.
FreeSlot(wanted) ==
  LET valid == {i \in 1 .. lib.used_services : lib.services[i].lib_handle # NoHandle}
      free == (1 .. lib.used_services) \ valid
      other == {i \in valid : /\ lib.services[i].fourcc = wanted.fourcc
                              /\ lib.services[i].callback # wanted.callback}
  IN IF ~wanted.is_open /\ other # {} THEN {}
     ELSE IF free # {} THEN {Min(free)}
     ELSE {lib.used_services + 1} \cap 1 .. LibSlots

\* Mutant of CreateClaims: the handle is the slot's.
ClaimsSameHandle(c, wanted) ==
  /\ At(c, "in") /\ is_valid_instance /\ ~lib.mutex /\ lib.client[c].handle = NoHandle
  /\ \E i \in FreeSlot(wanted) :
       lib' = [lib EXCEPT !.used_services = IF i > @ THEN i ELSE @, !.handle_seq = @ + 1,
                 !.services[i].lib_handle = i,
                 !.client[c] = [@ EXCEPT !.at = "create", !.slot = i, !.handle = i]]

\* create_service, under the mutex: a slot and a handle that no service had before.
CreateClaims(c, wanted) ==
  /\ At(c, "in") /\ is_valid_instance /\ ~lib.mutex /\ lib.client[c].handle = NoHandle
  /\ \E i \in FreeSlot(wanted) :
       LET handle == lib.handle_seq + 1
       IN lib' = [lib EXCEPT !.used_services = IF i > @ THEN i ELSE @, !.handle_seq = handle,
                    !.services[i].lib_handle = handle,
                    !.client[c] = [@ EXCEPT !.at = "create", !.slot = i, !.handle = handle]]

\* Then the fields, and the driver, which may refuse; a buffer kept from the last service is lost.
create_service(c, wanted) ==
  /\ At(c, "create")
  /\ LET i == lib.client[c].slot
         s == [lib EXCEPT !.services[i] =
                   wanted @@ [lib_handle |-> @.lib_handle, peek_buf |-> 0, peek_size |-> 0],
                 !.lost = @ \cup ({lib.services[i].peek_buf} \ {0}),
                 !.client[c].at = "in", !.client[c].slot = 0]
         left == lib.data # <<>> \/ lib.queue # <<>> \/ lib.thread.batch # <<>>
         why == (IF lib.open THEN {"second"} ELSE {}) \cup (IF left THEN {"late"} ELSE {})
     IN \/ lib' = [s EXCEPT !.user = i, !.open = TRUE, !.next = lib.sent + 1, !.upset = @ \cup why]
        \/ /\ ~lib.mutex
           /\ lib' = [s EXCEPT !.services[i].lib_handle = NoHandle, !.client[c].handle = NoHandle,
                               !.client[c].old = @ \cup {lib.client[c].handle}]

\* The service of the client's handle, where it has one.
Service(c) == IF At(c, "in") THEN find_service_by_handle(lib.client[c].handle) ELSE 0

Forget(c, s) ==
  [s EXCEPT !.client[c].handle = NoHandle, !.client[c].old = @ \cup {lib.client[c].handle}]

\* vchiq_close_service and vchi_service_close: a server keeps its handle, and a client loses it
\* even if the driver could not close the service.
vchiq_close_service(c) ==
  /\ Service(c) # 0 /\ lib.open
  /\ LET i == Service(c)
         s == IF lib.services[i].is_open
              THEN Forget(c, [lib EXCEPT !.services[i].lib_handle = NoHandle]) ELSE lib
     IN lib' \in {s, [s EXCEPT !.open = FALSE]}

\* vchiq_remove_service and vchi_service_destroy
vchiq_remove_service(c) ==
  /\ Service(c) # 0
  /\ LET s == Forget(c, [lib EXCEPT !.services[Service(c)].lib_handle = NoHandle])
     IN lib' \in {s, [s EXCEPT !.open = FALSE]}

-----------------------------------------------------------------------------
(* Messages *)

\* The service whose messages a client may take, while it is open.
Receiving(c) == IF lib.open /\ lib.user = Service(c) THEN Service(c) ELSE 0

Consumed(s, m) == [s EXCEPT !.inOrder = @ /\ m = s.next, !.next = @ + 1]

\* fill_peek_buf: the buffer stays with the service also if no message comes.
fill_peek_buf(i) ==
  LET service == lib.services[i]
      With(buf) == [lib EXCEPT !.services[i].peek_buf = buf, !.free_msgbufs = @ \ {buf}]
      bufs == IF service.peek_buf # 0 THEN {service.peek_buf} ELSE alloc_msgbuf
  IN IF service.peek_size # 0 THEN {lib}
     ELSE IF lib.queue = <<>> THEN {With(buf) : buf \in bufs}
     ELSE {[With(buf) EXCEPT !.services[i].peek_size = Head(lib.queue), !.queue = Tail(@)] :
             buf \in bufs}

vchi_msg_peek(c) ==
  /\ Receiving(c) # 0
  /\ lib' \in fill_peek_buf(Receiving(c))

\* After a peek, the assertion says.
vchi_msg_remove(c) ==
  /\ Receiving(c) # 0 /\ lib.services[Receiving(c)].peek_size # 0
  /\ LET i == Receiving(c)
     IN lib' = Consumed([lib EXCEPT !.services[i].peek_size = 0], lib.services[i].peek_size)

\* The message that was peeked at first; one that the buffer is too small for stays.
vchi_msg_dequeue(c) ==
  /\ Receiving(c) # 0
  /\ LET i == Receiving(c)
     IN IF lib.services[i].peek_size # 0
        THEN lib' = Consumed([lib EXCEPT !.services[i].peek_size = 0], lib.services[i].peek_size)
        ELSE /\ lib.queue # <<>>
             /\ lib' = Consumed([lib EXCEPT !.queue = Tail(@)], Head(lib.queue))

\* Mutant: the buffer that is held stays the service's.
HoldKeepsPeek(c) ==
  /\ Receiving(c) # 0
  /\ LET i == Receiving(c)
     IN \E s \in fill_peek_buf(i) :
          LET peeked == s.services[i]
          IN lib' = IF peeked.peek_size = 0 THEN Upset(s, "nothing")
                    ELSE Consumed([s EXCEPT !.services[i].peek_size = 0,
                                            !.client[c].held = @ \cup {peeked.peek_buf}],
                                  peeked.peek_size)

\* The buffer goes to the client; 0 is returned also if there is none.
vchi_msg_hold(c) ==
  /\ Receiving(c) # 0
  /\ LET i == Receiving(c)
     IN \E s \in fill_peek_buf(i) :
          LET peeked == s.services[i]
          IN lib' = IF peeked.peek_size = 0 THEN Upset(s, "nothing")
                    ELSE Consumed([s EXCEPT !.services[i].peek_size = 0, !.services[i].peek_buf = 0,
                                            !.client[c].held = @ \cup {peeked.peek_buf}],
                                  peeked.peek_size)

vchi_held_msg_release(c) ==
  \E buf \in lib.client[c].held :
    lib' = free_msgbuf([lib EXCEPT !.client[c].held = @ \ {buf}], buf)

\* A message for the service of the file.
FirmwareMessage ==
  /\ lib.open /\ lib.file = "open" /\ lib.sent < LibMessages
  /\ lib' = [lib EXCEPT !.sent = @ + 1, !.data = Append(@, lib.sent + 1)]

-----------------------------------------------------------------------------
(* completion_thread *)

CompletionFills ==
  /\ lib.thread.at = "fill"
  /\ IF Cardinality(lib.thread.msgbufs) = LibBatch
     THEN lib' = [lib EXCEPT !.thread.at = "await"]
     ELSE \E buf \in alloc_msgbuf :
            lib' = [lib EXCEPT !.thread.msgbufs = @ \cup {buf}, !.free_msgbufs = @ \ {buf}]

\* AWAIT_COMPLETION: as many messages as there are buffers, then they can be dequeued; a purged
\* queue refuses the request.
CompletionAwaits ==
  /\ lib.thread.at = "await"
  /\ \/ /\ lib.file = "purged"
        /\ lib' = [lib EXCEPT !.thread.at = "drain"]
     \/ /\ lib.file = "open" /\ lib.data # <<>>
        /\ LET n == Min({LibBatch, Len(lib.data)})
           IN lib' = [lib EXCEPT !.thread.at = "deliver",
                        !.thread.batch = [k \in 1 .. n |-> lib.user],
                        !.data = SubSeq(@, n + 1, Len(@)), !.queue = @ \o SubSeq(lib.data, 1, n)]

\* The callback of the service whose slot the completion names, whoever has the slot by now.
CompletionCallsBack ==
  /\ lib.thread.at = "deliver"
  /\ IF lib.thread.batch = <<>> THEN lib' = [lib EXCEPT !.thread.at = "fill"]
     ELSE LET i == Head(lib.thread.batch)
              s == [lib EXCEPT !.thread.batch = Tail(@), !.astray = @ \/ i # lib.user]
          IN lib' = IF lib.services[i].callback = "vchiq" THEN Upset(s, "header") ELSE s

CompletionEnds ==
  /\ lib.thread.at = "drain"
  /\ lib' = [lib EXCEPT !.thread.at = "ended", !.thread.msgbufs = {},
                        !.free_msgbufs = @ \cup lib.thread.msgbufs]

completion_thread == CompletionFills \/ CompletionAwaits \/ CompletionCallsBack \/ CompletionEnds

LibNext ==
  /\ lib.upset = {}
  /\ \/ completion_thread \/ FirmwareMessage
     \/ \E c \in LibClients :
          \/ LibInitReads(c) \/ vchiq_lib_init(c) \/ vchiq_connect(c)
          \/ ShutdownReads(c) \/ ShutdownCounts(c) \/ ShutdownRemoves(c) \/ ShutdownStops(c)
          \/ ShutdownEnds(c) \/ vchiq_close_service(c) \/ vchiq_remove_service(c)
          \/ vchi_msg_peek(c) \/ vchi_msg_remove(c) \/ vchi_msg_dequeue(c) \/ vchi_msg_hold(c)
          \/ vchi_held_msg_release(c)
          \/ \E wanted \in LibServices[c] :
               \/ lib.handle_seq < LibHandles /\ CreateClaims(c, wanted)
               \/ create_service(c, wanted)

-----------------------------------------------------------------------------
(* Properties, of behaviours up to an upset. *)

Counted(c) == lib.client[c].at \in {"in", "create", "shutdown"}

\* The instance lasts as long as a client that initialised it has not shut it down.
LibCounted ==
  lib.upset = {} /\ lib.initialised >= 0 =>
    lib.initialised = Cardinality({c \in LibClients : Counted(c)})

\* A handle finds the service it was given for; once that is closed it finds none, also when
\* another service has its slot.
LibHandlesUnique ==
  lib.upset = {} =>
    /\ \A c \in LibClients : \A h \in lib.client[c].old : find_service_by_handle(h) = 0
    /\ \A c \in LibClients : Counted(c) /\ lib.client[c].handle # NoHandle =>
         find_service_by_handle(lib.client[c].handle) # 0
    /\ \A c, d \in LibClients : c # d /\ lib.client[c].handle # NoHandle =>
         lib.client[c].handle # lib.client[d].handle

\* A buffer is free, or the thread's, or a service's, or a client's.
LibBufferOnce ==
  lib.upset = {} =>
    LET peeked == {i \in 1 .. LibSlots : lib.services[i].peek_buf # 0}
    IN /\ \A c \in LibClients : lib.client[c].held \cap
            (lib.free_msgbufs \cup lib.thread.msgbufs
             \cup {lib.services[i].peek_buf : i \in peeked}) = {}
       /\ lib.free_msgbufs \cap lib.thread.msgbufs = {}
       /\ \A i \in peeked : lib.services[i].peek_buf \notin lib.free_msgbufs \cup lib.thread.msgbufs
       /\ \A i, j \in peeked : i # j => lib.services[i].peek_buf # lib.services[j].peek_buf

\* A client gets the messages of its service in order and once, by whichever functions, and its
\* own callbacks.
LibMessagesInOrder == lib.upset = {} => lib.inOrder /\ ~lib.astray

\* Once the instance has been shut down no thread runs and no buffer is the thread's.
LibShutdownComplete ==
  lib.upset = {} /\ lib.initialised = 0 =>
    /\ lib.thread.at \in {"none", "ended"} /\ lib.thread.msgbufs = {}
    /\ ~lib.connected /\ lib.file = "closed"
    /\ \A i \in 1 .. LibSlots : lib.services[i].lib_handle = NoHandle
=============================================================================
