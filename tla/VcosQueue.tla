----------------------------- MODULE VcosQueue -----------------------------
(***************************************************************************)
(* The block pools of VCOS (vcos_generic_blockpool.c), the named           *)
(* semaphores whose records come from one (vcos_generic_named_sem.c), and  *)
(* the message queues whose messages do (vcos_msgqueue.c).                 *)
(*                                                                         *)
(* Every operation on a pool or on the names runs under its mutex.  A pool *)
(* is a sequence of subpools; those after the first are allocated when all *)
(* others are empty, and then stay: subpool_init drops the flags by which  *)
(* free would know an extension.  Semaphores are created always, as in the *)
(* kernel's build.                                                         *)
(*                                                                         *)
(* Clients send messages of their own or from a pool to a server's queue,  *)
(* which takes them by waiting or peeking and replies: to the pool, to a   *)
(* queue of the client's or to a client that waits.  A queue is a list     *)
(* under a lock and a semaphore that is posted after the lock is released. *)
(* The documentation (vcos_msgqueue.h) has one thread for a queue.         *)
(***************************************************************************)
EXTENDS Integers, SequencesExt, FiniteSetsExt

CONSTANTS
  VpBlocks,     \* blocks of the first subpool
  VpExtensions, \* subpools that may be added
  VpExtended,   \* blocks of each of those
  VpNames,      \* names of semaphores, numbers as they are sorted
  VpUsers,      \* who opens them, one at a time
  VqClients,    \* positive numbers; 0 is the server
  VqMessages,   \* blocks of the pool
  VqSends       \* bound on messages sent

VARIABLES vpn, vmq

-----------------------------------------------------------------------------
(* Pools *)

\* free: the free list, next one first; owner: for which blocks the header names the subpool.
Subpool(n) == [start |-> TRUE, num |-> n, free |-> Reverse([k \in 1 .. n |-> k]), owner |-> {}]

vcos_generic_blockpool_init(n) == <<Subpool(n)>>

vcos_generic_blockpool_extend(pool, extensions) ==
  IF Len(pool) > 1 THEN pool
  ELSE pool \o [i \in 1 .. extensions |-> [start |-> FALSE, num |-> 0, free |-> <<>>, owner |-> {}]]

Available(pool) == {i \in 1 .. Len(pool) : pool[i].start /\ pool[i].free # <<>>}

\* The pool and the block that subpool i gives.
Taken(pool, i) ==
  LET block == Head(pool[i].free)
  IN [pool |-> [pool EXCEPT ![i].free = Tail(@), ![i].owner = @ \cup {block}], block |-> <<i, block>>]

\* The first subpool with a free block, else an extension, whose memory may be refused.
vcos_generic_blockpool_alloc(pool) ==
  LET unused == {i \in 2 .. Len(pool) : ~pool[i].start}
  IN IF Available(pool) # {} THEN {Taken(pool, Min(Available(pool)))}
     ELSE {Taken([pool EXCEPT ![i] = Subpool(VpExtended)], i) : i \in unused}
          \cup {[pool |-> pool, block |-> <<>>]}

\* Mutant: to the list of the first subpool.
FreeToFirst(pool, block) ==
  [pool EXCEPT ![1].free = <<block[2]>> \o @, ![block[1]].owner = @ \ {block[2]}]

\* To the head of its subpool's list; the list's link takes the place of the owner.
vcos_generic_blockpool_free(pool, block) ==
  [pool EXCEPT ![block[1]].free = <<block[2]>> \o @, ![block[1]].owner = @ \ {block[2]}]

vcos_generic_blockpool_available_count(pool) ==
  FoldFunction(+, 0, [i \in 1 .. Len(pool) |->
    IF pool[i].start THEN Len(pool[i].free) ELSE VpExtended])

vcos_generic_blockpool_used_count(pool) ==
  FoldFunction(+, 0, [i \in 1 .. Len(pool) |-> pool[i].num - Len(pool[i].free)])

\* A handle is a subpool and an index: the block, if it is one that was given out.
vcos_generic_blockpool_elem_from_handle(pool, handle) ==
  IF /\ handle[1] \in 1 .. Len(pool) /\ pool[handle[1]].start
     /\ handle[2] \in 1 .. pool[handle[1]].num /\ handle[2] \in pool[handle[1]].owner
  THEN handle ELSE <<>>

-----------------------------------------------------------------------------
(* Named semaphores *)

\* The list in use, sorted downwards, and the record each user has.
VpnInit ==
  vpn = [pool |-> vcos_generic_blockpool_extend(vcos_generic_blockpool_init(VpBlocks), VpExtensions),
         sems |-> <<>>, total |-> 0, actual |-> [u \in VpUsers |-> [block |-> <<>>, name |-> 0]]]

\* Where a name is or belongs: the first entry that is not after it.
NamePosition(name) ==
  LET later == {i \in 1 .. Len(vpn.sems) : vpn.sems[i].name <= name}
  IN IF later = {} THEN Len(vpn.sems) + 1 ELSE Min(later)

vcos_generic_named_semaphore_create(u, name) ==
  /\ vpn.actual[u].name = 0
  /\ LET i == NamePosition(name)
         Opened(s, block) == [s EXCEPT !.total = @ + 1, !.actual[u] = [block |-> block, name |-> name]]
     IN IF i <= Len(vpn.sems) /\ vpn.sems[i].name = name
        THEN vpn' = Opened([vpn EXCEPT !.sems[i].refs = @ + 1], vpn.sems[i].block)
        ELSE \E new \in vcos_generic_blockpool_alloc(vpn.pool) :
               /\ new.block # <<>>
               /\ vpn' = Opened([vpn EXCEPT !.pool = new.pool, !.sems =
                           InsertAt(@, i, [name |-> name, refs |-> 1, block |-> new.block])], new.block)

vcos_named_semaphore_delete(u) ==
  /\ vpn.actual[u].name # 0
  /\ LET block == vpn.actual[u].block
         i == CHOOSE i \in 1 .. Len(vpn.sems) : vpn.sems[i].block = block
         s == [vpn EXCEPT !.total = @ - 1, !.actual[u] = [block |-> <<>>, name |-> 0]]
     IN vpn' = IF vpn.sems[i].refs > 1 THEN [s EXCEPT !.sems[i].refs = @ - 1]
               ELSE [s EXCEPT !.sems = RemoveAt(@, i), !.pool = vcos_generic_blockpool_free(@, block)]

VpnNext ==
  \E u \in VpUsers :
    \/ vcos_named_semaphore_delete(u)
    \/ \E name \in VpNames : vcos_generic_named_semaphore_create(u, name)

-----------------------------------------------------------------------------
(* What holds of names and pools *)

\* Whoever opens a name shares one record with the others who have it open, no one else's, and
\* the record lives until the last one closes it.
VpnShared ==
  /\ \A u, w \in VpUsers : vpn.actual[u].name # 0 /\ vpn.actual[w].name # 0 =>
       (vpn.actual[u].name = vpn.actual[w].name <=> vpn.actual[u].block = vpn.actual[w].block)
  /\ \A i \in 1 .. Len(vpn.sems) :
       /\ vpn.sems[i].refs = Cardinality({u \in VpUsers : vpn.actual[u].name = vpn.sems[i].name})
       /\ i > 1 => vpn.sems[i - 1].name > vpn.sems[i].name
  /\ vpn.total = Cardinality({u \in VpUsers : vpn.actual[u].name # 0})

\* The pool's blocks in use are the records, each findable by its handle, and the handles of the
\* others find nothing.
VpnBlocks ==
  LET used == {vpn.sems[i].block : i \in 1 .. Len(vpn.sems)}
      handles == (1 .. 1 + VpExtensions) \X (1 .. Max({VpBlocks, VpExtended}))
  IN /\ vcos_generic_blockpool_used_count(vpn.pool) = Len(vpn.sems)
     /\ vcos_generic_blockpool_available_count(vpn.pool) + Len(vpn.sems)
          = VpBlocks + VpExtensions * VpExtended
     /\ {h \in handles : vcos_generic_blockpool_elem_from_handle(vpn.pool, h) # <<>>} = used
     /\ \A i \in 1 .. Len(vpn.pool) : IsInjective(vpn.pool[i].free)

-----------------------------------------------------------------------------
(* Message queues *)

Threads == VqClients \cup {0}

Static(c) == <<0, c>>  \* a client's own message

\* Where a message's reply goes: on_reply, and the client whose queue or semaphore it is.
Waiter(on_reply, c) == [on_reply |-> on_reply, of |-> c]
NoWaiter == Waiter("none", 0)

\* A queue of each thread's; a thread's place in the code and the message it has there.
VmqInit ==
  vmq = [queue |-> [t \in Threads |-> <<>>], sem |-> [t \in Threads |-> 0], lock |-> FALSE,
         pool |-> vcos_generic_blockpool_init(VqMessages), psem |-> VqMessages,
         waiter |-> [m \in ({1} \X (1 .. VqMessages)) \cup {Static(c) : c \in VqClients} |-> NoWaiter],
         waitsem |-> [c \in VqClients |-> 0],
         at |-> [t \in Threads |-> "idle"], to |-> 0, msg |-> [t \in Threads |-> <<>>], sent |-> 0]

Is(t, at) == vmq.at[t] = at

Go(s, t, at) == [s EXCEPT !.at[t] = at]

\* msgq_append, under the queue's lock, which only a peek holds for longer.
msgq_append(s, q, t) == [s EXCEPT !.queue[q] = Append(@, s.msg[t]), !.msg[t] = <<>>]

-----------------------------------------------------------------------------
(* The pool of messages *)

\* vcos_msgq_pool_alloc and vcos_msgq_pool_wait: a unit of the semaphore first, ...
PoolTakes(c) ==
  /\ Is(c, "idle") /\ vmq.psem > 0
  /\ vmq' = Go([vmq EXCEPT !.psem = @ - 1], c, "pool")

\* ... then a block, which must be there.
PoolAllocs(c) ==
  /\ Is(c, "pool")
  /\ \E new \in vcos_generic_blockpool_alloc(vmq.pool) :
       /\ new.block # <<>>
       /\ vmq' = Go([vmq EXCEPT !.pool = new.pool, !.msg[c] = new.block,
                                !.waiter[new.block] = Waiter("pool", 0)], c, "has")

\* vcos_msgq_pool_free: the block, then the semaphore.
PoolFrees(t) ==
  Go([vmq EXCEPT !.pool = vcos_generic_blockpool_free(@, vmq.msg[t]), !.msg[t] = <<>>], t, "freed")

PoolPosts(t) ==
  /\ Is(t, "freed")
  /\ vmq' = Go([vmq EXCEPT !.psem = @ + 1], t, "idle")

\* A client that does not send its message after all, or has it back.
vcos_msgq_pool_free(c) ==
  /\ Is(c, "has")
  /\ vmq' = PoolFrees(c)

-----------------------------------------------------------------------------
(* Clients *)

vcos_msg_set_source(c) ==
  /\ Is(c, "has")
  /\ vmq' = [vmq EXCEPT !.waiter[vmq.msg[c]] = Waiter("queue", c)]

\* vcos_msg_send: the reply goes where the message says.
vcos_msg_send(c) ==
  /\ Is(c, "has") /\ ~vmq.lock /\ vmq.sent < VqSends
  /\ vmq' = Go([msgq_append(vmq, 0, c) EXCEPT !.sent = @ + 1], c,
               IF vmq.waiter[vmq.msg[c]].on_reply = "queue" THEN "post, queue" ELSE "post")

\* vcos_msg_sendwait, with a message that has no waiter: vcos_msg_init was called for it.
vcos_msg_sendwait(c) ==
  /\ Is(c, "idle") /\ ~vmq.lock /\ vmq.sent < VqSends
  /\ vmq' = Go([vmq EXCEPT !.queue[0] = Append(@, Static(c)), !.waiter[Static(c)] = Waiter("simple", c),
                           !.sent = @ + 1], c, "post, wait")

SendPosts(c) ==
  /\ vmq.at[c] \in {"post", "post, queue", "post, wait"}
  /\ vmq' = Go([vmq EXCEPT !.sem[0] = @ + 1], c,
               CASE Is(c, "post") -> "idle" [] Is(c, "post, queue") -> "wait"
                 [] Is(c, "post, wait") -> "simple")

\* The waiter is on the stack, so the message no longer has one when the call ends.
SendwaitEnds(c) ==
  /\ Is(c, "simple") /\ vmq.waitsem[c] > 0
  /\ vmq' = Go([vmq EXCEPT !.waitsem[c] = @ - 1, !.waiter[Static(c)] = NoWaiter], c, "idle")

-----------------------------------------------------------------------------
(* Taking messages *)

\* vcos_msg_wait: the semaphore, ...
WaitTakes(t) ==
  /\ \/ t = 0 /\ Is(t, "idle")
     \/ t # 0 /\ Is(t, "wait")
  /\ vmq.sem[t] > 0
  /\ vmq' = Go([vmq EXCEPT !.sem[t] = @ - 1], t, "woken")

\* ... then the head of the list, which must be there.
vcos_msg_wait(t) ==
  /\ Is(t, "woken") /\ vmq.queue[t] # <<>>
  /\ vmq' = Go([vmq EXCEPT !.msg[t] = Head(vmq.queue[t]), !.queue[t] = Tail(@)], t, "has")

\* Mutant: the semaphore keeps its count.
PeekLeavesCount ==
  /\ Is(0, "idle") /\ vmq.queue[0] # <<>>
  /\ vmq' = Go([vmq EXCEPT !.msg[0] = Head(vmq.queue[0]), !.queue[0] = Tail(@)], 0, "has")

\* vcos_msg_peek: the head, and then the semaphore, waiting with the lock held ...
vcos_msg_peek ==
  /\ Is(0, "idle") /\ vmq.queue[0] # <<>>
  /\ vmq' = Go([vmq EXCEPT !.lock = TRUE, !.msg[0] = Head(vmq.queue[0]), !.queue[0] = Tail(@)],
               0, "peeked")

\* ... for a sender between its append and its post.
PeekWaits ==
  /\ Is(0, "peeked") /\ vmq.sem[0] > 0
  /\ vmq' = Go([vmq EXCEPT !.lock = FALSE, !.sem[0] = @ - 1], 0, "has")

-----------------------------------------------------------------------------
(* vcos_msg_reply *)

vcos_msgq_queue_waiter_on_reply(c) == Go([msgq_append(vmq, c, 0) EXCEPT !.to = c], 0, "reply")

ReplyPosts ==
  /\ Is(0, "reply")
  /\ vmq' = Go([vmq EXCEPT !.sem[vmq.to] = @ + 1, !.to = 0], 0, "idle")

vcos_msgq_simple_waiter_on_reply(c) ==
  Go([vmq EXCEPT !.waitsem[c] = @ + 1, !.msg[0] = <<>>], 0, "idle")

vcos_msg_reply ==
  /\ Is(0, "has")
  /\ LET waiter == vmq.waiter[vmq.msg[0]]
     IN \/ waiter.on_reply = "pool" /\ vmq' = PoolFrees(0)
        \/ waiter.on_reply = "queue" /\ vmq' = vcos_msgq_queue_waiter_on_reply(waiter.of)
        \/ waiter.on_reply = "simple" /\ vmq' = vcos_msgq_simple_waiter_on_reply(waiter.of)

VmqNext ==
  \/ vcos_msg_peek \/ PeekWaits \/ vcos_msg_reply \/ ReplyPosts
  \/ \E t \in Threads : WaitTakes(t) \/ vcos_msg_wait(t) \/ PoolPosts(t)
  \/ \E c \in VqClients :
       \/ PoolTakes(c) \/ PoolAllocs(c) \/ vcos_msgq_pool_free(c)
       \/ vcos_msg_set_source(c) \/ vcos_msg_send(c) \/ vcos_msg_sendwait(c)
       \/ SendPosts(c) \/ SendwaitEnds(c)

-----------------------------------------------------------------------------
(* What holds of messages and queues *)

Used == {<<1, k>> : k \in vmq.pool[1].owner}

\* What the assertions say: who has a unit of a semaphore finds a message or a block.
VmqFinds ==
  /\ \A t \in Threads : Is(t, "woken") => vmq.queue[t] # <<>>
  /\ Cardinality({c \in VqClients : Is(c, "pool")}) <= VqMessages - Cardinality(Used)
  /\ Is(0, "has") => vmq.waiter[vmq.msg[0]] # NoWaiter

\* A message is in one place: a queue, or with one thread; those of the pool if not free.
VmqOnePlace ==
  LET held == {t \in Threads : vmq.msg[t] # <<>>}
      queued == UNION {Range(vmq.queue[t]) : t \in Threads}
  IN /\ \A t \in held : vmq.msg[t] \notin queued /\ \A r \in held \ {t} : vmq.msg[t] # vmq.msg[r]
     /\ \A t, r \in Threads : t # r => Range(vmq.queue[t]) \cap Range(vmq.queue[r]) = {}
     /\ \A t \in Threads : IsInjective(vmq.queue[t])
     /\ {m \in queued \cup {vmq.msg[t] : t \in held} : m[1] = 1} = Used

\* A message that is lost or a count that is missing leaves somebody waiting: where all wait there
\* is nothing left to do, and nobody waits for a reply.
VmqNobodyStranded ==
  (\A t \in Threads : vmq.at[t] \in {"idle", "wait", "simple"}) /\ vmq.sem[0] = 0 =>
    /\ vmq.queue[0] = <<>> /\ vmq.psem = VqMessages - Cardinality(Used)
    /\ \A c \in VqClients :
         /\ Is(c, "simple") => vmq.waitsem[c] > 0
         /\ Is(c, "wait") => vmq.sem[c] > 0 /\ vmq.queue[c] # <<>>
=============================================================================
