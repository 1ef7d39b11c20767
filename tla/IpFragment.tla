------------------------------ MODULE IpFragment ------------------------------
(***************************************************************************)
(* Reassembly of IP datagrams: ip_rx and the fragment list of ip.c.        *)
(*                                                                         *)
(* A datagram g is Size[g] units of 8 bytes, and <<g, u>> stands for the   *)
(* contents of its unit u.  Routers may cut a datagram in any way, and the *)
(* network may lose, duplicate and reorder the pieces: any piece of any    *)
(* datagram may arrive at any time, on any device.  ip_rx drops what fails *)
(* its header checks without a change of state, so every piece here is one *)
(* that passes them.                                                       *)
(* Masks count in the same units as data, so WORD is 4: 32 bytes.          *)
(* ip_fragment_process runs under its mutex and is one step; the protocol  *)
(* handler and the free that follow it in ip_rx are another.               *)
(***************************************************************************)
EXTENDS Util, Sequences

CONSTANTS
    IP_FRAGMENT_TIMEOUT_SEC,
    IP_FRAGMENT_NUM_MAX,
    MASK_WORDS,             \* number of elements of mask (2048)
    MaxTime,                \* bound: the clock stops here
    MaxUnits,               \* bound: units of the largest datagram
    Dev,                    \* devices, one receive thread each
    Datagram, Zero,         \* datagrams sent to us; a unit never written
    Id,                     \* values of (src, dst, id, protocol)
    Key, Size               \* of each datagram

Unit == 0 .. MaxUnits - 1

ASSUME BoundAssumption ==
    /\ IP_FRAGMENT_TIMEOUT_SEC \in Nat
    /\ IP_FRAGMENT_NUM_MAX \in Nat
    /\ MASK_WORDS \in Nat
    /\ MaxTime \in Nat
    /\ MaxUnits \in Nat

(* A sender does not reuse an id while pieces of the first use may arrive. *)
ASSUME DatagramAssumption ==
    /\ Zero \notin Datagram
    /\ Key \in [Datagram -> Id]
    /\ Size \in [Datagram -> 1 .. MaxUnits]
    /\ \A g, h \in Datagram : Key[g] = Key[h] => g = h

VARIABLES
    now,        \* time(NULL)
    fragments,  \* the list of partial datagrams, newest first
    count,      \* ip_fragment_process's static count
    heap,       \* "intact", or "overrun" by maskclr
    status,     \* "run"; "aborted" by malloc or free; "corrupt": freed
                \* memory was used as a list node
    rx,         \* each receive thread: what it is about to hand over
    delivered   \* history: what the protocol handlers were given

vars == <<now, fragments, count, heap, status, rx, delivered>>

Data == [Unit -> (Datagram \X Unit) \cup {Zero}]

(* struct ip_fragment *)
Fragment == [key : Id, len : 0 .. MaxUnits, data : Data, mask : SUBSET Unit,
             timestamp : Nat]

Blank == [u \in Unit |-> Zero]

(* A payload: len units of data.                                           *)
Payload == [key : Id, len : 0 .. MaxUnits, data : Data]

(* "direct": the datagram was not fragmented; "owner": a reassembled one,  *)
(* which the thread frees after the handler.                               *)
RxState == [pc : {"idle"}] \cup [pc : {"direct", "owner"}, pay : Payload]

Idle == [pc |-> "idle"]

(* The payload of the piece of datagram g that has n units from off on.    *)
Piece(g, off, n) ==
    [key |-> Key[g], len |-> n,
     data |-> [u \in Unit |-> IF u < n THEN <<g, off + u>> ELSE Zero]]

Whole(g) == Piece(g, 0, Size[g])

-----------------------------------------------------------------------------
(* Mutant: the list is searched by less than the whole key.                *)
Matches_Any(f, key) == TRUE

(* ip_fragment_search compares src, dst, id and protocol.                  *)
Matches(f, key) == f.key = key

(* Mutant: the search starts behind the head of the list.                  *)
NotListed_SkipsHead(s, key) == \A i \in DOMAIN s \ {1} : ~Matches(s[i], key)

NotListed(s, key) == \A i \in DOMAIN s : ~Matches(s[i], key)

FirstListed(s, key, i) ==
    Matches(s[i], key) /\ \A j \in 1 .. i - 1 : ~Matches(s[j], key)

(* ip_fragment_alloc: the object, before it is put in front of the list.   *)
NewFragment(key) ==
    [key |-> key, len |-> 0, data |-> Blank, mask |-> {}, timestamp |-> now]

(* maskclr(mask, sizeof(mask)) clears as many elements as mask has bytes.  *)
MaskclrElements == 4 * MASK_WORDS

HeapAfterAlloc == IF MaskclrElements > MASK_WORDS THEN "overrun" ELSE heap

(* Mutant: the head is unlinked, whatever object was completed.            *)
ip_fragment_detach_Head(s, i) == [j \in 1 .. Len(s) - 1 |-> s[j + 1]]

(* The list without its i-th element.                                      *)
ip_fragment_detach(s, i) ==
    [j \in 1 .. Len(s) - 1 |-> IF j < i THEN s[j] ELSE s[j + 1]]

Expired(f) == now - f.timestamp > IP_FRAGMENT_TIMEOUT_SEC

(* ip_fragment_patrol unlinks an expired object but frees its successor,   *)
(* and goes on reading there.  It is harmless only if nothing is expired,  *)
(* or only the last object is: then it frees NULL.                         *)
PatrolHarmless(s) == \A i \in 1 .. Len(s) - 1 : ~Expired(s[i])

(* Mutant: the patrol is skipped.                                          *)
ip_fragment_patrol_Never(s) == s

ip_fragment_patrol(s) ==
    IF Len(s) > 0 /\ Expired(s[Len(s)])
    THEN [j \in 1 .. Len(s) - 1 |-> s[j]]
    ELSE s

(* The object after units off .. off+n-1 of datagram g are copied to it.   *)
Stored(f, g, off, n) ==
    [key |-> f.key,
     len |-> IF off + n = Size[g] THEN off + n ELSE f.len,
     data |-> [u \in Unit |-> IF u \in off .. off + n - 1 THEN <<g, u>>
                              ELSE f.data[u]],
     mask |-> maskset(f.mask, off, n),
     timestamp |-> now]

(* Mutants: maskchk's result is not looked at, and maskchk is told one     *)
(* unit too many.                                                          *)
Complete_LenOnly(f) == f.len # 0

Complete_Long(f) == f.len # 0 /\ maskchk(f.mask, 0, f.len + 1)

Complete(f) == f.len # 0 /\ maskchk(f.mask, 0, f.len)

(* Mutant: the count is given back twice.                                  *)
CountAfter_Twice(n) == n - 2

(* count after a datagram is completed.                                    *)
CountAfter(n) == n - 1

(* Mutant: the limit is off by one.                                        *)
HasRoom_OffByOne == count <= IP_FRAGMENT_NUM_MAX

HasRoom == count < IP_FRAGMENT_NUM_MAX

-----------------------------------------------------------------------------
Init ==
    /\ now = 0
    /\ fragments = <<>>
    /\ count = 0
    /\ heap = "intact"
    /\ status = "run"
    /\ rx = [d \in Dev |-> Idle]
    /\ delivered = {}

(* offset & 0x2000 || offset & 0x1ffff: more fragments, an offset, or any  *)
(* flag, don't-fragment included.                                          *)
ToReassemble(g, off, n, df) == off # 0 \/ off + n # Size[g] \/ df

(* ip_rx of a datagram that needs no reassembly.                           *)
RxDirect(d, g, off, n, df) ==
    /\ ~ToReassemble(g, off, n, df)
    /\ rx' = [rx EXCEPT ![d] = [pc |-> "direct", pay |-> Piece(g, off, n)]]
    /\ UNCHANGED <<now, fragments, count, heap, status, delivered>>

(* The patrol of ip_fragment_process unlinks the first expired object,     *)
(* frees the one behind it, live or not, and walks on into that memory:    *)
(* from there on the list is lost.  The model stops here.                  *)
RxCorrupt(d, g, off, n, df) ==
    /\ ToReassemble(g, off, n, df)
    /\ \E i \in 1 .. Len(fragments) - 1 :
         /\ Expired(fragments[i])
         /\ \A j \in 1 .. i - 1 : ~Expired(fragments[j])
         /\ fragments' = [j \in 1 .. i - 1 |-> fragments[j]]
    /\ status' = "corrupt"
    /\ UNCHANGED <<now, count, heap, rx, delivered>>

(* No object for this datagram, and count is at its limit or malloc fails. *)
RxRefused(d, g, off, n, df) ==
    /\ ToReassemble(g, off, n, df)
    /\ PatrolHarmless(fragments)
    /\ NotListed(ip_fragment_patrol(fragments), Key[g])
    /\ fragments' = ip_fragment_patrol(fragments)
    /\ UNCHANGED <<now, count, heap, status, rx, delivered>>

(* malloc meets the heap that an earlier maskclr overran.                  *)
RxAborts(d, g, off, n, df) ==
    /\ ToReassemble(g, off, n, df)
    /\ PatrolHarmless(fragments)
    /\ NotListed(ip_fragment_patrol(fragments), Key[g])
    /\ HasRoom
    /\ heap = "overrun"
    /\ status' = "aborted"
    /\ fragments' = ip_fragment_patrol(fragments)
    /\ UNCHANGED <<now, count, heap, rx, delivered>>

(* The piece goes into object i of list s, of which cnt are counted; when  *)
(* that completes the datagram the thread takes the object off the list.   *)
StoreIn(d, s, i, cnt, g, off, n) ==
    LET f == Stored(s[i], g, off, n)
    IN  \/ /\ ~Complete(f)
           /\ fragments' = [s EXCEPT ![i] = f]
           /\ count' = cnt
           /\ UNCHANGED rx
        \/ /\ Complete(f)
           /\ fragments' = ip_fragment_detach(s, i)
           /\ count' = CountAfter(cnt)
           /\ rx' = [rx EXCEPT ![d] =
                [pc |-> "owner",
                 pay |-> [key |-> f.key, len |-> f.len, data |-> f.data]]]

(* A piece of a datagram that has an object ...                            *)
RxKnown(d, g, off, n, df) ==
    /\ ToReassemble(g, off, n, df)
    /\ PatrolHarmless(fragments)
    /\ LET s == ip_fragment_patrol(fragments)
       IN  \E i \in DOMAIN s :
             FirstListed(s, Key[g], i) /\ StoreIn(d, s, i, count, g, off, n)
    /\ UNCHANGED <<now, heap, status, delivered>>

(* ... and of one that has none, for which there is room.                  *)
RxNew(d, g, off, n, df) ==
    /\ ToReassemble(g, off, n, df)
    /\ PatrolHarmless(fragments)
    /\ LET s == ip_fragment_patrol(fragments)
       IN  /\ NotListed(s, Key[g])
           /\ StoreIn(d, <<NewFragment(Key[g])>> \o s, 1, count + 1, g, off, n)
    /\ HasRoom
    /\ heap' = HeapAfterAlloc
    /\ UNCHANGED <<now, status, delivered>>

ip_rx(d, g, off, n, df) ==
    /\ status = "run"
    /\ rx[d] = Idle
    /\ \/ RxDirect(d, g, off, n, df)
       \/ RxCorrupt(d, g, off, n, df)
       \/ RxRefused(d, g, off, n, df)
       \/ RxAborts(d, g, off, n, df)
       \/ RxKnown(d, g, off, n, df)
       \/ RxNew(d, g, off, n, df)

(* A piece of a datagram arrives; only a whole one may be marked DF.       *)
Arrives(d) ==
    \E g \in Datagram : \E off \in Unit, n \in 1 .. MaxUnits, df \in BOOLEAN :
        /\ off + n <= Size[g]
        /\ df => off = 0 /\ n = Size[g]
        /\ ip_rx(d, g, off, n, df)

(* The end of ip_rx: the protocol's handler, then ip_fragment_free of an   *)
(* object that was reassembled, which aborts when it notices the overrun.  *)
Deliver(d) ==
    /\ status = "run"
    /\ rx[d].pc \in {"direct", "owner"}
    /\ delivered' = delivered \cup {rx[d].pay}
    /\ status' \in IF rx[d].pc = "owner" /\ heap = "overrun"
                   THEN {"run", "aborted"} ELSE {"run"}
    /\ rx' = [rx EXCEPT ![d] = Idle]
    /\ UNCHANGED <<now, fragments, count, heap>>

Tick ==
    /\ status = "run"
    /\ now < MaxTime
    /\ now' = now + 1
    /\ UNCHANGED <<fragments, count, heap, status, rx, delivered>>

Next == Tick \/ \E d \in Dev : Arrives(d) \/ Deliver(d)

Spec == Init /\ [][Next]_vars

-----------------------------------------------------------------------------
(* Properties.                                                             *)

(* Every variable keeps its type: the list objects, ip_rx's threads and    *)
(* what the handlers got.                                                  *)
TypeOK ==
    /\ now \in Nat
    /\ fragments \in Seq(Fragment)
    /\ count \in Nat
    /\ heap \in {"intact", "overrun"}
    /\ status \in {"run", "aborted", "corrupt"}
    /\ rx \in [Dev -> RxState]
    /\ delivered \subseteq Payload

(* Whatever pieces arrived, in whatever order, cut, overlap and timing, on *)
(* whatever threads: a handler is only ever given a datagram as it was     *)
(* sent, with its length, and no unit that did not arrive.                 *)
DeliveredIntact == \A m \in delivered : \E g \in Datagram : m = Whole(g)

(* The list has one object per datagram, so ip_fragment_search's first hit *)
(* is the object all the pieces go to.                                     *)
KeysUnique ==
    \A i, j \in DOMAIN fragments :
        fragments[i].key = fragments[j].key => i = j

(* count is an upper bound of the list's length, and below the limit: the  *)
(* size_t never wraps below zero when ip_fragment_process decrements it.   *)
CountBoundsList ==
    Len(fragments) <= count /\ count <= IP_FRAGMENT_NUM_MAX

(* A datagram does not stay in the list once all of it has arrived, even   *)
(* if its last piece arrived first.                                        *)
NoneCompleteListed ==
    \A i \in DOMAIN fragments :
        fragments[i].len # 0 =>
            \E u \in 0 .. fragments[i].len - 1 : u \notin fragments[i].mask

(* Every object of the list only holds units of the datagram its key       *)
(* belongs to, in their places, and marks exactly those.                   *)
ListedPartsOwn ==
    \A i \in DOMAIN fragments : \E g \in Datagram :
        LET f == fragments[i]
        IN  /\ f.key = Key[g]
            /\ f.len \in {0, Size[g]}
            /\ \A u \in Unit : f.data[u] = IF u \in f.mask THEN <<g, u>> ELSE Zero
            /\ f.mask \subseteq 0 .. Size[g] - 1
            /\ f.mask # {}

NoneExpiredStep ==
    fragments' # fragments =>
        \A i \in DOMAIN fragments' :
            now - fragments'[i].timestamp <= IP_FRAGMENT_TIMEOUT_SEC

(* After an ip_fragment_process that changed the list nothing expired is   *)
(* left in it.                                                             *)
NoneExpiredAfterReceive == [][NoneExpiredStep]_vars

PartsKeptStep ==
    \A i \in DOMAIN fragments :
        LET f == fragments[i]
        IN  \/ \E j \in 1 .. i : Expired(fragments[j])
            \/ \E j \in DOMAIN fragments' :
                 /\ fragments'[j].key = f.key
                 /\ f.mask \subseteq fragments'[j].mask
                 /\ f.len # 0 => fragments'[j].len = f.len
            \/ \E d \in Dev :
                 /\ rx[d] = Idle
                 /\ rx'[d].pc = "owner" /\ rx'[d].pay.key = f.key

(* What has arrived of a datagram is lost only to an expiry: its object    *)
(* leaves the list when a thread goes on with the whole datagram, when it  *)
(* has expired, or when one in front of it has, as ip_fragment_patrol then *)
(* frees the wrong object (ip.c:165).  No other datagram's piece or detach *)
(* takes units from it or forgets its length.                              *)
PartsKept == [][PartsKeptStep]_vars

(* "too many fragments" (ip.c:193): a new datagram is refused only when    *)
(* IP_FRAGMENT_NUM_MAX of them are being reassembled.                      *)
RefusedOnlyWhenFull ==
    status # "corrupt" /\ count >= IP_FRAGMENT_NUM_MAX
        => Len(fragments) >= IP_FRAGMENT_NUM_MAX

(* "check fragment timeout" (ip.c:184): the patrol gives back objects that *)
(* timed out, not the live ones behind them in the list.                   *)
PatrolFreesExpiredOnly == status # "corrupt"

=============================================================================
