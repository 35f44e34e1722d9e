------------------------------ MODULE PortAlloc ------------------------------
(***************************************************************************)
(* RootData of src/utils/portalloc/src/data/dto.rs: the port range         *)
(* allocator's reservations.                                                *)
(*                                                                         *)
(* One caller at a time runs get_free_port_range (the file holding         *)
(* RootData is locked by its caller).  The 'retry loop and the bind loop   *)
(* are steps of their own, so that time can pass between them.  Ports are  *)
(* u16 in the code; here they have Width bits, with LOW and HIGH scaled    *)
(* down in proportion.  A bind fails when another process holds the port;  *)
(* such failures are bounded by MaxBindFails.                              *)
(***************************************************************************)
EXTENDS Naturals, FiniteSets, TLC

CONSTANTS
    LOW,            \* the lowest port to try (10000)
    HIGH,           \* the highest base port to try (32000)
    Width,          \* bits of a port (16)
    TTL,            \* ALLOCATION_TIME_SECS (120)
    Sizes,          \* range sizes callers ask for
    MaxTime,        \* how far the clock is explored
    MaxBindFails    \* how many binds may fail

MaxPort == 2^Width - 1

ASSUME /\ 0 < LOW /\ LOW <= HIGH /\ HIGH <= MaxPort
       /\ Sizes \subseteq Nat /\ TTL \in Nat \ {0}

VARIABLES
    next,       \* RootData.next
    keys,       \* RootData.keys: [start -> [size, expires]]
    now,        \* the Unix time now_ts() returns
    pc,         \* "idle", "retry" (head of 'retry) or "bind" (the for loop)
    size,       \* the range_size of the call in progress
    base,       \* base_port
    port,       \* the port the bind loop is at
    fails,      \* binds failed so far
    live,       \* history: ranges returned and not yet expired, [n, start, size, expires]
    grants      \* history: how many ranges have been returned

vars == <<next, keys, now, pc, size, base, port, fails, live, grants>>

-----------------------------------------------------------------------------

\* RootData::default
EmptyKeys == [p \in {} |-> [size |-> 0, expires |-> 0]]

\* reclaim: keep the ranges with now < expires.
Reclaim(ks) == [k \in {k2 \in DOMAIN ks : now < ks[k2].expires} |-> ks[k]]

\* Mutant: the lowest reserved range below the end is checked, not the last.
ContainsFirst(ks, start, end) ==
    LET below == {k \in DOMAIN ks : k < end} IN
    IF below = {} THEN 0
    ELSE LET k == CHOOSE k \in below : \A k2 \in below : k <= k2
             e == k + ks[k].size
         IN IF k < end /\ start < e THEN e ELSE 0

\* Mutant: keys.range(..=range.end), the key at end included.
ContainsInclusive(ks, start, end) ==
    LET below == {k \in DOMAIN ks : k <= end} IN
    IF below = {} THEN 0
    ELSE LET k == CHOOSE k \in below : \A k2 \in below : k2 <= k
             e == k + ks[k].size
         IN IF k < end /\ start < e THEN e ELSE 0

\* contains(start..end): the last reserved range starting below end, and its
\* end when it overlaps.  0 is None (no range ends at port 0).
Contains(ks, start, end) ==
    LET below == {k \in DOMAIN ks : k < end} IN
    IF below = {} THEN 0
    ELSE LET k == CHOOSE k \in below : \A k2 \in below : k2 <= k
             e == k + ks[k].size
         IN IF k < end /\ start < e THEN e ELSE 0

\* insert: the BTreeMap entry at the range's start, and next moves past it.
Insert(ks, start, sz) ==
    (start :> [size |-> sz, expires |-> now + TTL]) @@ ks

\* get_free_port_range(range_size): reclaim, then start at next.
GetFreePortRange(sz) ==
    /\ pc = "idle"
    /\ pc' = "retry"
    /\ size' = sz
    /\ base' = next
    /\ keys' = Reclaim(keys)
    /\ UNCHANGED <<next, now, port, fails, live, grants>>

\* Mutant: base_port is never wrapped back to LOW.
RetryNoWrap ==
    /\ pc = "retry"
    /\ LET e == Contains(keys, base, base + size) IN
       IF e # 0
       THEN /\ base' = e
            /\ UNCHANGED <<pc, port>>
       ELSE /\ pc' = "bind"
            /\ port' = base
            /\ UNCHANGED base
    /\ UNCHANGED <<next, keys, now, size, fails, live, grants>>

\* One turn of 'retry: past HIGH, reclaim and wrap to LOW; a reserved range
\* in the way moves base_port past it; otherwise start binding.
Retry ==
    /\ pc = "retry"
    /\ LET wrap == base > HIGH
           b == IF wrap THEN LOW ELSE base
           ks == IF wrap THEN Reclaim(keys) ELSE keys
           e == Contains(ks, b, b + size)
       IN /\ keys' = ks
          /\ IF e # 0
             THEN /\ base' = e
                  /\ UNCHANGED <<pc, port>>
             ELSE /\ pc' = "bind"
                  /\ base' = b
                  /\ port' = b
    /\ UNCHANGED <<next, now, size, fails, live, grants>>

\* One port of the for loop: bind TCP and UDP on it.  A failure retries from
\* the next port.
Bind ==
    /\ pc = "bind"
    /\ port < base + size
    /\ \/ port' = port + 1
          /\ UNCHANGED <<pc, base, fails>>
       \/ /\ fails < MaxBindFails
          /\ fails' = fails + 1
          /\ base' = port + 1
          /\ pc' = "retry"
          /\ UNCHANGED port
    /\ UNCHANGED <<next, keys, now, size, live, grants>>

\* Every port bound: insert the range, set next, return base_port.
Allocate ==
    /\ pc = "bind"
    /\ port = base + size
    /\ keys' = Insert(keys, base, size)
    /\ next' = base + size
    /\ pc' = "idle"
    /\ grants' = grants + 1
    /\ live' = live \cup {[n |-> grants', start |-> base, size |-> size,
                            expires |-> now + TTL]}
    /\ UNCHANGED <<now, size, base, port, fails>>

\* A second passes; the history forgets what expired.
Tick ==
    /\ now < MaxTime
    /\ now' = now + 1
    /\ live' = {r \in live : now' < r.expires}
    /\ UNCHANGED <<next, keys, pc, size, base, port, fails, grants>>

-----------------------------------------------------------------------------

Init ==
    /\ next = LOW
    /\ keys = EmptyKeys
    /\ now = 0
    /\ pc = "idle"
    /\ size = 0
    /\ base = LOW
    /\ port = LOW
    /\ fails = 0
    /\ live = {}
    /\ grants = 0

Next ==
    \/ \E sz \in Sizes : GetFreePortRange(sz)
    \/ Retry
    \/ Bind
    \/ Allocate
    \/ Tick

Spec == Init /\ [][Next]_vars

-----------------------------------------------------------------------------
(* Properties                                                              *)

Ports == 0..MaxPort

\* Every port the allocator computes fits in a u16 (Width bits): the wrap at
\* HIGH keeps base_port, next and every range end in range.
TypeOK ==
    /\ next \in Ports /\ base \in Ports /\ port \in Ports
    /\ DOMAIN keys \subseteq Ports
    /\ \A k \in DOMAIN keys : keys[k].size \in Sizes /\ k + keys[k].size \in Ports
    /\ pc \in {"idle", "retry", "bind"}
    /\ now \in 0..MaxTime /\ fails \in 0..MaxBindFails

\* Two ranges get_free_port_range returned, both still within their
\* ALLOCATION_TIME_SECS lease, never share a port: reclaim, the wrap to LOW
\* and contains together never hand out a port a caller still holds, not
\* even the same range twice within one second (each grant is numbered).
NoDoubleAllocation ==
    \A r1, r2 \in live :
        r1 # r2 => (r1.start + r1.size <= r2.start \/ r2.start + r2.size <= r1.start)

\* The reference: some reservation shares a port with start..end.
Overlaps(ks, start, end) ==
    \E k \in DOMAIN ks : k < end /\ start < k + ks[k].size

\* contains looks only at the last reservation starting below the range's
\* end (next_back), yet in every reachable map it finds a conflict exactly
\* when some reservation overlaps the range, as root_data_sanity checks for
\* one map.
ContainsAgreesWithOverlap ==
    \A b \in LOW..HIGH, sz \in Sizes \ {0} :
        (Contains(keys, b, b + sz) # 0) <=> Overlaps(keys, b, b + sz)

====
