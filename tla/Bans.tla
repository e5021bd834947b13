--------------------------------- MODULE Bans ---------------------------------
(***************************************************************************)
(* Bans of addresses and of ranges of addresses: CNetBan                   *)
(* (engine/shared/netban.h, netban.cpp), CServerBan which protects         *)
(* moderators and drops the banned (engine/server/server.cpp), and the     *)
(* list that bans_save writes and exec reads.                              *)
(*                                                                         *)
(* A ban is on a list in order of its expiry, which Update and the indexes *)
(* of unban use, and on a hash list, by which it is found.  The hash list  *)
(* of a range is that of the bytes its bounds share; an address is looked  *)
(* up under each of its prefixes.                                          *)
(*                                                                         *)
(* Abstractions.  The list by expiry is a sequence; a hash list is a set,  *)
(* as nothing depends on the order in it but the reason that is shown.  An *)
(* address is a few bytes, all addresses have one type.  Reasons are left  *)
(* out.                                                                    *)
(***************************************************************************)
EXTENDS Integers, Sequences, SequencesExt

CONSTANTS
  Bytes,      \* values of a byte
  AddrLength, \* bytes of an address
  HashSize,   \* a hash is the sum of bytes modulo this
  Targets,    \* what is banned, some of all addresses and ranges
  Localhost,  \* the address that is not banned
  MaxBans,    \* MAX_BANS of each pool
  BanSlots,   \* client slots
  Minute,     \* seconds of a minute
  MaxNow      \* bound: the time

Addr == [1 .. AddrLength -> Bytes]

ASSUME BansAssumption ==
  /\ Targets \subseteq [lb : Addr, ub : Addr]
  /\ Bytes \subseteq Nat /\ AddrLength \in Nat \ {0} /\ HashSize \in Nat \ {0}
  /\ MaxBans \in Nat \ {0} /\ Minute \in Nat \ {0} /\ MaxNow \in Nat

VARIABLES
  banNow,     \* time_timestamp()
  addrs,   \* m_BanAddrPool
  ranges,  \* m_BanRangePool
  client   \* address and m_Authed of the client in each slot

banVars == <<banNow, addrs, ranges, client>>

Never == -1
NoClient == [addr |-> <<>>, authed |-> 0]

\* An address is banned as the range of itself alone.
Single(a) == [lb |-> a, ub |-> a]
Ban == [data : Targets, expires : {Never} \union Nat]

\* used: m_pFirstUsed and on; hashed: m_aapHashList
Hashes == (0 .. AddrLength - 1) \X (0 .. HashSize - 1)
EmptyPool == [used |-> <<>>, hashed |-> [h \in Hashes |-> {}]]

BansTypeOK ==
  /\ banNow \in 0 .. MaxNow
  /\ \A pool \in {addrs, ranges} :
        pool.used \in Seq(Ban) /\ pool.hashed \in [Hashes -> SUBSET Targets]
  /\ \A s \in BanSlots : client[s] = NoClient \/ client[s] \in [addr : Addr, authed : 0 .. 2]

BansInit ==
  /\ banNow = 0 /\ addrs = EmptyPool /\ ranges = EmptyPool
  /\ client = [s \in BanSlots |-> NoClient]

-----------------------------------------------------------------------------
(* Comparing and hashing addresses.                                         *)

\* mem_comp(a, b) <= 0 from the byte after start on.
Upto(a, b, start) ==
  \/ \A k \in start + 1 .. AddrLength : a[k] = b[k]
  \/ \E k \in start + 1 .. AddrLength :
        a[k] < b[k] /\ \A j \in start + 1 .. k - 1 : a[j] = b[j]

IsValid(r) == r.lb # r.ub /\ Upto(r.lb, r.ub, 0)

\* NetMatch with Start: the first bytes are compared with the lower bound, the
\* rest with both.
NetMatch(d, a, start) ==
  /\ \A j \in 1 .. start : d.lb[j] = a[j]
  /\ Upto(d.lb, a, start) /\ Upto(a, d.ub, start)

\* Of the first k bytes of an address.
HashOf(a, k) ==
  LET sum[n \in 0 .. AddrLength] == IF n = 0 THEN 0 ELSE sum[n - 1] + a[n]
  IN  sum[k] % HashSize

\* CNetHash of a range: of the bytes that its bounds share.  They differ.
Shared(d) ==
  CHOOSE k \in 0 .. AddrLength - 1 : /\ d.lb[k + 1] # d.ub[k + 1]
                                     /\ \A j \in 1 .. k : d.lb[j] = d.ub[j]
NetHash(d) ==
  IF d.lb = d.ub THEN <<0, HashOf(d.lb, AddrLength)>>
                 ELSE <<Shared(d), HashOf(d.lb, Shared(d))>>

\* Mutant of MakeHashArray: the address itself counts as a prefix of all its bytes.
WholePrefix(a) == [i \in 0 .. AddrLength |-> <<i, HashOf(a, i)>>]

\* The hash list of each prefix of an address; the last is that of the address.
MakeHashArray(a) ==
  [i \in 0 .. AddrLength |-> <<i % AddrLength, HashOf(a, i)>>]

-----------------------------------------------------------------------------
(* CBanPool.                                                                *)

\* Mutant of Before: bans are put behind those that last longer.
BeforeNone(b, p) == FALSE

Before(b, p) == p.expires = Never \/ (b.expires # Never /\ b.expires <= p.expires)

\* In order of expiry.
Insert(used, b) ==
  LET at == {i \in DOMAIN used : Before(b, used[i])}
      i == IF at = {} THEN Len(used) + 1 ELSE CHOOSE k \in at : \A j \in at : k <= j
  IN  InsertAt(used, i, b)

Find(pool, d) == d \in pool.hashed[NetHash(d)]

AddBan(pool, b) ==
  [used |-> Insert(pool.used, b),
   hashed |-> [pool.hashed EXCEPT ![NetHash(b.data)] = @ \union {b.data}]]

Place(used, d) == CHOOSE i \in DOMAIN used : used[i].data = d
Without(used, d) == RemoveAt(used, Place(used, d))

RemoveBan(pool, d) ==
  [used |-> Without(pool.used, d),
   hashed |-> [pool.hashed EXCEPT ![NetHash(d)] = @ \ {d}]]

UpdateBan(pool, b) == [pool EXCEPT !.used = Insert(Without(@, b.data), b)]

\* CNetBan::Ban: 0 if a ban was added, 1 if it was adjusted, -1 if neither.
BanResult(pool, d) ==
  IF NetMatch(d, Localhost, 0) THEN -1
  ELSE IF Find(pool, d) THEN 1
  ELSE IF Len(pool.used) = MaxBans THEN -1 ELSE 0

Banning(pool, d, seconds) ==
  LET b == [data |-> d, expires |-> IF seconds > 0 THEN banNow + seconds ELSE Never]
      result == BanResult(pool, d)
  IN  CASE result = -1 -> pool [] result = 1 -> UpdateBan(pool, b) [] OTHER -> AddBan(pool, b)

\* The address pool first, then the ranges from the longest prefix on.
IsBanned(a) ==
  LET hash == MakeHashArray(a)
  IN  \/ hash[AddrLength] \in DOMAIN addrs.hashed
         /\ Single(a) \in addrs.hashed[hash[AddrLength]]
      \/ \E i \in 0 .. AddrLength - 1 : \E d \in ranges.hashed[hash[i]] : NetMatch(d, a, i)

-----------------------------------------------------------------------------
(* CServerBan.                                                              *)

Present(s) == client[s] # NoClient

\* Who gives the command may ban neither themselves nor those with as much
\* authority; a vote may not ban those with any.
Denied(d, who) ==
  \/ /\ who \in BanSlots
     /\ \/ NetMatch(d, client[who].addr, 0)
        \/ \E s \in BanSlots \ {who} : /\ Present(s)
                                      /\ client[s].authed >= client[who].authed
                                      /\ NetMatch(d, client[s].addr, 0)
  \/ /\ who = "vote"
     /\ \E s \in BanSlots : /\ Present(s) /\ client[s].authed # 0
                            /\ NetMatch(d, client[s].addr, 0)

\* Mutant of Dropped: only who has the first address of the range.
DroppedFirst(d) == {s \in BanSlots : Present(s) /\ client[s].addr = d.lb}

Dropped(d) == {s \in BanSlots : Present(s) /\ NetMatch(d, client[s].addr, 0)}

\* BanExt: a new ban drops whom it hits; an adjusted one drops nobody.
DropBanned(pool, d) ==
  client' = [s \in BanSlots |->
               IF BanResult(pool, d) = 0 /\ s \in Dropped(d) THEN NoClient ELSE client[s]]

\* Commands come from a client with authority, from a vote, or from the server.
Commanders == {s \in BanSlots : client[s].authed > 0} \union {"vote", "server"}

\* ban, ban_range
BanCommand(d, minutes) ==
  /\ ~ \A who \in Commanders : Denied(d, who)
  /\ IF d.lb = d.ub
       THEN addrs' = Banning(addrs, d, minutes * Minute) /\ DropBanned(addrs, d)
            /\ UNCHANGED ranges
       ELSE /\ IsValid(d)
            /\ ranges' = Banning(ranges, d, minutes * Minute) /\ DropBanned(ranges, d)
            /\ UNCHANGED addrs
  /\ UNCHANGED banNow

\* unban, unban_range
UnbanCommand(d) ==
  /\ IF d.lb = d.ub
       THEN Find(addrs, d) /\ addrs' = RemoveBan(addrs, d) /\ UNCHANGED ranges
       ELSE Find(ranges, d) /\ ranges' = RemoveBan(ranges, d) /\ UNCHANGED addrs
  /\ UNCHANGED <<banNow, client>>

\* unban with the index of an entry: those of the ranges follow the addresses.
UnbanByIndex(i) ==
  LET n == Len(addrs.used)
  IN  /\ IF i < n
           THEN addrs' = RemoveBan(addrs, addrs.used[i + 1].data) /\ UNCHANGED ranges
           ELSE /\ i - n < Len(ranges.used)
                /\ ranges' = RemoveBan(ranges, ranges.used[i - n + 1].data)
                /\ UNCHANGED addrs
      /\ UNCHANGED <<banNow, client>>

UnbanAll ==
  /\ addrs' = EmptyPool /\ ranges' = EmptyPool
  /\ UNCHANGED <<banNow, client>>

\* Update removes from the front of the list what is over.
BanExpired(used) ==
  LET Gone(b) == b.expires # Never /\ b.expires < banNow
  IN  CHOOSE n \in 0 .. Len(used) : /\ \A i \in 1 .. n : Gone(used[i])
                                    /\ n < Len(used) => ~Gone(used[n + 1])

Expire(pool) ==
  LET n == BanExpired(pool.used)
      gone == {pool.used[i].data : i \in 1 .. n}
  IN  [used |-> SubSeq(pool.used, n + 1, Len(pool.used)),
       hashed |-> [h \in Hashes |-> pool.hashed[h] \ gone]]

ExpireBans ==
  /\ addrs' = Expire(addrs) /\ ranges' = Expire(ranges)
  /\ addrs' # addrs \/ ranges' # ranges
  /\ UNCHANGED <<banNow, client>>

-----------------------------------------------------------------------------
(* The file of bans, clients, and time.                                     *)

\* Minutes are rounded up from the seconds that are left; -1 stands for ever.
MinutesLeft(b) ==
  IF b.expires # Never THEN (b.expires - banNow + Minute - 1) \div Minute ELSE -1

Commands(used) == [i \in DOMAIN used |-> [data |-> used[i].data, minutes |-> MinutesLeft(used[i])]]

\* exec: clamp takes -1 for 0, and 0 minutes are for ever.
SecondsOf(c) == (IF c.minutes < 0 THEN 0 ELSE c.minutes) * Minute
Execute(cmds) ==
  LET after[n \in 0 .. Len(cmds)] ==
        IF n = 0 THEN EmptyPool ELSE Banning(after[n - 1], cmds[n].data, SecondsOf(cmds[n]))
  IN  after[Len(cmds)]

\* bans_save, and a new start of the server which executes the file at once.
SaveAndRestart ==
  /\ addrs' = Execute(Commands(addrs.used))
  /\ ranges' = Execute(Commands(ranges.used))
  /\ client' = [s \in BanSlots |-> NoClient]
  /\ UNCHANGED banNow

\* CNetServer asks IsBanned for every packet of an address without a client.
Connect(s, a) ==
  /\ ~Present(s)
  /\ ~IsBanned(a)
  /\ client' = [client EXCEPT ![s] = [addr |-> a, authed |-> 0]]
  /\ UNCHANGED <<banNow, addrs, ranges>>

Disconnect(s) ==
  /\ Present(s)
  /\ client' = [client EXCEPT ![s] = NoClient]
  /\ UNCHANGED <<banNow, addrs, ranges>>

\* AUTHED_MOD, AUTHED_ADMIN
Authenticate(s, level) ==
  /\ Present(s) /\ client[s].authed = 0
  /\ client' = [client EXCEPT ![s].authed = level]
  /\ UNCHANGED <<banNow, addrs, ranges>>

BanTimePasses ==
  /\ banNow < MaxNow
  /\ banNow' = banNow + 1
  /\ UNCHANGED <<addrs, ranges, client>>

BansNext ==
  \/ \E d \in Targets, minutes \in {0, 1} : BanCommand(d, minutes)
  \/ \E d \in Targets : UnbanCommand(d)
  \/ \E i \in 0 .. 2 * MaxBans - 1 : UnbanByIndex(i)
  \/ UnbanAll \/ ExpireBans \/ SaveAndRestart \/ BanTimePasses
  \/ \E s \in BanSlots : \/ Disconnect(s)
                         \/ \E a \in Addr : Connect(s, a)
                         \/ \E level \in {1, 2} : Authenticate(s, level)

BansSpec == BansInit /\ [][BansNext]_banVars

-----------------------------------------------------------------------------
\* An address is found banned exactly if the list shows a ban of it or of a range
\* around it: under whichever prefix the range was hashed.
FoundIffListed ==
  \A a \in Addr :
    IsBanned(a) <=> \/ \E i \in DOMAIN addrs.used : addrs.used[i].data = Single(a)
                    \/ \E i \in DOMAIN ranges.used : NetMatch(ranges.used[i].data, a, 0)

\* No client is connected from a banned address: a new ban drops them all, and
\* nobody comes in later, not with the bans of a file either.
NoBannedClient == \A s \in BanSlots : Present(s) => ~IsBanned(client[s].addr)

\* No ban that is over hides behind one that is not, where Update would not find
\* it: whatever was banned anew or adjusted, the lists are in order of expiry.
SoonestFirst ==
  \A pool \in {addrs, ranges} : \A i, j \in DOMAIN pool.used :
    i < j /\ pool.used[j].expires # Never =>
      pool.used[i].expires \in 0 .. pool.used[j].expires

\* "Save banlist in a file": a ban that is over some day is not restored as one
\* that lasts for ever.
\* The code does not keep to it (README, section 4), and no run checks it.
SavedBansEnd ==
  [][SaveAndRestart => \A used \in {addrs.used, ranges.used} : \A i \in DOMAIN used :
       used[i].expires # Never => MinutesLeft(used[i]) > 0]_banVars
=============================================================================
