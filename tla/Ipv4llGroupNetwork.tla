------------------------- MODULE Ipv4llGroupNetwork -------------------------
(* What a step does to the two parts of the uniqueness invariant: the one  *)
(* about the network, who is doomed by a frame that is queued, and the one *)
(* about single units.                                                     *)
EXTENDS Ipv4llGroupTypes

-----------------------------------------------------------------------------
(* The three ways in which a step touches the state of the network.        *)

ProbingCb == {"arp_probe1", "arp_probed"}

SameClaim(k, i) ==
  cb'[k][i] = cb[k][i] /\ left'[k][i] = left[k][i] /\ claim'[k][i] = claim[k][i]

(* The claim of group i of h goes on, and what dooms it stays queued. *)
SameFate(h, i, q) ==
  SameClaim(h, i) /\ \A f \in Range(rx[h]) : Fails(h, i, f) => f \in Range(q[h])

(* h takes no address and sends nothing. *)
QuietStep(h) ==
  /\ rx' \in [Host -> Seq(Frame)]
  /\ \A k \in Host : ifaddrs'[k] \subseteq ifaddrs[k]
  /\ \A k \in Host \ {h} : rx'[k] = rx[k] /\ \A i \in Group : SameClaim(k, i)
  /\ Range(rx'[h]) \subseteq Range(rx[h])
  /\ \A i \in Group : cb'[h][i] \in ProbingCb => SameFate(h, i, rx')

(* h sends a frame from its address a, which it has or now takes. *)
ClaimStep(h, a, q) ==
  /\ Sent(q, h, [kind |-> "claim", addr |-> a])
  /\ \A k \in Host \ {h} : q[k] = rx[k] /\ \A i \in Group : SameClaim(k, i)
  /\ Range(q[h]) \subseteq Range(rx[h])
  /\ ifaddrs' = [ifaddrs EXCEPT ![h] = @ \cup {a}]
  /\ \/ a \in ifaddrs[h]
     \/ \E g \in Group : AlmostProbed(h, g) /\ claim[h][g] = a
  /\ \A i \in Group : cb'[h][i] \in ProbingCb =>
       SameFate(h, i, q) /\ claim[h][i] # a

(* Group g of h sends a probe for its claim. *)
ProbeStep(h, g) ==
  /\ Sent(rx, h, [kind |-> "probe", addr |-> claim'[h][g]])
  /\ ifaddrs' = ifaddrs
  /\ claim'[h][g] \in Addr \ ifaddrs[h]
  /\ claim'[h][g] \in filter'[h]
  /\ cb'[h][g] = "arp_probed" => left'[h][g] = ANNOUNCE_WAIT
  /\ \A k \in Host, i \in Group : k # h \/ i # g => SameClaim(k, i)
  /\ \A i \in Group \ {g} : claim'[h][i] # claim'[h][g]

(* A doomed claim stays doomed while its frames stay and no address that   *)
(* it waits for is taken by its own unit.                                  *)
LEMMA DoomStays ==
  ASSUME NEW k \in Host, NEW i \in Group, NEW f \in Range(rx[k]),
         Fails(k, i, f), claim'[k][i] = claim[k][i], f \in Range(rx'[k]),
         f.addr \in ifaddrs'[k] => f.addr \in ifaddrs[k]
  PROVE  Doomed(k, i)'
  BY DEF Doomed, Fails

(* A step that changes nothing on the network. *)
LEMMA NothingKeeps ==
  ASSUME GlobalInv, UNCHANGED <<link, ifaddrs, rx, claim, cb, left, held>>
  PROVE  GlobalInv'
  BY DEF GlobalInv, UsedIsDoomed, RivalIsDoomed, LastOneStanding, Uncontested,
         Unique, Probing, AlmostProbed, Doomed, Fails

(* A quiet step keeps the invariant of the network. *)
LEMMA QuietKeeps ==
  ASSUME LocalInv, GlobalInv, NEW h \in Host, QuietStep(h)
  PROVE  GlobalInv'
  <1>1. ASSUME NEW k \in Host, NEW i \in Group, Probing(k, i)'
        PROVE  Probing(k, i) /\ SameClaim(k, i)
    BY <1>1 DEF QuietStep, Probing, ProbingCb, SameFate, SameClaim
  <1>2. ASSUME NEW k \in Host PROVE Range(rx'[k]) \subseteq Range(rx[k])
    BY DEF QuietStep
  <1>3. ASSUME NEW k \in Host, NEW i \in Group, Probing(k, i)', Doomed(k, i)
        PROVE  Doomed(k, i)'
    <2>1. PICK f \in Range(rx[k]) : Fails(k, i, f)
      BY <1>3 DEF Doomed
    <2>2. f \in Range(rx'[k]) /\ claim'[k][i] = claim[k][i]
      BY <1>3, <2>1 DEF QuietStep, Probing, ProbingCb, SameFate, SameClaim
    <2> QED
      BY <2>1, <2>2, DoomStays DEF QuietStep
  <1>4. ASSUME NEW k \in Host, NEW i \in Group, AlmostProbed(k, i)'
        PROVE  AlmostProbed(k, i) /\ claim'[k][i] = claim[k][i]
    BY <1>1, <1>4 DEF AlmostProbed, Probing, SameClaim
  <1>5. \A k \in Host : ifaddrs'[k] \subseteq ifaddrs[k]
    BY DEF QuietStep
  <1>6. UsedIsDoomed'
    BY <1>1, <1>3, <1>5 DEF GlobalInv, UsedIsDoomed, SameClaim
  <1>7. RivalIsDoomed'
    BY <1>1, <1>3 DEF GlobalInv, RivalIsDoomed, SameClaim
  <1>8. LastOneStanding'
    BY <1>2, <1>4, <1>5 DEF GlobalInv, LastOneStanding
  <1>9. Uncontested'
    BY <1>2, <1>5 DEF GlobalInv, Uncontested
  <1>10. Unique'
    BY <1>5 DEF GlobalInv, Unique
  <1> QED
    BY <1>6, <1>7, <1>8, <1>9, <1>10 DEF GlobalInv

(* A unit that sends from its address keeps the invariant of the network:  *)
(* nobody else has the address, and whoever probes for it hears the frame. *)
LEMMA ClaimKeeps ==
  ASSUME LocalInv, GlobalInv, NEW h \in Host, NEW a \in Addr,
         NEW q \in [Host -> Seq(Frame)], ClaimStep(h, a, q)
  PROVE  GlobalInv'
  <1> DEFINE f == [kind |-> "claim", addr |-> a]
  <1>1. f.kind = "claim" /\ f.addr = a /\ Reply(f) = f
    BY DEF Reply
  <1>2. Sent(q, h, f)
    BY DEF ClaimStep
  <1> HIDE DEF f
  <1>3. ASSUME NEW k \in Host \ {h} PROVE a \notin ifaddrs[k]
    BY DEF ClaimStep, GlobalInv, LastOneStanding, Unique
  <1>4. Owners(h, f.addr) = {}
    BY <1>1, <1>3 DEF Owners
  <1>5. Range(rx'[h]) = Range(q[h]) /\ Range(rx'[h]) \subseteq Range(rx[h])
    BY <1>2, <1>4, Zenon DEF Sent, ClaimStep
  <1>6. ASSUME NEW k \in Host \ {h}
        PROVE  /\ Range(rx[k]) \subseteq Range(rx'[k])
               /\ Range(rx'[k]) \subseteq Range(rx[k]) \cup {f}
               /\ fd[k] /\ a \in filter[k] => f \in Range(rx'[k])
    <2>1. Range(rx'[k]) = Range(rx[k]) \cup
            (IF link[h] /\ link[k] /\ fd[k] /\ Accepts(filter[k], f)
             THEN {f} ELSE {})
      BY <1>2 DEF Sent, ClaimStep
    <2>2. link[h] /\ link[k] /\ (a \in filter[k] => Accepts(filter[k], f))
      BY <1>1 DEF LocalInv, AllLinked, Accepts
    <2> QED
      BY <2>1, <2>2, Zenon
  <1>7. /\ ifaddrs'[h] = ifaddrs[h] \cup {a}
        /\ \A k \in Host \ {h} : ifaddrs'[k] = ifaddrs[k]
    BY DEF ClaimStep, LocalInv, TypeInv, TypeOK
  <1>8. ASSUME NEW k \in Host, NEW i \in Group, Probing(k, i)'
        PROVE  /\ Probing(k, i) /\ SameClaim(k, i)
               /\ k = h => claim[h][i] # a
    BY <1>8 DEF ClaimStep, Probing, ProbingCb, SameFate, SameClaim
  <1>9. ASSUME NEW k \in Host, NEW i \in Group, Probing(k, i)', Doomed(k, i)
        PROVE  Doomed(k, i)'
    <2>1. PICK e \in Range(rx[k]) : Fails(k, i, e)
      BY <1>9 DEF Doomed
    <2>2. e \in Range(rx'[k])
      BY <1>5, <1>6, <1>9, <2>1, Zenon
      DEF ClaimStep, Probing, ProbingCb, SameFate
    <2>3. claim'[k][i] = claim[k][i] /\ (k = h => claim[h][i] # a)
      BY <1>8, <1>9 DEF SameClaim
    <2>4. e.addr \in ifaddrs'[k] => e.addr \in ifaddrs[k]
      BY <1>7, <2>1, <2>3 DEF Fails
    <2> QED
      BY <2>1, <2>2, <2>3, <2>4, DoomStays
  <1>10. ASSUME NEW k \in Host, NEW i \in Group, AlmostProbed(k, i)'
         PROVE  /\ AlmostProbed(k, i) /\ claim'[k][i] = claim[k][i]
                /\ claim[k][i] # a
    <2>1. AlmostProbed(k, i) /\ claim'[k][i] = claim[k][i]
      BY <1>8, <1>10 DEF AlmostProbed, Probing, SameClaim
    <2>2. CASE k = h
      BY <1>8, <1>10, <2>1, <2>2, Zenon DEF AlmostProbed, Probing
    <2>3. CASE k # h
      BY <2>1, <2>3 DEF ClaimStep, GlobalInv, LastOneStanding
    <2> QED
      BY <2>1, <2>2, <2>3
  <1>11. UsedIsDoomed'
    <2> SUFFICES ASSUME NEW k \in Host, NEW j \in Host, NEW i \in Group,
                        k # j, Probing(k, i)', claim'[k][i] \in ifaddrs'[j]
                 PROVE  Doomed(k, i)'
      BY DEF UsedIsDoomed
    <2>1. Probing(k, i) /\ claim'[k][i] = claim[k][i]
      BY <1>8 DEF SameClaim
    <2>2. CASE claim[k][i] \in ifaddrs[j]
      BY <1>9, <2>1, <2>2 DEF GlobalInv, UsedIsDoomed
    <2>3. CASE claim[k][i] \notin ifaddrs[j]
      <3>1. j = h /\ claim[k][i] = a
        BY <1>7, <2>1, <2>3
      <3>2. f \in Range(rx'[k])
        BY <1>6, <2>1, <3>1 DEF LocalInv, ProbingListens, Claiming
      <3> QED
        BY <1>1, <2>1, <3>1, <3>2 DEF Doomed, Fails
    <2> QED
      BY <2>2, <2>3
  <1>12. RivalIsDoomed'
    BY <1>8, <1>9 DEF GlobalInv, RivalIsDoomed, SameClaim
  <1>13. LastOneStanding'
    <2> SUFFICES ASSUME NEW k \in Host, NEW i \in Group, AlmostProbed(k, i)'
                 PROVE  /\ \A j \in Host \ {k} :
                             /\ claim'[k][i] \notin ifaddrs'[j]
                             /\ \A g \in Group : AlmostProbed(j, g)' =>
                                  claim'[k][i] # claim'[j][g]
                        /\ \A e \in Range(rx'[k]) :
                             e.kind = "claim" => e.addr # claim'[k][i]
      BY DEF LastOneStanding
    <2>1. /\ AlmostProbed(k, i) /\ claim'[k][i] = claim[k][i]
          /\ claim[k][i] # a
      BY <1>10
    <2>2. \A j \in Host \ {k} : claim'[k][i] \notin ifaddrs'[j]
      BY <1>7, <2>1 DEF GlobalInv, LastOneStanding
    <2>3. \A j \in Host \ {k} : \A g \in Group :
            AlmostProbed(j, g)' => claim'[k][i] # claim'[j][g]
      BY <1>10, <2>1 DEF GlobalInv, LastOneStanding
    <2>4. \A e \in Range(rx'[k]) : e.kind = "claim" => e.addr # claim'[k][i]
      BY <1>1, <1>5, <1>6, <2>1, Zenon DEF GlobalInv, LastOneStanding
    <2> QED
      BY <2>2, <2>3, <2>4
  <1>14. Uncontested'
    <2> SUFFICES ASSUME NEW k \in Host, NEW e \in Range(rx'[k]),
                        e.kind = "claim"
                 PROVE  e.addr \notin ifaddrs'[k]
      BY DEF Uncontested
    <2>1. CASE k = h
      <3>1. e \in Range(rx[h]) /\ e.addr \notin ifaddrs[h]
        BY <1>5, <2>1, Zenon DEF GlobalInv, Uncontested
      <3>2. e.addr # a
        BY <3>1 DEF ClaimStep, GlobalInv, LastOneStanding
      <3> QED
        BY <1>7, <2>1, <3>1, <3>2
    <2>2. CASE k # h
      BY <1>1, <1>3, <1>6, <1>7, <2>2, Zenon DEF GlobalInv, Uncontested
    <2> QED
      BY <2>1, <2>2
  <1>15. Unique'
    BY <1>3, <1>7, SMTT(30) DEF GlobalInv, Unique
  <1> QED
    BY <1>11, <1>12, <1>13, <1>14, <1>15 DEF GlobalInv

(* A probe keeps the invariant of the network: the owner of the address    *)
(* answers it, and whoever else probes for the address hears it.           *)
LEMMA ProbeKeeps ==
  ASSUME LocalInv, GlobalInv, NEW h \in Host, NEW g \in Group, ProbeStep(h, g)
  PROVE  GlobalInv'
  <1> DEFINE a == claim'[h][g]
             f == [kind |-> "probe", addr |-> a]
  <1>1. f.kind = "probe" /\ f.addr = a
    OBVIOUS
  <1>2. Reply(f).kind = "claim" /\ Reply(f).addr = a
    BY DEF Reply
  <1>3. Sent(rx, h, f) /\ a \notin ifaddrs[h] /\ a \in filter'[h]
    BY Zenon DEF ProbeStep
  <1> HIDE DEF f
  <1>4. /\ Range(rx[h]) \subseteq Range(rx'[h])
        /\ Range(rx'[h]) \subseteq Range(rx[h]) \cup {Reply(f)}
        /\ Owners(h, a) # {} => Reply(f) \in Range(rx'[h])
    BY <1>1, <1>3, Zenon DEF Sent
  <1>5. ASSUME NEW k \in Host \ {h}
        PROVE  /\ Range(rx[k]) \subseteq Range(rx'[k])
               /\ Range(rx'[k]) \subseteq Range(rx[k]) \cup {f}
               /\ fd[k] /\ a \in filter[k] => f \in Range(rx'[k])
    <2>1. Range(rx'[k]) = Range(rx[k]) \cup
            (IF link[h] /\ link[k] /\ fd[k] /\ Accepts(filter[k], f)
             THEN {f} ELSE {})
      BY <1>3 DEF Sent
    <2>2. link[h] /\ link[k] /\ (a \in filter[k] => Accepts(filter[k], f))
      BY <1>1 DEF LocalInv, AllLinked, Accepts
    <2> QED
      BY <2>1, <2>2
  <1>6. ifaddrs' = ifaddrs
    BY DEF ProbeStep
  <1>7. ASSUME NEW k \in Host, NEW i \in Group, k # h \/ i # g
        PROVE  SameClaim(k, i) /\ (k = h => claim[k][i] # a)
    BY <1>7 DEF ProbeStep, SameClaim
  <1>8. ASSUME NEW k \in Host, NEW i \in Group, k # h \/ i # g, Doomed(k, i)
        PROVE  Doomed(k, i)'
    <2>1. PICK e \in Range(rx[k]) : Fails(k, i, e)
      BY <1>8 DEF Doomed
    <2>2. e \in Range(rx'[k]) /\ claim'[k][i] = claim[k][i]
      BY <1>4, <1>5, <1>7, <1>8, Zenon DEF SameClaim
    <2> QED
      BY <1>6, <2>1, <2>2, DoomStays
  <1>9. ASSUME NEW k \in Host, NEW i \in Group, AlmostProbed(k, i)'
        PROVE  /\ k # h \/ i # g
               /\ AlmostProbed(k, i) /\ claim'[k][i] = claim[k][i]
               /\ k = h => claim[k][i] # a
    <2>1. k # h \/ i # g
      BY <1>9, TimeAssumption DEF ProbeStep, AlmostProbed
    <2> QED
      BY <1>7, <1>9, <2>1, Zenon DEF AlmostProbed, SameClaim
  <1>10. UsedIsDoomed'
    <2> SUFFICES ASSUME NEW k \in Host, NEW j \in Host, NEW i \in Group,
                        k # j, Probing(k, i)', claim'[k][i] \in ifaddrs[j]
                 PROVE  Doomed(k, i)'
      BY <1>6 DEF UsedIsDoomed
    <2>1. CASE k = h /\ i = g
      <3>1. j \in Owners(h, a)
        BY <2>1 DEF Owners, LocalInv, AllLinked
      <3> QED
        BY <1>2, <1>4, <2>1, <3>1 DEF Doomed, Fails
    <2>2. CASE k # h \/ i # g
      BY <1>7, <1>8, <2>2 DEF GlobalInv, UsedIsDoomed, Probing, SameClaim
    <2> QED
      BY <2>1, <2>2
  <1>11. ASSUME NEW k \in Host \ {h}, NEW i \in Group,
                Probing(k, i)', claim'[k][i] = a
         PROVE  Doomed(k, i)'
    <2>1. Probing(k, i) /\ claim[k][i] = a
      BY <1>7, <1>11 DEF Probing, SameClaim
    <2>2. f \in Range(rx'[k]) /\ a \notin ifaddrs[k]
      BY <1>5, <2>1 DEF LocalInv, ProbingListens, Claiming
    <2> QED
      BY <1>1, <1>6, <1>11, <2>2, Zenon DEF Doomed, Fails
  <1>12. RivalIsDoomed'
    <2> SUFFICES ASSUME NEW k \in Host, NEW j \in Host,
                        NEW i \in Group, NEW n \in Group, k # j,
                        Probing(k, i)', Probing(j, n)',
                        claim'[k][i] = claim'[j][n]
                 PROVE  Doomed(k, i)' \/ Doomed(j, n)'
      BY DEF RivalIsDoomed
    <2>1. CASE (k = h /\ i = g) \/ (j = h /\ n = g)
      BY <1>11, <2>1
    <2>2. CASE (k # h \/ i # g) /\ (j # h \/ n # g)
      BY <1>7, <1>8, <2>2 DEF GlobalInv, RivalIsDoomed, Probing, SameClaim
    <2> QED
      BY <2>1, <2>2
  <1>13. LastOneStanding'
    <2> SUFFICES ASSUME NEW k \in Host, NEW i \in Group, AlmostProbed(k, i)'
                 PROVE  /\ \A j \in Host \ {k} :
                             /\ claim'[k][i] \notin ifaddrs'[j]
                             /\ \A n \in Group : AlmostProbed(j, n)' =>
                                  claim'[k][i] # claim'[j][n]
                        /\ \A e \in Range(rx'[k]) :
                             e.kind = "claim" => e.addr # claim'[k][i]
      BY DEF LastOneStanding
    <2>1. /\ AlmostProbed(k, i) /\ claim'[k][i] = claim[k][i]
          /\ k = h => claim[k][i] # a
      BY <1>9
    <2>2. \A j \in Host \ {k} : claim'[k][i] \notin ifaddrs'[j]
      BY <1>6, <2>1, Zenon DEF GlobalInv, LastOneStanding
    <2>3. \A j \in Host \ {k} : \A n \in Group :
            AlmostProbed(j, n)' => claim'[k][i] # claim'[j][n]
      BY <1>9, <2>1 DEF GlobalInv, LastOneStanding
    <2>4. \A e \in Range(rx'[k]) : e.kind = "claim" => e.addr # claim'[k][i]
      BY <1>1, <1>2, <1>4, <1>5, <2>1, SMTT(30) DEF GlobalInv, LastOneStanding
    <2> QED
      BY <2>2, <2>3, <2>4
  <1>14. Uncontested'
    BY <1>1, <1>2, <1>3, <1>4, <1>5, <1>6 DEF GlobalInv, Uncontested
  <1>15. Unique'
    BY <1>6 DEF GlobalInv, Unique
  <1> QED
    BY <1>10, <1>12, <1>13, <1>14, <1>15 DEF GlobalInv

(* Time keeps the invariant of the network: when a second passes the       *)
(* queues of the probing units are empty, so none of them is doomed.       *)
LEMMA TickKeeps ==
  ASSUME LocalInv, GlobalInv, Tick
  PROVE  GlobalInv'
  <1>1. UNCHANGED <<ifaddrs, rx, claim, cb>>
    BY DEF Tick, sock
  <1>2. ASSUME NEW h \in Host, NEW g \in Group, Probing(h, g)
        PROVE  Range(rx[h]) = {} /\ ~Doomed(h, g)
    <2>1. proc[h] \in 0..Running /\ g < proc[h] /\ proc[h] \notin Group
      BY <1>2 DEF Tick, LocalInv, TypeInv, TypeOK, TimersOfStarted, Probing
    <2>2. proc[h] = Running
      BY <2>1, GroupType, SetAssumption, SMTT(30) DEF Running, Group
    <2>3. rx[h] = <<>>
      BY <2>2, Zenon DEF Tick
    <2> QED
      BY <2>3 DEF Doomed, Range
  <1>3. /\ UsedIsDoomed' /\ RivalIsDoomed'
        /\ Uncontested' /\ Unique'
    BY <1>1, SMTT(30)
    DEF GlobalInv, UsedIsDoomed, RivalIsDoomed, Uncontested, Unique,
        Probing, Doomed, Fails
  <1>4. LastOneStanding'
    BY <1>1, <1>2
    DEF GlobalInv, LastOneStanding, AlmostProbed, UsedIsDoomed, RivalIsDoomed,
        Probing
  <1> QED
    BY <1>3, <1>4, Zenon DEF GlobalInv

-----------------------------------------------------------------------------
(* The part of the invariant about single units.                           *)

(* Frames are sent and read, and the filter has room for every group. *)
Reliable == NGroups <= ARP_ADDRS_MAX /\ {"send", "read"} \cap Faults = {}

SameGroup(k, i) ==
  SameClaim(k, i) /\ held'[k][i] = held[k][i] /\ last'[k][i] = last[k][i]

(* A step of group g of h, as seen by the groups of all units. *)
GroupStep(h, g) ==
  /\ TypeInv' /\ link' = link
  /\ \A k \in Host, i \in Group : k # h \/ i # g => SameGroup(k, i)
  /\ claims' = claims \/ claims' = [claims EXCEPT ![h] = held'[h]]
  /\ \A k \in Host : proc[k] <= proc'[k]
  /\ \A k \in Host \ {h} :
       ifaddrs'[k] = ifaddrs[k] /\ fd'[k] = fd[k] /\ filter'[k] = filter[k]
  /\ \A a \in Addr \ Pool[g] : a \in ifaddrs'[h] <=> a \in ifaddrs[h]
  /\ \A i \in Group \ {g} :
       Probing(h, i) => fd'[h] /\ claim[h][i] \in filter'[h]

(* Where the step leaves group g itself. *)
GroupEnds(h, g) ==
  /\ {last'[h][g], claim'[h][g], held'[h][g]} \subseteq Pool[g] \cup {INADDR_ANY}
  /\ cb'[h][g] # "none" => g < proc'[h]
  /\ held'[h][g] # INADDR_ANY =>
       held'[h][g] = claim'[h][g] /\ held'[h][g] \in ifaddrs'[h]
  /\ cb'[h][g] = "arp_announce1" => held'[h][g] # INADDR_ANY
  /\ Claiming(h, g)' => claim'[h][g] \in Addr \ ifaddrs'[h]
  /\ Probing(h, g)' => fd'[h] /\ claim'[h][g] \in filter'[h]

(* A step of one group keeps what is true of every single unit. *)
LEMMA LocalGroup ==
  ASSUME LocalInv, NEW h \in Host, NEW g \in Group,
         GroupStep(h, g), GroupEnds(h, g)
  PROVE  LocalInv'
  <1>1. TypeInv' /\ AllLinked'
    BY Zenon DEF GroupStep, LocalInv, AllLinked
  <1>2. InPool'
    <2>1. ASSUME NEW k \in Host, NEW i \in Group
          PROVE  {last'[k][i], claim'[k][i], held'[k][i]}
                    \subseteq Pool[i] \cup {INADDR_ANY}
      BY DEF GroupStep, GroupEnds, LocalInv, InPool, SameGroup, SameClaim
    <2>2. ASSUME NEW k \in Host, NEW i \in Group
          PROVE  claims'[k][i] \in Pool[i] \cup {INADDR_ANY}
      <3>1. claims[k][i] \in Pool[i] \cup {INADDR_ANY}
        BY DEF LocalInv, InPool
      <3>2. held'[k][i] \in Pool[i] \cup {INADDR_ANY}
        BY <2>1
      <3>3. claims'[k] = claims[k] \/ claims'[k] = held'[k]
        <4>1. claims \in [Host -> [Group -> OptAddr]]
          BY DEF LocalInv, TypeInv, TypeOK
        <4>2. claims' = claims \/ claims' = [claims EXCEPT ![h] = held'[h]]
          BY Zenon DEF GroupStep
        <4> QED
          BY <4>1, <4>2
      <3> QED
        BY <3>1, <3>2, <3>3
    <2> QED
      BY <2>1, <2>2 DEF InPool
  <1>3. TimersOfStarted'
    <2> SUFFICES ASSUME NEW k \in Host, NEW i \in Group, cb'[k][i] # "none"
                 PROVE  i < proc'[k]
      BY Zenon DEF TimersOfStarted
    <2>1. CASE k = h /\ i = g
      BY <2>1 DEF GroupEnds
    <2>2. CASE k # h \/ i # g
      <3>1. cb[k][i] # "none" /\ proc[k] <= proc'[k]
        BY <2>2 DEF GroupStep, SameGroup, SameClaim
      <3>2. i < proc[k] /\ i \in Nat
        BY <3>1, GroupType, Zenon DEF LocalInv, TimersOfStarted
      <3>3. proc[k] \in Nat /\ proc'[k] \in Nat
        BY <1>1, GroupType DEF LocalInv, TypeInv, TypeOK
      <3> QED
        BY <3>1, <3>2, <3>3
    <2> QED
      BY <2>1, <2>2
  <1>4. ASSUME NEW k \in Host, NEW i \in Group, k # h \/ i # g,
               NEW a \in Addr, a \in {claim[k][i], held[k][i]}
        PROVE  a \in ifaddrs'[k] <=> a \in ifaddrs[k]
    BY <1>4, OtherPool, Zenon DEF GroupStep, LocalInv
  <1>5. AnnouncesHeld'
    <2> SUFFICES ASSUME NEW k \in Host, NEW i \in Group
                 PROVE  /\ held'[k][i] # INADDR_ANY =>
                             /\ held'[k][i] = claim'[k][i]
                             /\ held'[k][i] \in ifaddrs'[k]
                        /\ cb'[k][i] = "arp_announce1" =>
                             held'[k][i] # INADDR_ANY
      BY DEF AnnouncesHeld
    <2>1. CASE k = h /\ i = g
      BY <2>1, Zenon DEF GroupEnds
    <2>2. CASE k # h \/ i # g
      <3>1. SameGroup(k, i)
        BY <2>2, Zenon DEF GroupStep
      <3>2. held[k][i] # INADDR_ANY => held[k][i] \in Addr
        BY DEF LocalInv, TypeInv, TypeOK, OptAddr
      <3> QED
        BY <1>4, <2>2, <3>1, <3>2, Zenon
        DEF LocalInv, AnnouncesHeld, SameGroup, SameClaim
    <2> QED
      BY <2>1, <2>2
  <1>6. ProbingListens'
    <2> SUFFICES ASSUME NEW k \in Host, NEW i \in Group
                 PROVE  /\ Claiming(k, i)' => claim'[k][i] \in Addr \ ifaddrs'[k]
                        /\ Probing(k, i)' =>
                             fd'[k] /\ claim'[k][i] \in filter'[k]
      BY Zenon DEF ProbingListens
    <2>1. CASE k = h /\ i = g
      BY <2>1, Zenon DEF GroupEnds
    <2>2. CASE k # h \/ i # g
      <3>1. cb'[k][i] = cb[k][i] /\ claim'[k][i] = claim[k][i]
        BY <2>2, Zenon DEF GroupStep, SameGroup, SameClaim
      <3>2. /\ Claiming(k, i)' => Claiming(k, i)
            /\ Probing(k, i)' => Probing(k, i)
        BY <3>1, Zenon DEF Probing, Claiming
      <3>3. Probing(k, i) => fd'[k] /\ claim[k][i] \in filter'[k]
        BY <2>2, Zenon DEF GroupStep, LocalInv, ProbingListens
      <3> QED
        BY <1>4, <2>2, <3>1, <3>2, <3>3, Zenon DEF LocalInv, ProbingListens
    <2> QED
      BY <2>1, <2>2, Zenon
  <1> QED
    BY <1>1, <1>2, <1>3, <1>5, <1>6, Zenon DEF LocalInv

-----------------------------------------------------------------------------
(* The steps of the daemons.                                               *)

(* What a step may do to the addresses in use: nothing, take one that      *)
(* nobody has, or give some up as the daemon ends.                         *)
AddressStep ==
  \/ ifaddrs' = ifaddrs
  \/ \E h \in Host, a \in Addr : Abstract!Acquire(h, a)
  \/ \E h \in Host : \E S \in SUBSET ifaddrs[h] :
       Abstract!Release(h, S) /\ proc'[h] = 0

(* A claim that is being probed for is not in use by its group. *)
LEMMA ClaimingHasNone ==
  ASSUME LocalInv, NEW h \in Host, NEW g \in Group, Claiming(h, g)
  PROVE  held[h][g] = INADDR_ANY
  BY Zenon DEF LocalInv, ProbingListens, AnnouncesHeld

(* Group g sends a probe for an address that its unit does not use. *)
LEMMA ProbeGroup ==
  ASSUME Reliable, LocalInv, GlobalInv, TypeInv',
         NEW h \in Host, NEW g \in Group, NEW states \in Group,
         g <= states, \A i \in Group : i < proc[h] => i <= states,
         claim'[h][g] \in Pool[g] \ ifaddrs[h],
         \A k \in Host, i \in Group : k # h \/ i # g =>
           claim'[k][i] = claim[k][i] /\ last'[k][i] = last[k][i],
         last'[h][g] \in Pool[g] \cup {INADDR_ANY},
         held[h][g] = INADDR_ANY,
         g < proc'[h], \A k \in Host : proc[k] <= proc'[k],
         arp_probe(h, g, states), UNCHANGED <<link, ifaddrs, held, claims>>
  PROVE  LocalInv' /\ GlobalInv'
  <1>1. /\ TypeOK /\ claim'[h][g] \in Addr
        /\ claim' \in [Host -> [Group -> OptAddr]]
    <2>1. TypeOK /\ claim' \in [Host -> [Group -> OptAddr]]
      BY Zenon DEF LocalInv, TypeInv, TypeOK
    <2>2. claim'[h][g] \in Addr
      BY SetAssumption
    <2> QED
      BY <2>1, <2>2
  <1>2. /\ rx' \in [Host -> Seq(Frame)]
        /\ SocketOf(h) /\ OthersKept(h, g)
        /\ \/ /\ fd'[h] /\ filter'[h] = bpf_arp(claim'[h], states)
              /\ cb'[h][g] \in {"arp_probe1", "arp_probed"}
              /\ cb'[h][g] = "arp_probed" => left'[h][g] = ANNOUNCE_WAIT
              /\ TryRequest(rx, h, [kind |-> "probe", addr |-> claim'[h][g]])
           \/ cb'[h][g] = "none" /\ ~fd[h] /\ UNCHANGED <<fd, filter, rx>>
    <2>1. /\ rx' \in [Host -> Seq(Frame)]
          /\ SocketOf(h) /\ OthersKept(h, g)
      BY <1>1, ProbeFacts, Zenon
    <2>2. \/ /\ fd'[h] /\ filter'[h] = bpf_arp(claim'[h], states)
             /\ cb'[h][g] \in {"arp_probe1", "arp_probed"}
             /\ cb'[h][g] = "arp_probe1" => probes'[h][g] < PROBE_NUM
             /\ cb'[h][g] = "arp_probed" => left'[h][g] = ANNOUNCE_WAIT
             /\ TryRequest(rx, h, [kind |-> "probe", addr |-> claim'[h][g]])
          \/ cb'[h][g] = "none" /\ ~fd[h] /\ UNCHANGED <<fd, filter, rx>>
      BY <1>1, ProbeFacts, Zenon
    <2> QED
      BY <2>1, <2>2, Zenon
  <1>3. \A k \in Host, i \in Group : k # h \/ i # g => SameClaim(k, i)
    BY <1>2, Zenon DEF OthersKept, SameClaim
  <1>4. \A k \in Host, i \in Group : k # h \/ i # g => SameGroup(k, i)
    BY <1>3, Zenon DEF SameGroup
  <1>5. \A i \in Group \ {g} : claim[h][i] \notin Pool[g]
    BY OtherPool, Zenon DEF LocalInv
  <1>6. CASE /\ fd'[h] /\ filter'[h] = bpf_arp(claim'[h], states)
             /\ cb'[h][g] \in {"arp_probe1", "arp_probed"}
             /\ cb'[h][g] = "arp_probed" => left'[h][g] = ANNOUNCE_WAIT
             /\ TryRequest(rx, h, [kind |-> "probe", addr |-> claim'[h][g]])
    <2>1. \A i \in Group : i <= states => claim'[h][i] \in filter'[h]
      BY <1>1, <1>6, FilterType DEF Reliable
    <2>2. \A i \in Group \ {g} : Probing(h, i) => claim[h][i] \in filter'[h]
      BY <2>1, Zenon DEF LocalInv, TimersOfStarted, Probing
    <2>3. GroupStep(h, g)
      BY <1>2, <1>4, <1>6, <2>2, Zenon DEF GroupStep, SocketOf
    <2>4. GroupEnds(h, g)
      BY <1>1, <1>6, <2>1, ZenonT(30) DEF GroupEnds
    <2>5. [kind |-> "probe", addr |-> claim'[h][g]] \in Frame
      BY <1>1 DEF Frame
    <2>6. Sent(rx, h, [kind |-> "probe", addr |-> claim'[h][g]])
      BY <1>1, <1>6, <2>5, TryRequestSent, Zenon DEF TypeOK, Reliable
    <2>7. ProbeStep(h, g)
      BY <1>1, <1>3, <1>5, <1>6, <2>1, <2>6, ZenonT(30) DEF ProbeStep
    <2> QED
      BY <2>3, <2>4, <2>7, LocalGroup, ProbeKeeps, ZenonT(30)
  <1>7. CASE cb'[h][g] = "none" /\ ~fd[h] /\ UNCHANGED <<fd, filter, rx>>
    <2>1. GroupStep(h, g)
      BY <1>2, <1>4, <1>7, ZenonT(30) DEF GroupStep, LocalInv, ProbingListens
    <2>2. GroupEnds(h, g)
      BY <1>7, Zenon DEF GroupEnds, Probing, Claiming
    <2>3. QuietStep(h)
      BY <1>2, <1>3, <1>7, Zenon DEF QuietStep, ProbingCb, SameFate
    <2> QED
      BY <2>1, <2>2, <2>3, LocalGroup, QuietKeeps, Zenon
  <1> QED
    BY <1>2, <1>6, <1>7, Zenon

(* Group g announces the address that it has, or that it was the only one  *)
(* to probe for.                                                           *)
LEMMA ClaimGroup ==
  ASSUME Reliable, LocalInv, GlobalInv, TypeInv',
         NEW h \in Host, NEW g \in Group, NEW states \in Group,
         NEW flt \in SUBSET OptAddr,
         \A i \in Group \ {g} : Probing(h, i) => claim[h][i] \in flt,
         claim'[h][g] \in Pool[g],
         \A k \in Host, i \in Group : k # h \/ i # g =>
           claim'[k][i] = claim[k][i],
         \/ claim'[h][g] \in ifaddrs[h]
         \/ AlmostProbed(h, g) /\ claim'[h][g] = claim[h][g],
         g < proc'[h], \A k \in Host : proc[k] <= proc'[k],
         ipv4llg_probed(h, g, states, flt), UNCHANGED <<link, last>>
  PROVE  LocalInv' /\ GlobalInv' /\ AddressStep
  <1> DEFINE a == claim'[h][g]
  <1>1. /\ TypeOK /\ a \in Addr
        /\ claim' \in [Host -> [Group -> OptAddr]]
    <2>1. TypeOK /\ claim' \in [Host -> [Group -> OptAddr]]
      BY Zenon DEF LocalInv, TypeInv, TypeOK
    <2>2. a \in Addr
      BY SetAssumption, Zenon
    <2> QED
      BY <2>1, <2>2, Zenon
  <1>2. /\ claims' = claims \/ claims' = [claims EXCEPT ![h] = held'[h]]
        /\ rx' \in [Host -> Seq(Frame)]
        /\ SocketOf(h) /\ OthersKept(h, g)
        /\ \/ /\ ifaddrs' = [ifaddrs EXCEPT ![h] = @ \cup {a}]
              /\ held' = [held EXCEPT ![h][g] = a]
              /\ \/ /\ fd'[h]
                    /\ filter'[h] = IF fd[h] THEN flt
                                    ELSE bpf_arp(claim'[h], states)
                    /\ cb'[h][g] = "arp_announce1"
                    /\ TryRequest(rx, h, [kind |-> "claim", addr |-> a])
                 \/ /\ cb'[h][g] = "none" /\ ~fd[h]
                    /\ UNCHANGED <<fd, filter, rx>>
           \/ /\ cb'[h][g] = "none" /\ filter'[h] = flt
              /\ a \notin ifaddrs[h]
              /\ UNCHANGED <<ifaddrs, held, fd, rx>>
    BY <1>1, ProbedFacts, Zenon
  <1>3. \A k \in Host, i \in Group : k # h \/ i # g => SameClaim(k, i)
    BY <1>2, Zenon DEF OthersKept, SameClaim
  <1>4. last[h][g] \in Pool[g] \cup {INADDR_ANY}
    BY Zenon DEF LocalInv, InPool
  <1>5. \A i \in Group \ {g} : claim[h][i] \notin Pool[g]
    BY OtherPool, Zenon DEF LocalInv
  <1>6. \A i \in Group : Probing(h, i) => fd[h]
    BY Zenon DEF LocalInv, ProbingListens
  <1>7. AlmostProbed(h, g) => Probing(h, g) /\ Claiming(h, g)
    BY DEF AlmostProbed, Probing, Claiming
  <1>8. CASE /\ ifaddrs' = [ifaddrs EXCEPT ![h] = @ \cup {a}]
             /\ held' = [held EXCEPT ![h][g] = a]
    <2>1. /\ held'[h][g] = a
          /\ \A k \in Host, i \in Group : k # h \/ i # g =>
               held'[k][i] = held[k][i]
      BY <1>1, <1>8, Zenon DEF TypeOK
    <2>2. /\ ifaddrs'[h] = ifaddrs[h] \cup {a}
          /\ \A k \in Host \ {h} : ifaddrs'[k] = ifaddrs[k]
      BY <1>1, <1>8, Zenon DEF TypeOK
    <2>3. \A k \in Host, i \in Group : k # h \/ i # g => SameGroup(k, i)
      BY <1>3, <2>1 DEF SameGroup
    <2>4. AddressStep
      <3>1. CASE a \in ifaddrs[h]
        BY <1>1, <1>8, <3>1, Zenon DEF AddressStep, TypeOK
      <3>2. CASE AlmostProbed(h, g) /\ a = claim[h][g]
        <4>1. \A k \in Host : a \notin ifaddrs[k]
          BY <1>7, <3>2, Zenon
          DEF LocalInv, ProbingListens, GlobalInv, LastOneStanding
        <4>2. Abstract!Acquire(h, a)
          BY <1>8, <4>1 DEF Abstract!Acquire
        <4> QED
          BY <1>1, <4>2, ZenonT(30) DEF AddressStep
      <3> QED
        BY <3>1, <3>2, Zenon
    <2>5. CASE /\ fd'[h]
               /\ filter'[h] = IF fd[h] THEN flt ELSE bpf_arp(claim'[h], states)
               /\ cb'[h][g] = "arp_announce1"
               /\ TryRequest(rx, h, [kind |-> "claim", addr |-> a])
      <3>1. GroupStep(h, g)
        BY <1>2, <1>6, <2>2, <2>3, <2>5, Zenon DEF GroupStep, SocketOf
      <3>2. GroupEnds(h, g)
        <4>1. a \in Pool[g] /\ a # INADDR_ANY /\ a \in ifaddrs'[h]
          BY <1>1, <2>2, SetAssumption, ZenonT(30)
        <4>2. cb'[h][g] = "arp_announce1"
          BY <2>5, Zenon
        <4>3. ~Probing(h, g)' /\ ~Claiming(h, g)'
          BY <4>2 DEF Probing, Claiming
        <4> QED
          BY <1>4, <2>1, <4>1, <4>3, Zenon DEF GroupEnds
      <3>3. [kind |-> "claim", addr |-> a] \in Frame
        BY <1>1, Zenon DEF Frame
      <3>4. Sent(rx, h, [kind |-> "claim", addr |-> a])
        BY <1>1, <2>5, <3>3, TryRequestSent, Zenon DEF TypeOK, Reliable
      <3>5. \A i \in Group : cb'[h][i] \in ProbingCb =>
              SameFate(h, i, rx) /\ claim[h][i] # a
        BY <1>3, <1>5, <2>5, Zenon DEF ProbingCb, SameFate
      <3>6. ClaimStep(h, a, rx)
        BY <1>3, <1>8, <3>4, <3>5, ZenonT(30) DEF ClaimStep
      <3>7. rx \in [Host -> Seq(Frame)]
        BY <1>1, Zenon DEF TypeOK
      <3> QED
        BY <1>1, <2>4, <3>1, <3>2, <3>6, <3>7, LocalGroup, ClaimKeeps, Zenon
    <2>6. CASE cb'[h][g] = "none" /\ ~fd[h] /\ UNCHANGED <<fd, filter, rx>>
      <3>1. a \in ifaddrs[h] /\ ifaddrs'[h] = ifaddrs[h]
        BY <1>6, <1>7, <2>2, <2>6, Zenon
      <3>2. GroupStep(h, g)
        BY <1>2, <1>6, <2>2, <2>3, <2>6, <3>1, Zenon DEF GroupStep
      <3>3. GroupEnds(h, g)
        <4>1. a \in Pool[g] /\ a # INADDR_ANY /\ a \in ifaddrs'[h]
          BY <1>1, <2>2, SetAssumption, Zenon
        <4>2. cb'[h][g] = "none"
          BY <2>6, Zenon
        <4>3. ~Probing(h, g)' /\ ~Claiming(h, g)'
          BY <4>2, Zenon DEF Probing, Claiming
        <4>4. cb'[h][g] # "arp_announce1"
          BY <4>2, Zenon
        <4> QED
          BY <1>4, <2>1, <4>1, <4>2, <4>3, <4>4, ZenonT(30) DEF GroupEnds
      <3>4. QuietStep(h)
        BY <1>2, <1>3, <2>2, <2>6, <3>1 DEF QuietStep, ProbingCb, SameFate
      <3> QED
        BY <2>4, <3>2, <3>3, <3>4, LocalGroup, QuietKeeps, ZenonT(30)
    <2> QED
      BY <1>1, <1>2, <1>8, <2>5, <2>6, <2>2, Zenon
  <1>9. CASE /\ cb'[h][g] = "none" /\ filter'[h] = flt
             /\ a \notin ifaddrs[h]
             /\ UNCHANGED <<ifaddrs, held, fd, rx>>
    <2>1. held[h][g] = INADDR_ANY
      BY <1>7, <1>9, ClaimingHasNone, Zenon
    <2>2. \A k \in Host, i \in Group : k # h \/ i # g => SameGroup(k, i)
      BY <1>3, <1>9 DEF SameGroup
    <2>3. GroupStep(h, g)
      BY <1>2, <1>6, <1>9, <2>2, Zenon DEF GroupStep, SocketOf
    <2>4. GroupEnds(h, g)
      BY <1>4, <1>9, <2>1, ZenonT(30) DEF GroupEnds, Probing, Claiming
    <2>5. QuietStep(h)
      BY <1>2, <1>3, <1>9 DEF QuietStep, ProbingCb, SameFate
    <2> QED
      BY <1>9, <2>3, <2>4, <2>5, LocalGroup, QuietKeeps, ZenonT(30)
      DEF AddressStep
  <1> QED
    BY <1>2, <1>8, <1>9
=============================================================================
