--------------------------- MODULE HookFilesProofs ---------------------------
(***************************************************************************)
(* The safety of the three files that hooks share, for any number of       *)
(* processes, rules, uses, workers, tools and roots.  Each part has its    *)
(* own inductive invariant; the last section puts them together.           *)
(***************************************************************************)
EXTENDS HookFiles, Sequences, TLAPS

-----------------------------------------------------------------------------
(* Overrides.  The uses in the file, in the copy of the process at work    *)
(* and the calls let through never come to more than was granted, one more *)
(* for each save that failed: such a hook lets its call through and leaves *)
(* the use it took in the file.                                            *)

Asked == [rule : Rules, uses : Nat]
Maps == [Rules -> [n : Nat, uses : Nat]]
(* The grants of a map are among those issued, for their rules. *)
Known(map, is) ==
  \A r \in Rules : map[r] # Override!NoGrant =>
    map[r].n \in DOMAIN is /\ is[map[r].n].rule = r /\ map[r].uses >= 1

NumbersType ==
  /\ issued \in Seq(Asked) /\ Len(issued) <= MaxGrants
  /\ ran \in [Override!GrantId -> Nat] /\ \A n \in Override!GrantId : n > Len(issued) => ran[n] = 0
  /\ faults \in Nat /\ overlapped \in BOOLEAN
FileType ==
  /\ file \in Maps \cup {Override!Truncated}
  /\ Override!loadOverrideGrants \in Maps /\ Known(Override!loadOverrideGrants, issued)
PcType ==
  /\ pc \in [Override!Procs -> {"idle", "open", "write", "log", "judge"}]
  /\ \A p \in Override!Procs : pc[p] = "log" => p \in Cmds
MemType ==
  /\ mem \in [Override!Procs -> [map : Maps, n : Nat]]
  /\ \A p \in Override!Procs : Known(mem[p].map, issued)
  /\ \A h \in CallHooks : pc[h] # "idle" => mem[h].n \in DOMAIN issued
OverrideTypeInv == NumbersType /\ FileType /\ PcType /\ MemType

(* Processes take turns. *)
OverrideAlone == \A p, q \in Override!Procs : pc[p] # "idle" /\ pc[q] # "idle" => p = q

(* The uses in a map cover no more calls than are left, when one more call *)
(* of grant n has been let through.                                        *)
Pays(map, n, rn, is, f) ==
  \A r \in Rules : map[r] # Override!NoGrant =>
    rn[map[r].n] + (IF map[r].n = n THEN 1 ELSE 0) + map[r].uses <= is[map[r].n].uses + f
Charge(p) == IF p \in CallHooks THEN mem[p].n ELSE 0

FilePays == Pays(Override!loadOverrideGrants, 0, ran, issued, faults)
CopyPays == \A p \in Override!Procs : pc[p] \in {"open", "write"} => Pays(mem[p].map, Charge(p), ran, issued, faults)
JudgePays == \A h \in CallHooks : pc[h] = "judge" => Pays(Override!loadOverrideGrants, mem[h].n, ran, issued, faults)
CallPays ==
  \A h \in CallHooks : pc[h] # "idle" => ran[mem[h].n] + 1 <= issued[mem[h].n].uses + faults
RanPays == \A n \in DOMAIN issued : ran[n] <= issued[n].uses + faults

Paid == OverrideAlone /\ FilePays /\ CopyPays /\ JudgePays /\ CallPays /\ RanPays
OverrideIInv == OverrideTypeInv /\ (~overlapped => Paid)

LEMMA NoneMap ==
  Override!None \in Maps /\ \A is : Known(Override!None, is) /\ \A n, rn, f : Pays(Override!None, n, rn, is, f)
BY DEF Override!None, Maps, Known, Pays, Override!NoGrant

LEMMA IssuedNumbers ==
  ASSUME Override!ConstantsAssumption, NumbersType
  PROVE  /\ Len(issued) \in Nat /\ DOMAIN issued = 1..Len(issued)
         /\ \A n \in DOMAIN issued : /\ n \in Override!GrantId /\ n # 0 /\ ran[n] \in Nat
                                     /\ issued[n] \in Asked /\ issued[n].uses \in Nat
<1>1. Len(issued) \in Nat /\ DOMAIN issued = 1..Len(issued)
  BY DEF NumbersType
<1>2. \A n \in DOMAIN issued : issued[n] \in Asked /\ issued[n].uses \in Nat
  <2>1. \A n \in DOMAIN issued : issued[n] \in Asked
    BY DEF NumbersType
  <2> QED BY <2>1 DEF Asked
<1>3. \A n \in DOMAIN issued : n \in Override!GrantId /\ n # 0
  BY <1>1 DEF NumbersType, Override!GrantId, Override!ConstantsAssumption
<1> QED BY <1>1, <1>2, <1>3 DEF NumbersType

(* The grants of a map that is known. *)
LEMMA KnownGrants ==
  ASSUME Override!ConstantsAssumption, NumbersType, NEW map \in Maps, Known(map, issued),
         NEW r \in Rules, map[r] # Override!NoGrant
  PROVE  /\ map[r].n \in DOMAIN issued /\ map[r].n \in Nat /\ map[r].n # 0
         /\ issued[map[r].n].rule = r /\ map[r].uses \in Nat /\ map[r].uses >= 1
         /\ ran[map[r].n] \in Nat /\ issued[map[r].n].uses \in Nat /\ faults \in Nat
<1>1. map[r].n \in DOMAIN issued /\ map[r].n \in Nat /\ map[r].uses \in Nat
      /\ issued[map[r].n].rule = r /\ map[r].uses >= 1
  BY DEF Known, Maps
<1> QED BY <1>1, IssuedNumbers DEF NumbersType

LEMMA OverrideInitInv == Override!ConstantsAssumption /\ Override!Init => OverrideIInv
<1> SUFFICES ASSUME Override!ConstantsAssumption, Override!Init PROVE OverrideIInv
  OBVIOUS
<1>1. Override!loadOverrideGrants = Override!None
  BY DEF Override!Init, Override!loadOverrideGrants
<1>2. NumbersType
  <2>1. <<>> \in Seq(Asked) /\ Len(<<>>) = 0
    OBVIOUS
  <2>2. issued = <<>> /\ Len(issued) = 0
    BY <2>1 DEF Override!Init
  <2>3. issued \in Seq(Asked) /\ Len(issued) <= MaxGrants
    BY <2>1, <2>2 DEF Override!ConstantsAssumption
  <2>4. ran = [n \in Override!GrantId |-> 0] /\ faults = 0 /\ overlapped = FALSE
    BY DEF Override!Init
  <2> QED BY <2>3, <2>4 DEF NumbersType
<1>3. FileType /\ PcType
  BY <1>1, NoneMap DEF Override!Init, FileType, PcType
<1>4. MemType
  BY NoneMap DEF Override!Init, MemType, Override!Idle, Override!Procs
<1>5. Paid
  <2>1. DOMAIN issued = {}
    BY DEF Override!Init
  <2> QED BY <1>1, <2>1, NoneMap DEF Override!Init, Paid, OverrideAlone, FilePays, CopyPays, JudgePays, CallPays, RanPays, Override!Procs
<1> QED BY <1>2, <1>3, <1>4, <1>5 DEF OverrideIInv, OverrideTypeInv

(* The process that moves is the only one at work. *)
LEMMA OthersIdle ==
  ASSUME OverrideIInv, ~overlapped, NEW p \in Override!Procs, pc[p] # "idle", NEW l, pc' = [pc EXCEPT ![p] = l]
  PROVE  /\ \A q \in Override!Procs : q # p => pc[q] = "idle" /\ pc'[q] = "idle"
         /\ pc'[p] = l
BY DEF OverrideIInv, OverrideTypeInv, PcType, Paid, OverrideAlone

(* What has been paid for stays so when a fault is added. *)
LEMMA FaultPays ==
  ASSUME Override!ConstantsAssumption, NumbersType, NEW map \in Maps, Known(map, issued), NEW n,
         Pays(map, n, ran, issued, faults), NEW f, f = faults \/ f = faults + 1
  PROVE  Pays(map, n, ran, issued, f)
<1> SUFFICES ASSUME NEW r \in Rules, map[r] # Override!NoGrant
             PROVE  ran[map[r].n] + (IF map[r].n = n THEN 1 ELSE 0) + map[r].uses
                      <= issued[map[r].n].uses + f
  BY DEF Pays
<1>1. ran[map[r].n] + (IF map[r].n = n THEN 1 ELSE 0) + map[r].uses
        <= issued[map[r].n].uses + faults
  BY DEF Pays
<1> QED BY <1>1, KnownGrants

(* A copy with a new grant for a rule. *)
LEMMA CommandKeeps ==
  ASSUME Override!ConstantsAssumption, OverrideIInv, NEW c \in Cmds, Override!runOverrideCmd(c)
  PROVE  OverrideIInv'
<1>1. PICK rule \in Rules, ttl \in 0..MaxTtl :
        /\ Override!Start(c) /\ Len(issued) + 1 <= MaxGrants
        /\ issued' = Append(issued, [rule |-> rule, uses |-> Override!AtLeastOne(ttl)])
        /\ mem' = [mem EXCEPT ![c] = [n |-> Len(issued) + 1,
             map |-> Override!Granted(Override!loadOverrideGrants, rule, [n |-> Len(issued) + 1, uses |-> Override!AtLeastOne(ttl)])]]
        /\ Override!Goto(c, "open")
        /\ UNCHANGED <<file, log, spent, ran, calls, crashes, faults>>
  BY DEF Override!runOverrideCmd
<1> DEFINE uses == Override!AtLeastOne(ttl)
           n == Len(issued) + 1
           g == [n |-> n, uses |-> uses]
           old == Override!loadOverrideGrants
           map == Override!Granted(old, rule, g)
<1>2. uses \in Nat /\ uses >= 1
  BY DEF Override!AtLeastOne, Override!ConstantsAssumption
<1>3. OverrideTypeInv /\ c \in Override!Procs /\ old \in Maps /\ Known(old, issued) /\ old' = old
      /\ c \notin CallHooks
  BY <1>1 DEF OverrideIInv, OverrideTypeInv, FileType, Override!Procs, Override!loadOverrideGrants, Override!ConstantsAssumption
<1> HIDE DEF uses
<1>4. /\ n \in Nat /\ n \in Override!GrantId /\ DOMAIN issued' = 1..n /\ Len(issued') = n
      /\ issued' \in Seq(Asked)
      /\ \A k \in DOMAIN issued : k \in DOMAIN issued' /\ issued'[k] = issued[k] /\ k # n
      /\ \A k \in DOMAIN issued' : k = n \/ k \in DOMAIN issued
      /\ issued'[n] = [rule |-> rule, uses |-> uses]
      /\ ran[n] = 0
  <2>1. [rule |-> rule, uses |-> uses] \in Asked
    BY <1>2 DEF Asked
  <2>2. n \in Override!GrantId /\ n > Len(issued)
    BY <1>1, <1>3, IssuedNumbers DEF OverrideTypeInv, Override!GrantId, Override!ConstantsAssumption
  <2>3. ran[n] = 0
    BY <1>3, <2>2 DEF OverrideTypeInv, NumbersType
  <2> QED BY <1>1, <1>3, <2>1, <2>2, <2>3, IssuedNumbers DEF OverrideTypeInv, NumbersType, uses
<1>5. \A k \in Override!GrantId : k > n => ran[k] = 0
  BY <1>3, IssuedNumbers DEF OverrideTypeInv, NumbersType, Override!GrantId
<1> HIDE DEF n
<1>6. /\ g.n = n /\ g.uses = uses /\ map \in Maps
      /\ \A r \in Rules : map[r] = IF r = rule THEN g ELSE old[r]
  <2>1. g \in [n : Nat, uses : Nat]
    BY <1>2, <1>4
  <2> HIDE DEF g
  <2>2. map \in Maps /\ \A r \in Rules : map[r] = IF r = rule THEN g ELSE old[r]
    BY <1>3, <2>1 DEF Override!Granted, Maps
  <2> QED BY <2>2 DEF g
<1>7. \A m \in Maps : Known(m, issued) => Known(m, issued')
  BY <1>4 DEF Known
<1>8. mem' = [mem EXCEPT ![c] = [n |-> n, map |-> map]]
  BY <1>1 DEF uses, n, map
<1> HIDE DEF map, g
<1>9. Known(map, issued')
  <2>1. Known(old, issued')
    BY <1>3, <1>7
  <2>2. issued'[n].rule = rule /\ n \in DOMAIN issued'
    <3> HIDE DEF map
    <3>1. n \in 1..n
      BY <1>4 DEF Override!GrantId
    <3> QED BY <1>4, <3>1
  <2> QED BY <1>2, <1>6, <2>1, <2>2 DEF Known
<1>10. mem'[c].map = map /\ mem'[c].n = n /\ mem' \in [Override!Procs -> [map : Maps, n : Nat]]
       /\ \A p \in Override!Procs : p # c => mem'[p] = mem[p]
  BY <1>3, <1>4, <1>6, <1>8 DEF OverrideTypeInv, MemType
<1>11. /\ pc' \in [Override!Procs -> {"idle", "open", "write", "log", "judge"}]
       /\ \A p \in Override!Procs : pc'[p] = IF p = c THEN "open" ELSE pc[p]
  BY <1>1, <1>3 DEF OverrideTypeInv, PcType, Override!Goto
<1>12. OverrideTypeInv'
  <2>1. NumbersType'
    BY <1>1, <1>3, <1>4, <1>5 DEF OverrideTypeInv, NumbersType, Override!Start, n
  <2>2. FileType'
    BY <1>1, <1>3, <1>7 DEF OverrideTypeInv, FileType
  <2>3. PcType'
    BY <1>3, <1>11 DEF OverrideTypeInv, PcType
  <2>4. MemType'
    <3>1. \A p \in Override!Procs : Known(mem'[p].map, issued')
      BY <1>3, <1>7, <1>9, <1>10 DEF OverrideTypeInv, MemType
    <3>2. \A h \in CallHooks : pc'[h] # "idle" => mem'[h].n \in DOMAIN issued'
      BY <1>3, <1>4, <1>10, <1>11 DEF OverrideTypeInv, MemType, Override!Procs
    <3> QED BY <1>10, <3>1, <3>2 DEF MemType
  <2> QED BY <2>1, <2>2, <2>3, <2>4 DEF OverrideTypeInv
<1>13. ASSUME ~overlapped' PROVE Paid'
  <2>1. ~overlapped /\ (\A p \in Override!Procs : pc[p] = "idle") /\ Paid
    BY <1>1, <1>13 DEF Override!Start, OverrideIInv
  <2>2. \A p \in Override!Procs : pc'[p] = IF p = c THEN "open" ELSE "idle"
    BY <1>11, <2>1
  <2>3. Pays(old, 0, ran, issued', faults)
    BY <1>3, <1>4, <2>1 DEF Paid, FilePays, Pays, Known
  <2>4. OverrideAlone' /\ FilePays'
    BY <1>1, <1>3, <2>2, <2>3 DEF OverrideAlone, FilePays
  <2>5. Pays(map, 0, ran, issued', faults)
    <3>1. n # 0 /\ issued'[n].uses = uses /\ faults \in Nat
      BY <1>3, <1>4 DEF Override!GrantId, OverrideTypeInv, NumbersType
    <3> QED BY <1>2, <1>4, <1>6, <2>3, <3>1 DEF Pays
  <2>6. CopyPays'
    BY <1>1, <1>3, <1>10, <2>2, <2>5 DEF CopyPays, Charge
  <2>7. JudgePays' /\ CallPays'
    BY <1>3, <2>2 DEF JudgePays, CallPays, Override!Procs
  <2>8. RanPays'
    <3>1. faults \in Nat /\ issued'[n].uses = uses
      BY <1>3, <1>4 DEF OverrideTypeInv, NumbersType
    <3> QED BY <1>1, <1>2, <1>4, <2>1, <3>1 DEF Paid, RanPays
  <2> QED BY <2>4, <2>6, <2>7, <2>8 DEF Paid
<1> QED BY <1>12, <1>13 DEF OverrideIInv

(* A call takes a use of a grant. *)
LEMMA ConsumeKeeps ==
  ASSUME Override!ConstantsAssumption, OverrideIInv, NEW h \in CallHooks, Override!consumeOverride(h)
  PROVE  OverrideIInv'
<1> DEFINE g == Override!loadOverrideGrants
<1>1. PICK rule \in Consulted :
        /\ Override!Start(h)
        /\ IF g[rule] = Override!NoGrant
           THEN UNCHANGED <<pc, mem, spent>>
           ELSE /\ spent' = [spent EXCEPT ![g[rule].n] = @ + 1]
                /\ mem' = [mem EXCEPT ![h] = [map |-> [g EXCEPT ![rule] = Override!Spent(@)], n |-> g[rule].n]]
                /\ Override!Goto(h, "open")
        /\ UNCHANGED <<file, log, issued, ran, crashes, faults>>
  BY DEF Override!consumeOverride
<1>2. /\ OverrideTypeInv /\ h \in Override!Procs /\ g \in Maps /\ g' = g /\ Known(g, issued) /\ rule \in Rules
      /\ UNCHANGED <<file, issued, ran, faults>>
  BY <1>1 DEF OverrideIInv, OverrideTypeInv, FileType, Override!Procs, Override!loadOverrideGrants, Override!ConstantsAssumption
<1>3. overlapped' \in BOOLEAN /\ (~overlapped' => ~overlapped /\ \A p \in Override!Procs : pc[p] = "idle")
  BY <1>1, <1>2 DEF Override!Start, OverrideTypeInv, NumbersType
<1>4. NumbersType' /\ FileType'
  BY <1>2, <1>3 DEF OverrideTypeInv, NumbersType, FileType
<1> HIDE DEF g
<1>5. CASE g[rule] = Override!NoGrant
  <2>1. UNCHANGED <<pc, mem>>
    BY <1>1, <1>5
  <2>2. PcType' /\ MemType'
    BY <1>2, <2>1 DEF OverrideTypeInv, PcType, MemType
  <2>3. ASSUME ~overlapped' PROVE Paid'
    BY <1>2, <1>3, <2>1, <2>3 DEF OverrideIInv, Paid, OverrideAlone, FilePays, CopyPays, JudgePays, CallPays, RanPays,
                                  Charge, g
  <2> QED BY <1>4, <2>2, <2>3 DEF OverrideIInv, OverrideTypeInv
<1>6. CASE g[rule] # Override!NoGrant
  <2> DEFINE n == g[rule].n
             rest == Override!Spent(g[rule])
             map == [g EXCEPT ![rule] = rest]
  <2>1. /\ n \in DOMAIN issued /\ g[rule].uses \in Nat /\ g[rule].uses >= 1 /\ n \in Nat
        /\ ran[n] \in Nat /\ issued[n].uses \in Nat /\ n # 0 /\ faults \in Nat /\ issued[n].rule = rule
        /\ g[rule] \in [n : Nat, uses : Nat]
    BY <1>2, <1>6, KnownGrants DEF OverrideTypeInv, Maps
  <2>2. mem' = [mem EXCEPT ![h] = [map |-> map, n |-> n]] /\ pc' = [pc EXCEPT ![h] = "open"]
    BY <1>1, <1>6 DEF Override!Goto
  <2>3. /\ rest \in [n : Nat, uses : Nat]
        /\ rest # Override!NoGrant => rest.n = n /\ rest.uses = g[rule].uses - 1 /\ rest.uses >= 1
    BY <2>1 DEF Override!Spent, Override!NoGrant
  <2> HIDE DEF rest
  <2>4. map \in Maps /\ \A r \in Rules : map[r] = IF r = rule THEN rest ELSE g[r]
    BY <1>2, <2>3 DEF Maps
  <2> HIDE DEF map
  <2>5. Known(map, issued)
    BY <1>2, <2>1, <2>3, <2>4 DEF Known
  <2> HIDE DEF n
  <2>6. mem' \in [Override!Procs -> [map : Maps, n : Nat]] /\ mem'[h].map = map /\ mem'[h].n = n
        /\ \A p \in Override!Procs : p # h => mem'[p] = mem[p]
    BY <1>2, <2>1, <2>2, <2>4 DEF OverrideTypeInv, MemType
  <2>7. /\ pc' \in [Override!Procs -> {"idle", "open", "write", "log", "judge"}]
        /\ \A p \in Override!Procs : pc'[p] = IF p = h THEN "open" ELSE pc[p]
    BY <1>2, <2>2 DEF OverrideTypeInv, PcType
  <2>8. PcType'
    BY <1>2, <2>7 DEF OverrideTypeInv, PcType
  <2>9. MemType'
    <3>1. \A p \in Override!Procs : Known(mem'[p].map, issued')
      BY <1>2, <2>5, <2>6 DEF OverrideTypeInv, MemType
    <3>2. \A k \in CallHooks : pc'[k] # "idle" => mem'[k].n \in DOMAIN issued'
      BY <1>2, <2>1, <2>6, <2>7 DEF OverrideTypeInv, MemType, Override!Procs
    <3> QED BY <2>6, <3>1, <3>2 DEF MemType
  <2>10. ASSUME ~overlapped' PROVE Paid'
    <3>1. ~overlapped /\ Paid /\ \A p \in Override!Procs : pc'[p] = IF p = h THEN "open" ELSE "idle"
      BY <1>3, <2>7, <2>10 DEF OverrideIInv
    <3>2. Pays(g, 0, ran, issued, faults)
      BY <3>1 DEF Paid, FilePays, g
    <3>3. ran[n] + g[rule].uses <= issued[n].uses + faults
      <4>1. ran[n] + 0 + g[rule].uses <= issued[n].uses + faults
        BY <1>2, <1>6, <2>1, <3>2 DEF Pays, n
      <4> QED BY <2>1, <4>1
    <3>4. Pays(map, n, ran, issued, faults)
      <4> SUFFICES ASSUME NEW r \in Rules, map[r] # Override!NoGrant
                   PROVE  ran[map[r].n] + (IF map[r].n = n THEN 1 ELSE 0) + map[r].uses
                            <= issued[map[r].n].uses + faults
        BY DEF Pays
      <4>1. CASE r = rule
        <5>1. map[r].n = n /\ map[r].uses = g[rule].uses - 1
          BY <2>3, <2>4, <4>1
        <5> QED BY <2>1, <3>3, <5>1
      <4>2. CASE r # rule
        <5>1. map[r] = g[r] /\ g[r] # Override!NoGrant
          BY <2>4, <4>2
        <5>2. issued[g[r].n].rule = r /\ g[r].n # 0
          BY <1>2, <5>1, KnownGrants DEF OverrideTypeInv
        <5>3. map[r].n # n
          BY <2>1, <4>2, <5>1, <5>2
        <5> QED BY <3>2, <5>1, <5>2, <5>3 DEF Pays
      <4> QED BY <4>1, <4>2
    <3>5. OverrideAlone' /\ FilePays'
      BY <1>2, <3>1, <3>2 DEF OverrideAlone, FilePays, g
    <3>6. CopyPays'
      BY <1>2, <2>6, <3>1, <3>4 DEF CopyPays, Charge
    <3>7. JudgePays' /\ CallPays' /\ RanPays'
      <4>1. ran[n] + 1 <= issued[n].uses + faults
        BY <2>1, <3>3
      <4> QED BY <1>2, <2>6, <3>1, <4>1 DEF JudgePays, CallPays, RanPays, Paid, Override!Procs
    <3> QED BY <3>5, <3>6, <3>7 DEF Paid
  <2> QED BY <1>4, <2>8, <2>9, <2>10 DEF OverrideIInv, OverrideTypeInv
<1> QED BY <1>5, <1>6

(* The steps of a process that is at work. *)
LEMMA ProcessKeeps ==
  ASSUME Override!ConstantsAssumption, OverrideIInv, NEW p \in Override!Procs,
         \/ Override!OpenFile(p) \/ Override!WriteFile(p) \/ Override!SaveFails(p) \/ Override!Crash(p)
         \/ p \in Cmds /\ Override!appendOverrideLog(p)
         \/ p \in CallHooks /\ Override!Judge(p)
  PROVE  OverrideIInv'
<1> DEFINE g == Override!loadOverrideGrants
           idle == [mem EXCEPT ![p] = Override!Idle]
<1>1. /\ OverrideTypeInv /\ g \in Maps /\ Known(g, issued) /\ pc[p] # "idle"
      /\ UNCHANGED <<issued, overlapped>>
      /\ faults' = faults \/ faults' = faults + 1
  BY DEF OverrideIInv, FileType, NumbersType, OverrideTypeInv, Override!OpenFile, Override!WriteFile, Override!SaveFails, Override!Crash, Override!appendOverrideLog, Override!Judge
<1>2. \E l \in {"idle", "write", "log", "judge"} : pc' = [pc EXCEPT ![p] = l] /\ (l = "log" => p \in Cmds)
  BY DEF Override!OpenFile, Override!WriteFile, Override!SaveFails, Override!Crash, Override!appendOverrideLog, Override!Judge, Override!Goto, Override!End
<1>3. mem' = mem \/ mem' = idle
  BY DEF Override!OpenFile, Override!WriteFile, Override!SaveFails, Override!Crash, Override!appendOverrideLog, Override!Judge, Override!End
<1>4. /\ mem' \in [Override!Procs -> [map : Maps, n : Nat]]
      /\ \A q \in Override!Procs : Known(mem'[q].map, issued)
      /\ \A q \in Override!Procs : mem'[q] = mem[q] \/ (q = p /\ mem' = idle)
  <2>1. Override!Idle \in [map : Maps, n : Nat] /\ Override!Idle.map = Override!None
    BY NoneMap DEF Override!Idle
  <2>2. CASE mem' = mem
    BY <1>1, <2>2 DEF OverrideTypeInv, MemType
  <2>3. CASE mem' = idle
    BY <1>1, <2>1, <2>3, NoneMap DEF OverrideTypeInv, MemType
  <2> QED BY <1>3, <2>2, <2>3
<1>5. /\ file' \in Maps \cup {Override!Truncated} /\ g' \in Maps /\ Known(g', issued) /\ g' \in {g, Override!None, mem[p].map}
      /\ ~(Override!OpenFile(p) \/ Override!WriteFile(p)) => g' = g
  <2>1. file' = file \/ (file' = Override!Truncated /\ Override!OpenFile(p)) \/ (file' = mem[p].map /\ Override!WriteFile(p))
    BY DEF Override!OpenFile, Override!WriteFile, Override!SaveFails, Override!Crash, Override!appendOverrideLog, Override!Judge
  <2> QED BY <1>1, <2>1, NoneMap DEF OverrideTypeInv, MemType, Override!loadOverrideGrants
<1>6. /\ ran' \in [Override!GrantId -> Nat]
      /\ \A n \in Override!GrantId : n > Len(issued) => ran'[n] = 0
  <2>1. CASE ran' = ran
    BY <1>1, <2>1 DEF OverrideTypeInv, NumbersType
  <2>2. CASE p \in CallHooks /\ ran' = [ran EXCEPT ![mem[p].n] = @ + 1]
    BY <1>1, <2>2, IssuedNumbers DEF OverrideTypeInv, NumbersType, MemType
  <2> QED BY <2>1, <2>2 DEF Override!OpenFile, Override!WriteFile, Override!SaveFails, Override!Crash, Override!appendOverrideLog, Override!Judge
<1>7. \A h \in CallHooks : pc'[h] # "idle" => mem'[h].n \in DOMAIN issued'
  <2>1. pc'[p] # "idle" => mem' = mem
    BY <1>1 DEF Override!OpenFile, Override!WriteFile, Override!SaveFails, Override!Crash, Override!appendOverrideLog, Override!Judge, Override!Goto, Override!End, OverrideTypeInv, PcType
  <2>2. \A h \in CallHooks : h # p => mem'[h] = mem[h] /\ pc'[h] = pc[h]
    <3>1. \A h \in CallHooks : h \in Override!Procs
      BY DEF Override!Procs
    <3>2. \A q \in Override!Procs : q # p => mem'[q] = mem[q]
      BY <1>4
    <3>3. \A q \in Override!Procs : q # p => pc'[q] = pc[q]
      BY <1>1, <1>2 DEF OverrideTypeInv, PcType
    <3> QED BY <3>1, <3>2, <3>3
  <2> QED BY <1>1, <2>1, <2>2 DEF OverrideTypeInv, MemType
<1>8. OverrideTypeInv'
  <2>1. NumbersType'
    BY <1>1, <1>6 DEF OverrideTypeInv, NumbersType
  <2>2. FileType'
    BY <1>1, <1>5 DEF FileType
  <2>3. PcType'
    BY <1>1, <1>2 DEF OverrideTypeInv, PcType
  <2>4. MemType'
    BY <1>1, <1>4, <1>7 DEF MemType
  <2> QED BY <2>1, <2>2, <2>3, <2>4 DEF OverrideTypeInv
<1>9. ASSUME ~overlapped PROVE Paid'
  <2>1. /\ Paid
        /\ \A q \in Override!Procs : q # p => pc[q] = "idle" /\ pc'[q] = "idle"
    BY <1>1, <1>2, <1>9, OthersIdle DEF OverrideIInv
  <2>2. OverrideAlone'
    BY <2>1 DEF OverrideAlone
  <2>3. Pays(g, 0, ran, issued, faults')
    BY <1>1, <2>1, FaultPays DEF Paid, FilePays, OverrideTypeInv
  <2>4. CASE Override!OpenFile(p)
    <3>1. /\ pc[p] = "open" /\ pc'[p] = "write" /\ g' = Override!None /\ UNCHANGED <<mem, ran, faults>>
      BY <1>1, <2>4 DEF Override!OpenFile, Override!Goto, OverrideTypeInv, PcType, Override!loadOverrideGrants
    <3>2. FilePays' /\ JudgePays'
      BY <2>1, <3>1, NoneMap DEF FilePays, JudgePays, Override!Procs, Pays
    <3>3. CopyPays'
      BY <1>1, <2>1, <3>1 DEF Paid, CopyPays, Charge, Pays
    <3>4. CallPays' /\ RanPays'
      BY <1>1, <2>1, <3>1 DEF Paid, CallPays, RanPays, Override!Procs
    <3> QED BY <2>2, <3>2, <3>3, <3>4 DEF Paid
  <2>5. CASE Override!WriteFile(p)
    <3>1. /\ pc[p] = "write" /\ pc'[p] = (IF p \in Cmds THEN "log" ELSE "judge")
          /\ file' = mem[p].map /\ UNCHANGED <<mem, ran, faults>>
      BY <1>1, <2>5 DEF Override!WriteFile, Override!Goto, OverrideTypeInv, PcType
    <3>2. g' = Override!None \/ g' = mem[p].map
      BY <3>1 DEF Override!loadOverrideGrants
    <3>3. Pays(mem[p].map, Charge(p), ran, issued, faults)
      BY <2>1, <3>1 DEF Paid, CopyPays
    <3>4. Pays(g', Charge(p), ran, issued, faults)
      BY <3>2, <3>3, NoneMap
    <3>5. Pays(g', 0, ran, issued, faults)
      <4> SUFFICES ASSUME NEW r \in Rules, g'[r] # Override!NoGrant
                   PROVE  ran[g'[r].n] + (IF g'[r].n = 0 THEN 1 ELSE 0) + g'[r].uses
                            <= issued[g'[r].n].uses + faults
        BY DEF Pays
      <4>1. /\ g'[r].n \in DOMAIN issued /\ g'[r].uses \in Nat /\ g'[r].n # 0
            /\ ran[g'[r].n] \in Nat /\ issued[g'[r].n].uses \in Nat /\ faults \in Nat
        BY <1>1, <1>5, KnownGrants DEF OverrideTypeInv
      <4>2. ran[g'[r].n] + (IF g'[r].n = Charge(p) THEN 1 ELSE 0) + g'[r].uses
              <= issued[g'[r].n].uses + faults
        BY <3>4 DEF Pays
      <4> QED BY <4>1, <4>2
    <3>6. FilePays' /\ JudgePays'
      BY <1>1, <2>1, <3>1, <3>4, <3>5 DEF FilePays, JudgePays, Override!Procs, Pays, Charge
    <3>7. CopyPays' /\ CallPays' /\ RanPays'
      BY <1>1, <2>1, <3>1 DEF Paid, CopyPays, CallPays, RanPays, Override!Procs
    <3> QED BY <2>2, <3>6, <3>7 DEF Paid
  <2>6. CASE Override!SaveFails(p)
    <3>1. /\ pc[p] = "open" /\ pc'[p] = (IF p \in Cmds THEN "idle" ELSE "judge")
          /\ g' = g /\ ran' = ran /\ faults' = faults + 1 /\ (p \in CallHooks => mem' = mem)
      BY <1>1, <1>5, <2>6 DEF Override!SaveFails, Override!Goto, Override!End, OverrideTypeInv, PcType, Override!ConstantsAssumption, Override!loadOverrideGrants
    <3>2. FilePays'
      BY <1>1, <2>1, <2>3, <3>1 DEF Paid, FilePays
    <3>3. JudgePays'
      <4> SUFFICES ASSUME p \in CallHooks PROVE Pays(g, mem[p].n, ran, issued, faults')
        BY <1>1, <2>1, <3>1 DEF JudgePays, Override!Procs
      <4> SUFFICES ASSUME NEW r \in Rules, g[r] # Override!NoGrant
                   PROVE  ran[g[r].n] + (IF g[r].n = mem[p].n THEN 1 ELSE 0) + g[r].uses
                            <= issued[g[r].n].uses + (faults + 1)
        BY <3>1 DEF Pays
      <4>1. /\ g[r].n \in DOMAIN issued /\ g[r].uses \in Nat /\ g[r].n # 0
            /\ ran[g[r].n] \in Nat /\ issued[g[r].n].uses \in Nat /\ faults \in Nat
        BY <1>1, KnownGrants DEF OverrideTypeInv
      <4>2. ran[g[r].n] + (IF g[r].n = 0 THEN 1 ELSE 0) + g[r].uses <= issued[g[r].n].uses + faults
        BY <2>1 DEF Paid, FilePays, Pays
      <4> QED BY <4>1, <4>2
    <3>4. CopyPays'
      BY <2>1, <3>1 DEF CopyPays
    <3>5. CallPays' /\ RanPays'
      <4>1. \A n \in DOMAIN issued : ran[n] \in Nat /\ issued[n].uses \in Nat
        BY <1>1, IssuedNumbers DEF OverrideTypeInv
      <4>2. \A h \in CallHooks : pc'[h] # "idle" => h = p /\ mem[h].n \in DOMAIN issued
        BY <1>1, <2>1, <3>1 DEF OverrideTypeInv, MemType, Override!Procs
      <4>3. faults \in Nat
        BY <1>1 DEF OverrideTypeInv, NumbersType
      <4>4. \A h \in CallHooks : pc'[h] # "idle" => ran[mem[h].n] + 1 <= issued[mem[h].n].uses + (faults + 1)
        BY <1>1, <2>1, <4>1, <4>2, <4>3 DEF Paid, CallPays
      <4>5. CallPays'
        BY <1>1, <3>1, <4>2, <4>4 DEF CallPays
      <4>6. RanPays'
        BY <1>1, <2>1, <3>1, <4>1, <4>3 DEF Paid, RanPays
      <4> QED BY <4>5, <4>6
    <3> QED BY <2>2, <3>2, <3>3, <3>4, <3>5 DEF Paid
  <2>7. CASE Override!Crash(p) \/ (p \in Cmds /\ Override!appendOverrideLog(p))
    <3>1. g' = g /\ ran' = ran /\ \A q \in Override!Procs : pc'[q] = "idle"
      BY <1>1, <1>5, <2>1, <2>7 DEF Override!Crash, Override!appendOverrideLog, Override!End, Override!Goto, OverrideTypeInv, PcType, Override!loadOverrideGrants
    <3>2. FilePays'
      BY <1>1, <2>1, <2>3, <3>1 DEF Paid, FilePays
    <3>3. RanPays'
      <4>1. \A n \in DOMAIN issued : ran[n] \in Nat /\ issued[n].uses \in Nat
        BY <1>1, IssuedNumbers DEF OverrideTypeInv
      <4> QED BY <1>1, <2>1, <3>1, <4>1 DEF Paid, RanPays, OverrideTypeInv, NumbersType
    <3> QED BY <2>2, <3>1, <3>2, <3>3 DEF Paid, CopyPays, JudgePays, CallPays, Override!Procs
  <2>8. CASE p \in CallHooks /\ Override!Judge(p)
    <3> DEFINE n == mem[p].n
    <3>1. /\ pc[p] = "judge" /\ g' = g /\ faults' = faults /\ n \in DOMAIN issued
          /\ \A q \in Override!Procs : pc'[q] = "idle"
          /\ ran' = ran \/ ran' = [ran EXCEPT ![n] = @ + 1]
      BY <1>1, <1>5, <2>1, <2>8 DEF Override!Judge, Override!End, Override!Goto, OverrideTypeInv, PcType, MemType, Override!loadOverrideGrants
    <3>2. Pays(g, n, ran, issued, faults) /\ ran[n] + 1 <= issued[n].uses + faults
      BY <2>1, <2>8, <3>1 DEF Paid, JudgePays, CallPays
    <3> HIDE DEF n
    <3>3. \A k \in DOMAIN issued : ran'[k] <= ran[k] + (IF k = n THEN 1 ELSE 0) /\ ran'[k] \in Nat
                                  /\ ran[k] \in Nat /\ issued[k].uses \in Nat
      BY <1>1, <3>1, IssuedNumbers DEF OverrideTypeInv, NumbersType
    <3>4. FilePays'
      <4> SUFFICES ASSUME NEW r \in Rules, g[r] # Override!NoGrant
                   PROVE  ran'[g[r].n] + (IF g[r].n = 0 THEN 1 ELSE 0) + g[r].uses
                            <= issued[g[r].n].uses + faults
        BY <1>1, <3>1 DEF FilePays, Pays
      <4>1. g[r].n \in DOMAIN issued /\ g[r].uses \in Nat /\ g[r].n # 0 /\ faults \in Nat
        BY <1>1, KnownGrants DEF OverrideTypeInv
      <4>2. ran[g[r].n] + (IF g[r].n = n THEN 1 ELSE 0) + g[r].uses <= issued[g[r].n].uses + faults
        BY <3>2 DEF Pays
      <4> QED BY <3>3, <4>1, <4>2
    <3>5. RanPays'
      <4> SUFFICES ASSUME NEW k \in DOMAIN issued PROVE ran'[k] <= issued[k].uses + faults
        BY <1>1, <3>1 DEF RanPays
      <4>1. faults \in Nat /\ ran[k] <= issued[k].uses + faults
        BY <1>1, <2>1 DEF OverrideTypeInv, NumbersType, Paid, RanPays
      <4> QED BY <3>2, <3>3, <4>1
    <3> QED BY <2>2, <3>1, <3>4, <3>5 DEF Paid, CopyPays, JudgePays, CallPays, Override!Procs
  <2> QED BY <2>4, <2>5, <2>6, <2>7, <2>8
<1> QED BY <1>1, <1>8, <1>9 DEF OverrideIInv

LEMMA OverrideInvNext == Override!ConstantsAssumption /\ OverrideIInv /\ [Override!Next]_(Override!vars) => OverrideIInv'
<1> SUFFICES ASSUME Override!ConstantsAssumption, OverrideIInv, [Override!Next]_(Override!vars) PROVE OverrideIInv'
  OBVIOUS
<1>1. CASE UNCHANGED Override!vars
  <2>1. OverrideTypeInv'
    BY <1>1 DEF Override!vars, OverrideIInv, OverrideTypeInv, NumbersType, FileType, PcType, MemType, Override!loadOverrideGrants
  <2>2. Paid => Paid'
    BY <1>1 DEF Override!vars, Paid, OverrideAlone, FilePays, CopyPays, JudgePays, CallPays, RanPays, Charge, Override!loadOverrideGrants
  <2> QED BY <1>1, <2>1, <2>2 DEF Override!vars, OverrideIInv
<1>2. CASE Override!Next
  BY <1>2, CommandKeeps, ConsumeKeeps, ProcessKeeps DEF Override!Next, Override!Procs
<1> QED BY <1>1, <1>2

-----------------------------------------------------------------------------
(* The lock of the map refresh.  While workers are quick and sessions come *)
(* one by one, or none is killed, the lock on disk is that of the worker   *)
(* that runs, or of the scheduler that is about to start one.              *)

RefreshTypeInv ==
  /\ lock \in Refresh!Lock \cup {Refresh!NoLock} /\ made \in 0..MaxWorkers /\ lock.of <= made
  /\ rpc \in [Schedulers -> {"idle", "remove", "create", "start"}]
  /\ mine \in [Schedulers -> 0..MaxWorkers]
  /\ \A s \in Schedulers : (rpc[s] = "start" <=> mine[s] # 0) /\ mine[s] <= made
  /\ worker \in [Refresh!WorkerId -> {"none", "syncing", "done", "killed"}]
  /\ \A n \in Refresh!WorkerId : n > made => worker[n] = "none"
  /\ kills \in Nat /\ roverlapped \in BOOLEAN /\ overran \in BOOLEAN

(* The lock is that of the worker that runs or is about to be started.     *)
Held ==
  /\ \A n \in Refresh!WorkerId : worker[n] = "syncing" => lock = [of |-> n, age |-> "fresh"]
  /\ \A s \in Schedulers : rpc[s] = "start" =>
       /\ lock = [of |-> mine[s], age |-> "fresh"] /\ worker[mine[s]] = "none"
       /\ \A t \in Schedulers : rpc[t] = "start" => t = s
(* Without a kill a lock has its worker, or will have it, and is not old.  *)
Owned ==
  kills = 0 =>
    /\ lock.age # "stale" /\ \A s \in Schedulers : rpc[s] # "remove"
    /\ lock # Refresh!NoLock => \/ worker[lock.of] = "syncing"
                        \/ \E s \in Schedulers : mine[s] = lock.of
(* Sessions one after the other: what is removed is an old lock.           *)
Single ==
  ~roverlapped =>
    /\ \A s, t \in Schedulers : rpc[s] # "idle" /\ rpc[t] # "idle" => s = t
    /\ \A s \in Schedulers : rpc[s] = "remove" => lock.age = "stale"

RefreshIInv == RefreshTypeInv /\ (Refresh!Orderly => Held /\ Owned /\ Single)

LEMMA RefreshInitInv == Refresh!WorkersAssumption /\ Refresh!Init => RefreshIInv
<1> SUFFICES ASSUME Refresh!WorkersAssumption, Refresh!Init PROVE RefreshIInv
  OBVIOUS
<1>1. lock = Refresh!NoLock /\ lock.of = 0 /\ lock.age = "none" /\ made = 0 /\ kills = 0
      /\ roverlapped = FALSE /\ overran = FALSE
  BY DEF Refresh!Init, Refresh!NoLock
<1>2. rpc = [s \in Schedulers |-> "idle"] /\ mine = [s \in Schedulers |-> 0]
      /\ worker = [n \in Refresh!WorkerId |-> "none"]
  BY DEF Refresh!Init
<1>3. RefreshTypeInv
  <2>1. 0 \in 0..MaxWorkers /\ lock \in Refresh!Lock \cup {Refresh!NoLock}
    BY <1>1 DEF Refresh!WorkersAssumption
  <2>2. roverlapped \in BOOLEAN /\ overran \in BOOLEAN
    BY <1>1
  <2>3. \A s \in Schedulers : rpc[s] = "idle" /\ mine[s] = 0
    BY <1>2
  <2>4. /\ rpc \in [Schedulers -> {"idle", "remove", "create", "start"}]
        /\ mine \in [Schedulers -> 0..MaxWorkers]
        /\ worker \in [Refresh!WorkerId -> {"none", "syncing", "done", "killed"}]
    BY <1>2, <2>1
  <2> QED BY <1>1, <1>2, <2>1, <2>2, <2>3, <2>4 DEF RefreshTypeInv
<1>4. Held /\ Owned /\ Single
  BY <1>1, <1>2 DEF Held, Owned, Single
<1> QED BY <1>3, <1>4 DEF RefreshIInv

(* What a lock is. *)
LEMMA LockFields ==
  ASSUME RefreshTypeInv
  PROVE  /\ lock.of \in Nat
         /\ IF lock = Refresh!NoLock THEN lock.of = 0 /\ lock.age = "none"
            ELSE lock.of \in Refresh!WorkerId /\ lock.age \in {"fresh", "stale"}
                 /\ lock = [of |-> lock.of, age |-> lock.age]
BY DEF RefreshTypeInv, Refresh!Lock, Refresh!NoLock, Refresh!WorkerId

(* Order is lost for good. *)
LEMMA OrderlyBefore ==
  ASSUME Refresh!WorkersAssumption, RefreshTypeInv, Refresh!Next, Refresh!Orderly'
  PROVE  Refresh!Orderly
<1>1. (overran => overran') /\ (roverlapped => roverlapped') /\ (kills' = 0 => kills = 0)
  BY DEF Refresh!Next, Refresh!StatLock, Refresh!RemoveStale, Refresh!CreateLock, Refresh!CreateFails, Refresh!StartWorker, Refresh!StartFails, Refresh!SchedulerKilled,
         Refresh!WorkerEnds, Refresh!WorkerKilled, Refresh!LockAges, Refresh!Start, RefreshTypeInv
<1> QED BY <1>1 DEF Refresh!Orderly

LEMMA StatLockKeeps ==
  ASSUME Refresh!WorkersAssumption, RefreshIInv, NEW s \in Schedulers, Refresh!StatLock(s)
  PROVE  RefreshIInv'
<1> DEFINE l == CASE lock = Refresh!NoLock -> "create" [] lock.age = "stale" -> "remove" [] OTHER -> "idle"
<1>1. /\ rpc[s] = "idle" /\ rpc' = [rpc EXCEPT ![s] = l]
      /\ roverlapped' = (roverlapped \/ \E t \in Schedulers : rpc[t] # "idle")
      /\ UNCHANGED <<lock, mine, worker, made, kills, overran>>
  BY DEF Refresh!StatLock, Refresh!Start, Refresh!Goto
<1>2. l = (IF lock = Refresh!NoLock THEN "create" ELSE IF lock.age = "stale" THEN "remove" ELSE "idle")
  BY LockFields DEF RefreshIInv, Refresh!NoLock
<1> HIDE DEF l
<1>3. RefreshTypeInv'
  BY <1>1, <1>2 DEF RefreshIInv, RefreshTypeInv
<1>4. ASSUME Refresh!Orderly' PROVE Held' /\ Owned' /\ Single'
  <2>1. Refresh!Orderly /\ RefreshTypeInv
    BY <1>1, <1>4 DEF Refresh!Orderly, RefreshIInv
  <2>2. \A t \in Schedulers : rpc'[t] = IF t = s THEN l ELSE rpc[t]
    BY <1>1, <2>1 DEF RefreshTypeInv
  <2>3. Held'
    BY <1>1, <1>2, <2>1, <2>2 DEF RefreshIInv, Held
  <2>4. Owned'
    <3> SUFFICES ASSUME kills = 0
                 PROVE  /\ lock.age # "stale" /\ \A t \in Schedulers : rpc'[t] # "remove"
                        /\ lock # Refresh!NoLock => \/ worker[lock.of] = "syncing"
                                            \/ \E t \in Schedulers : mine[t] = lock.of
      BY <1>1 DEF Owned
    <3> QED BY <1>2, <2>1, <2>2 DEF RefreshIInv, Owned
  <2>5. Single'
    <3> SUFFICES ASSUME ~roverlapped'
                 PROVE  /\ \A t, u \in Schedulers : rpc'[t] # "idle" /\ rpc'[u] # "idle" => t = u
                        /\ \A t \in Schedulers : rpc'[t] = "remove" => lock.age = "stale"
      BY <1>1 DEF Single
    <3>1. \A t \in Schedulers : rpc[t] = "idle"
      BY <1>1, <2>1 DEF RefreshTypeInv
    <3> QED BY <1>2, <2>2, <3>1
  <2> QED BY <2>3, <2>4, <2>5
<1> QED BY <1>3, <1>4 DEF RefreshIInv

LEMMA RemoveStaleKeeps ==
  ASSUME Refresh!WorkersAssumption, RefreshIInv, NEW s \in Schedulers, Refresh!RemoveStale(s)
  PROVE  RefreshIInv'
<1>1. /\ rpc[s] = "remove" /\ rpc' = [rpc EXCEPT ![s] = "create"] /\ lock' = Refresh!NoLock
      /\ UNCHANGED <<mine, worker, made, kills, roverlapped, overran>>
  BY DEF Refresh!RemoveStale, Refresh!Goto
<1>2. Refresh!NoLock.of = 0 /\ Refresh!NoLock.age = "none"
  BY DEF Refresh!NoLock
<1>3. RefreshTypeInv'
  BY <1>1, <1>2 DEF RefreshIInv, RefreshTypeInv
<1>4. ASSUME Refresh!Orderly' PROVE Held' /\ Owned' /\ Single'
  <2>1. Refresh!Orderly /\ RefreshTypeInv /\ Held /\ Owned /\ Single
    BY <1>1, <1>4 DEF Refresh!Orderly, RefreshIInv
  <2>2. kills # 0 /\ ~roverlapped
    BY <1>1, <2>1 DEF Owned, Refresh!Orderly
  <2>3. /\ lock.age = "stale"
        /\ \A t \in Schedulers : rpc'[t] = IF t = s THEN "create" ELSE "idle"
    BY <1>1, <2>1, <2>2 DEF Single, RefreshTypeInv
  <2>4. \A n \in Refresh!WorkerId : worker[n] # "syncing"
    BY <2>1, <2>3 DEF Held
  <2> QED BY <1>1, <2>2, <2>3, <2>4 DEF Held, Owned, Single
<1> QED BY <1>3, <1>4 DEF RefreshIInv

LEMMA CreateLockKeeps ==
  ASSUME Refresh!WorkersAssumption, RefreshIInv, NEW s \in Schedulers, Refresh!CreateLock(s), lock = Refresh!NoLock
  PROVE  RefreshIInv'
<1> DEFINE n == made + 1
           new == [of |-> n, age |-> "fresh"]
<1>1. /\ rpc[s] = "create" /\ rpc' = [rpc EXCEPT ![s] = "start"] /\ lock' = new
      /\ mine' = [mine EXCEPT ![s] = n] /\ made' = n /\ made < MaxWorkers
      /\ UNCHANGED <<worker, kills, roverlapped, overran>>
  BY DEF Refresh!CreateLock, Refresh!Goto
<1>2. n \in Refresh!WorkerId /\ n \in 0..MaxWorkers /\ n # 0 /\ RefreshTypeInv
  BY <1>1 DEF RefreshIInv, RefreshTypeInv, Refresh!WorkerId, Refresh!WorkersAssumption
<1>3. new.of = n /\ new.age = "fresh" /\ new \in Refresh!Lock /\ new # Refresh!NoLock
  BY <1>2 DEF Refresh!Lock, Refresh!NoLock
<1>4. worker[n] = "none"
  BY <1>2 DEF RefreshTypeInv
<1>5. \A t \in Schedulers : /\ rpc'[t] = IF t = s THEN "start" ELSE rpc[t]
                            /\ mine'[t] = IF t = s THEN n ELSE mine[t]
  BY <1>1, <1>2 DEF RefreshTypeInv
<1>6. RefreshTypeInv'
  <2>1. \A t \in Schedulers : (rpc'[t] = "start" <=> mine'[t] # 0) /\ mine'[t] <= made'
    BY <1>1, <1>2, <1>5 DEF RefreshTypeInv
  <2>2. \A k \in Refresh!WorkerId : k > made' => worker[k] = "none"
    BY <1>1, <1>2 DEF RefreshTypeInv, Refresh!WorkerId
  <2> HIDE DEF new
  <2> QED BY <1>1, <1>2, <1>3, <2>1, <2>2 DEF RefreshTypeInv
<1> HIDE DEF n, new
<1>7. ASSUME Refresh!Orderly' PROVE Held' /\ Owned' /\ Single'
  <2>1. Refresh!Orderly /\ Held /\ Owned /\ Single
    BY <1>1, <1>7 DEF Refresh!Orderly, RefreshIInv
  <2>2. Refresh!NoLock.age # "fresh"
    BY DEF Refresh!NoLock
  <2>3. (\A k \in Refresh!WorkerId : worker[k] # "syncing") /\ \A t \in Schedulers : rpc[t] # "start"
    BY <2>1, <2>2 DEF Held
  <2>4. Held'
    BY <1>1, <1>4, <1>5, <2>3 DEF Held, new
  <2>5. Owned'
    BY <1>1, <1>3, <1>5, <2>1 DEF Owned
  <2>6. Single'
    BY <1>1, <1>5, <2>1, <2>2 DEF Single, Refresh!NoLock
  <2> QED BY <2>4, <2>5, <2>6
<1> QED BY <1>6, <1>7 DEF RefreshIInv

(* A scheduler gives up. *)
LEMMA GivesUp ==
  ASSUME RefreshIInv, NEW s \in Schedulers, rpc[s] # "start", rpc' = [rpc EXCEPT ![s] = "idle"],
         UNCHANGED <<lock, mine, worker, made, kills, roverlapped, overran>>
  PROVE  RefreshIInv'
<1>1. RefreshTypeInv /\ \A t \in Schedulers : rpc'[t] = IF t = s THEN "idle" ELSE rpc[t]
  BY DEF RefreshIInv, RefreshTypeInv
<1>2. RefreshTypeInv'
  BY <1>1 DEF RefreshTypeInv
<1>3. ASSUME Refresh!Orderly' PROVE Held' /\ Owned' /\ Single'
  <2>1. Held /\ Owned /\ Single
    BY <1>3 DEF RefreshIInv, Refresh!Orderly
  <2> QED BY <1>1, <2>1 DEF Held, Owned, Single
<1> QED BY <1>2, <1>3 DEF RefreshIInv

LEMMA StartWorkerKeeps ==
  ASSUME Refresh!WorkersAssumption, RefreshIInv, NEW s \in Schedulers, Refresh!StartWorker(s)
  PROVE  RefreshIInv'
<1> DEFINE n == mine[s]
<1>1. /\ rpc[s] = "start" /\ rpc' = [rpc EXCEPT ![s] = "idle"] /\ mine' = [mine EXCEPT ![s] = 0]
      /\ worker' = [worker EXCEPT ![n] = "syncing"]
      /\ UNCHANGED <<lock, made, kills, roverlapped, overran>>
  BY DEF Refresh!StartWorker, Refresh!Goto
<1>2. RefreshTypeInv /\ n \in Refresh!WorkerId /\ n <= made /\ n # 0
  BY <1>1 DEF RefreshIInv, RefreshTypeInv, Refresh!WorkerId, Refresh!WorkersAssumption
<1>3. /\ \A t \in Schedulers : /\ rpc'[t] = IF t = s THEN "idle" ELSE rpc[t]
                               /\ mine'[t] = IF t = s THEN 0 ELSE mine[t]
      /\ \A k \in Refresh!WorkerId : worker'[k] = IF k = n THEN "syncing" ELSE worker[k]
  BY <1>1, <1>2 DEF RefreshTypeInv
<1> HIDE DEF n
<1>4. RefreshTypeInv'
  <2>1. \A t \in Schedulers : (rpc'[t] = "start" <=> mine'[t] # 0) /\ mine'[t] <= made'
    BY <1>1, <1>2, <1>3 DEF RefreshTypeInv
  <2>2. \A k \in Refresh!WorkerId : k > made' => worker'[k] = "none"
    BY <1>1, <1>2, <1>3 DEF RefreshTypeInv, Refresh!WorkerId
  <2> QED BY <1>1, <1>2, <2>1, <2>2 DEF RefreshTypeInv, Refresh!WorkersAssumption
<1>5. ASSUME Refresh!Orderly' PROVE Held' /\ Owned' /\ Single'
  <2>1. Held /\ Owned /\ Single
    BY <1>1, <1>5 DEF RefreshIInv, Refresh!Orderly
  <2>2. lock = [of |-> n, age |-> "fresh"] /\ worker[n] = "none" /\ \A t \in Schedulers : rpc[t] = "start" => t = s
    BY <1>1, <2>1 DEF Held, n
  <2>3. lock.of = n
    BY <2>2
  <2>4. \A k \in Refresh!WorkerId : worker[k] = "syncing" => k = n
    BY <2>1, <2>3 DEF Held
  <2>5. Held'
    BY <1>1, <1>3, <2>2, <2>4 DEF Held
  <2>6. Owned' /\ Single'
    BY <1>1, <1>2, <1>3, <2>1, <2>3 DEF Owned, Single
  <2> QED BY <2>5, <2>6
<1> QED BY <1>4, <1>5 DEF RefreshIInv

(* The lock goes with its scheduler or its worker. *)
LEMMA LockGoes ==
  ASSUME Refresh!WorkersAssumption, RefreshIInv, lock' = Refresh!NoLock, UNCHANGED <<made, kills, roverlapped, overran>>,
         \/ \E s \in Schedulers :
              /\ rpc[s] = "start" /\ rpc' = [rpc EXCEPT ![s] = "idle"] /\ mine' = [mine EXCEPT ![s] = 0]
              /\ worker' = worker
         \/ \E n \in Refresh!WorkerId :
              /\ worker[n] = "syncing" /\ worker' = [worker EXCEPT ![n] = "done"]
              /\ rpc' = rpc /\ mine' = mine
  PROVE  RefreshIInv'
<1>1. Refresh!NoLock.of = 0 /\ Refresh!NoLock.age = "none"
  BY DEF Refresh!NoLock
<1>2. RefreshTypeInv'
  BY <1>1 DEF RefreshIInv, RefreshTypeInv, Refresh!WorkersAssumption, Refresh!WorkerId
<1>3. ASSUME Refresh!Orderly' PROVE Held' /\ Owned' /\ Single'
  <2>1. RefreshTypeInv /\ Held /\ Owned /\ Single
    BY <1>3 DEF RefreshIInv, Refresh!Orderly
  <2>2. \A n \in Refresh!WorkerId : worker'[n] # "syncing"
    <3>1. ASSUME NEW s \in Schedulers, rpc[s] = "start", worker' = worker
          PROVE  \A n \in Refresh!WorkerId : worker'[n] # "syncing"
      BY <2>1, <3>1 DEF Held
    <3>2. ASSUME NEW n \in Refresh!WorkerId, worker[n] = "syncing", worker' = [worker EXCEPT ![n] = "done"]
          PROVE  \A k \in Refresh!WorkerId : worker'[k] # "syncing"
      <4>1. lock.of = n /\ \A k \in Refresh!WorkerId : worker[k] = "syncing" => lock.of = k
        BY <2>1, <3>2 DEF Held
      <4> QED BY <2>1, <3>2, <4>1 DEF RefreshTypeInv
    <3> QED BY <3>1, <3>2
  <2>3. \A s \in Schedulers : rpc'[s] # "start"
    <3>1. ASSUME NEW s \in Schedulers, rpc[s] = "start", rpc' = [rpc EXCEPT ![s] = "idle"]
          PROVE  \A t \in Schedulers : rpc'[t] # "start"
      BY <2>1, <3>1 DEF Held, RefreshTypeInv
    <3>2. ASSUME NEW n \in Refresh!WorkerId, worker[n] = "syncing", rpc' = rpc
          PROVE  \A t \in Schedulers : rpc'[t] # "start"
      BY <2>1, <3>2 DEF Held
    <3> QED BY <3>1, <3>2
  <2>4. Held'
    BY <2>2, <2>3 DEF Held
  <2>5. \A s \in Schedulers : rpc'[s] \in {"idle", rpc[s]}
    BY <2>1 DEF RefreshTypeInv
  <2>6. Owned'
    BY <1>1, <2>1, <2>5 DEF Owned
  <2>7. Single'
    <3>1. ASSUME NEW s \in Schedulers, rpc'[s] = "remove", ~roverlapped PROVE FALSE
      <4>1. rpc[s] = "remove" /\ lock.age = "stale"
        BY <2>1, <2>5, <3>1 DEF Single
      <4>2. \E n : lock = [of |-> n, age |-> "fresh"]
        BY <2>1 DEF Held
      <4> QED BY <4>1, <4>2
    <3> QED BY <2>1, <2>5, <3>1 DEF Single
  <2> QED BY <2>4, <2>6, <2>7
<1> QED BY <1>2, <1>3 DEF RefreshIInv

(* A kill leaves the lock behind. *)
LEMMA KilledKeeps ==
  ASSUME Refresh!WorkersAssumption, RefreshIInv,
         \/ \E s \in Schedulers : Refresh!SchedulerKilled(s)
         \/ \E n \in Refresh!WorkerId : Refresh!WorkerKilled(n)
  PROVE  RefreshIInv'
<1>1. /\ UNCHANGED <<lock, made, roverlapped, overran>> /\ kills' = kills + 1
      /\ \/ \E s \in Schedulers : /\ rpc' = [rpc EXCEPT ![s] = "idle"] /\ mine' = [mine EXCEPT ![s] = 0]
                                  /\ worker' = worker
         \/ \E n \in Refresh!WorkerId : worker' = [worker EXCEPT ![n] = "killed"] /\ worker[n] = "syncing"
                                /\ rpc' = rpc /\ mine' = mine
  BY DEF Refresh!SchedulerKilled, Refresh!WorkerKilled, Refresh!Goto
<1>2. RefreshTypeInv' /\ RefreshTypeInv
  <2>1. ASSUME NEW s \in Schedulers, rpc' = [rpc EXCEPT ![s] = "idle"], mine' = [mine EXCEPT ![s] = 0],
               worker' = worker
        PROVE  RefreshTypeInv'
    BY <1>1, <2>1 DEF RefreshIInv, RefreshTypeInv, Refresh!WorkersAssumption
  <2>2. ASSUME NEW n \in Refresh!WorkerId, worker' = [worker EXCEPT ![n] = "killed"], worker[n] = "syncing",
               rpc' = rpc, mine' = mine
        PROVE  RefreshTypeInv'
    BY <1>1, <2>2 DEF RefreshIInv, RefreshTypeInv, Refresh!WorkersAssumption
  <2> QED BY <1>1, <2>1, <2>2 DEF RefreshIInv
<1>3. /\ \A s \in Schedulers : rpc'[s] \in {"idle", rpc[s]} /\ (rpc'[s] # "idle" => mine'[s] = mine[s])
      /\ \A n \in Refresh!WorkerId : worker'[n] \in {worker[n], "killed"} /\ (worker'[n] # worker[n] => worker[n] = "syncing")
  BY <1>1, <1>2 DEF RefreshTypeInv
<1>4. ASSUME Refresh!Orderly' PROVE Held' /\ Owned' /\ Single'
  <2>1. Held /\ Single /\ kills' # 0
    BY <1>1, <1>2, <1>4 DEF RefreshIInv, Refresh!Orderly, RefreshTypeInv
  <2>2. \A s \in Schedulers : rpc'[s] = "start" => worker'[mine'[s]] = "none"
    <3> SUFFICES ASSUME NEW s \in Schedulers, rpc'[s] = "start" PROVE worker'[mine'[s]] = "none"
      OBVIOUS
    <3>1. rpc[s] = "start" /\ mine'[s] = mine[s] /\ mine[s] \in Refresh!WorkerId
      BY <1>2, <1>3 DEF RefreshTypeInv, Refresh!WorkerId, Refresh!WorkersAssumption
    <3>2. worker[mine[s]] = "none"
      BY <2>1, <3>1 DEF Held
    <3> QED BY <1>3, <3>1, <3>2
  <2>3. Held'
    BY <1>1, <1>3, <2>1, <2>2 DEF Held
  <2>4. Owned' /\ Single'
    BY <1>1, <1>3, <2>1 DEF Owned, Single
  <2> QED BY <2>3, <2>4
<1> QED BY <1>2, <1>4 DEF RefreshIInv

LEMMA LockAgesKeeps == Refresh!WorkersAssumption /\ RefreshIInv /\ Refresh!LockAges => RefreshIInv'
<1> SUFFICES ASSUME Refresh!WorkersAssumption, RefreshIInv, Refresh!LockAges PROVE RefreshIInv'
  OBVIOUS
<1>1. /\ lock.age = "fresh" /\ (\A s \in Schedulers : mine[s] # lock.of)
      /\ lock' = [lock EXCEPT !.age = "stale"]
      /\ overran' = (overran \/ worker[lock.of] = "syncing")
      /\ UNCHANGED <<rpc, mine, worker, made, kills, roverlapped>>
  BY DEF Refresh!LockAges
<1>2. RefreshTypeInv /\ lock # Refresh!NoLock
  BY <1>1, LockFields DEF RefreshIInv, Refresh!NoLock
<1>3. lock' \in Refresh!Lock /\ lock'.of = lock.of /\ lock'.age = "stale"
  BY <1>1, <1>2 DEF RefreshTypeInv, Refresh!Lock
<1>4. RefreshTypeInv'
  BY <1>1, <1>2, <1>3 DEF RefreshTypeInv
<1>5. ASSUME Refresh!Orderly' PROVE Held' /\ Owned' /\ Single'
  <2>1. Held /\ Owned /\ Single /\ worker[lock.of] # "syncing"
    BY <1>1, <1>5 DEF RefreshIInv, Refresh!Orderly
  <2>2. (\A n \in Refresh!WorkerId : worker[n] # "syncing") /\ \A s \in Schedulers : rpc[s] # "start"
    BY <1>1, <2>1 DEF Held
  <2>3. kills # 0
    BY <1>1, <1>2, <2>1 DEF Owned
  <2> QED BY <1>1, <1>3, <2>1, <2>2, <2>3 DEF Held, Owned, Single
<1> QED BY <1>4, <1>5 DEF RefreshIInv

LEMMA RefreshInvNext == Refresh!WorkersAssumption /\ RefreshIInv /\ [Refresh!Next]_(Refresh!vars) => RefreshIInv'
<1> SUFFICES ASSUME Refresh!WorkersAssumption, RefreshIInv, [Refresh!Next]_(Refresh!vars) PROVE RefreshIInv'
  OBVIOUS
<1>1. CASE UNCHANGED Refresh!vars
  BY <1>1 DEF Refresh!vars, RefreshIInv, RefreshTypeInv, Refresh!Orderly, Held, Owned, Single
<1>2. ASSUME NEW s \in Schedulers, Refresh!CreateLock(s) \/ Refresh!CreateFails(s) PROVE RefreshIInv'
  <2>1. CASE Refresh!CreateLock(s) /\ lock = Refresh!NoLock
    BY <2>1, CreateLockKeeps
  <2>2. CASE ~(Refresh!CreateLock(s) /\ lock = Refresh!NoLock)
    BY <1>2, <2>2, GivesUp DEF Refresh!CreateLock, Refresh!CreateFails, Refresh!Goto
  <2> QED BY <2>1, <2>2
<1>3. ASSUME NEW s \in Schedulers, Refresh!StartFails(s) PROVE RefreshIInv'
  BY <1>3, LockGoes DEF Refresh!StartFails, Refresh!Goto
<1>4. ASSUME NEW n \in Refresh!WorkerId, Refresh!WorkerEnds(n) PROVE RefreshIInv'
  BY <1>4, LockGoes DEF Refresh!WorkerEnds
<1>5. CASE Refresh!Next
  BY <1>2, <1>3, <1>4, <1>5, StatLockKeeps, RemoveStaleKeeps, StartWorkerKeeps, KilledKeeps, LockAgesKeeps
     DEF Refresh!Next
<1> QED BY <1>1, <1>5

-----------------------------------------------------------------------------
(* The governed turn.  The obligation moves: from the file to the copy of  *)
(* the hook that rewrites it, to what a stop has still to verify, and      *)
(* back; and a call's root is recorded before its tool runs.               *)

TurnTypeInv ==
  /\ turn \in Turn!Turn \cup {Turn!Truncated}
  /\ tpc \in [Turn!Hooks -> {"idle", "open", "write", "run", "verify"}]
  /\ tmem \in [Turn!Hooks -> Turn!Turn]
  /\ target \in [Tools -> Roots \cup {Turn!NoRoot}]
  /\ left \subseteq Roots
  /\ disturbed \in BOOLEAN
  /\ tpc[Turn!Recall] \in {"idle", "open", "write"} /\ tpc[Turn!Stop] \in {"idle", "verify", "open", "write"}

(* Hooks take turns. *)
TurnAlone == \A g, h \in Turn!Hooks : tpc[g] # "idle" /\ tpc[h] # "idle" => g = h

(* What the file owes, while no save is under way. *)
FileOwes == (\A h \in Turn!Hooks : tpc[h] # "write") => unsafe \ HomeRoots \subseteq Turn!loadGovernedTurn.roots
(* What a hook is about to save owes as much, its own call included. *)
CopyOwes ==
  \A h \in Turn!Hooks : tpc[h] \in {"open", "write"} =>
    /\ unsafe \ HomeRoots \subseteq tmem[h].roots
    /\ h \in Tools => {target[h]} \ HomeRoots \subseteq tmem[h].roots
(* A running tool changes a root that is recorded. *)
RunIsOwed ==
  \A t \in Tools : tpc[t] = "run" => {target[t]} \ HomeRoots \subseteq Turn!loadGovernedTurn.roots
(* What a stop has verified is safe. *)
LeftOwes == tpc[Turn!Stop] = "verify" => unsafe \ HomeRoots \subseteq left

Owed == TurnAlone /\ FileOwes /\ CopyOwes /\ RunIsOwed /\ LeftOwes
TurnIInv == TurnTypeInv /\ (~disturbed => Owed)

(* A turn is not a file cut short. *)
LEMMA TurnIsWhole == \A t \in Turn!Turn : t # Turn!Truncated
<1>1. "cut" \in DOMAIN Turn!Truncated
  BY DEF Turn!Truncated
<1>2. \A t \in Turn!Turn : "cut" \notin DOMAIN t
  BY DEF Turn!Turn
<1> QED BY <1>1, <1>2

LEMMA Loaded == TurnTypeInv => Turn!loadGovernedTurn \in Turn!Turn
BY DEF TurnTypeInv, Turn!loadGovernedTurn, Turn!Turn, Turn!Fresh

(* Changing a field of a turn. *)
LEMMA TurnFields ==
  ASSUME NEW t \in Turn!Turn, NEW R \in SUBSET Roots
  PROVE  /\ [t EXCEPT !.recalled = TRUE] \in Turn!Turn /\ [t EXCEPT !.recalled = TRUE].roots = t.roots
         /\ [t EXCEPT !.roots = R] \in Turn!Turn /\ [t EXCEPT !.roots = R].roots = R
BY DEF Turn!Turn

LEMMA TurnInitInv == Turn!Init => TurnIInv
<1> SUFFICES ASSUME Turn!Init PROVE TurnIInv
  OBVIOUS
<1>1. Turn!Fresh \in Turn!Turn /\ Turn!Fresh.roots = {}
  BY DEF Turn!Fresh, Turn!Turn
<1>2. TurnTypeInv
  BY <1>1 DEF Turn!Init, TurnTypeInv, Turn!Hooks
<1>3. Turn!loadGovernedTurn.roots = {}
  BY <1>1 DEF Turn!Init, Turn!loadGovernedTurn
<1>4. Owed
  BY <1>2, <1>3 DEF Turn!Init, Owed, TurnAlone, FileOwes, CopyOwes, RunIsOwed, LeftOwes, Turn!Hooks
<1> QED BY <1>2, <1>4 DEF TurnIInv

(* Steps keep the types. *)
LEMMA TurnNextTypes ==
  ASSUME Turn!ToolsAssumption
  PROVE  TurnTypeInv /\ [Turn!Next]_(Turn!vars) => TurnTypeInv'
<1> SUFFICES ASSUME TurnTypeInv, [Turn!Next]_(Turn!vars) PROVE TurnTypeInv'
  OBVIOUS
<1>0. Turn!Recall \in Turn!Hooks /\ Turn!Stop \in Turn!Hooks /\ Tools \subseteq Turn!Hooks /\ Turn!Recall # Turn!Stop /\ Turn!Fresh \in Turn!Turn
  BY DEF Turn!Hooks, Turn!Recall, Turn!Stop, Turn!Fresh, Turn!Turn
<1> USE DEF Turn!ToolsAssumption, TurnTypeInv
<1>1. CASE Turn!markGovernedRecall
  <2>1. [Turn!loadGovernedTurn EXCEPT !.recalled = TRUE] \in Turn!Turn
    BY Loaded, TurnFields
  <2> QED BY <1>0, <1>1, <2>1 DEF Turn!markGovernedRecall, Turn!Start, Turn!Hold, Turn!Goto
<1>2. ASSUME NEW t \in Tools, Turn!markGovernedMutation(t) PROVE TurnTypeInv'
  <2> PICK r \in Roots :
         /\ Turn!Start(t) /\ target' = [target EXCEPT ![t] = r]
         /\ Turn!Hold(t, [Turn!loadGovernedTurn EXCEPT !.roots = @ \cup Turn!mutationRoots(r)])
         /\ Turn!Goto(t, "open") /\ UNCHANGED <<turn, left, unsafe, tfaults>>
    BY <1>2 DEF Turn!markGovernedMutation
  <2>1. [Turn!loadGovernedTurn EXCEPT !.roots = @ \cup Turn!mutationRoots(r)] \in Turn!Turn
    <3>1. Turn!loadGovernedTurn.roots \cup Turn!mutationRoots(r) \in SUBSET Roots
      BY Loaded DEF Turn!Turn, Turn!mutationRoots
    <3> QED BY <3>1, Loaded, TurnFields
  <2> QED BY <1>0, <2>1 DEF Turn!Start, Turn!Hold, Turn!Goto
<1>3. ASSUME NEW t \in Tools, Turn!ToolRun(t) PROVE TurnTypeInv'
  BY <1>0, <1>3 DEF Turn!ToolRun, Turn!End, Turn!Goto, Turn!Hold
<1>4. ASSUME NEW h \in Turn!Hooks, Turn!OpenFile(h) PROVE TurnTypeInv'
  BY <1>0, <1>4 DEF Turn!OpenFile, Turn!Goto
<1>5. ASSUME NEW h \in Turn!Hooks, Turn!WriteFile(h) PROVE TurnTypeInv'
  BY <1>0, <1>5 DEF Turn!WriteFile, Turn!End, Turn!Goto, Turn!Hold
<1>6. ASSUME NEW h \in Turn!Hooks, Turn!SaveFails(h) PROVE TurnTypeInv'
  BY <1>0, <1>6 DEF Turn!SaveFails, Turn!End, Turn!Goto, Turn!Hold
<1>7. ASSUME NEW h \in Turn!Hooks, Turn!Crash(h) PROVE TurnTypeInv'
  BY <1>0, <1>7 DEF Turn!Crash, Turn!End, Turn!Goto, Turn!Hold
<1>8. CASE Turn!StopLoad
  <2>1. Turn!loadGovernedTurn.roots \subseteq Roots
    BY Loaded DEF Turn!Turn
  <2> QED BY <1>0, <1>8, <2>1, Loaded DEF Turn!StopLoad, Turn!Start, Turn!Hold, Turn!Goto
<1>9. ASSUME NEW r \in Roots, Turn!StopVerify(r) PROVE TurnTypeInv'
  BY <1>0, <1>9 DEF Turn!StopVerify, Turn!End, Turn!Goto, Turn!Hold
<1>10. CASE Turn!StopClear
  <2>1. [tmem[Turn!Stop] EXCEPT !.roots = {}] \in Turn!Turn
    BY <1>0, TurnFields
  <2> QED BY <1>0, <1>10, <2>1 DEF Turn!StopClear, Turn!Hold, Turn!Goto
<1>11. CASE UNCHANGED Turn!vars
  BY <1>11 DEF Turn!vars
<1> QED BY <1>1, <1>2, <1>3, <1>4, <1>5, <1>6, <1>7, <1>8, <1>9, <1>10, <1>11 DEF Turn!Next

(* A hook that starts finds the others at rest, or the turn is disturbed;  *)
(* then the file owes everything.                                          *)
LEMMA StartAlone ==
  ASSUME TurnIInv, NEW h \in Turn!Hooks, Turn!Start(h), ~disturbed'
  PROVE  /\ \A g \in Turn!Hooks : tpc[g] = "idle"
         /\ Owed
         /\ unsafe \ HomeRoots \subseteq Turn!loadGovernedTurn.roots
<1>1. ~disturbed /\ \A g \in Turn!Hooks : tpc[g] = "idle"
  BY DEF Turn!Start, TurnIInv, TurnTypeInv
<1> QED BY <1>1 DEF TurnIInv, Owed, FileOwes

LEMMA TurnNextOwes ==
  ASSUME Turn!ToolsAssumption
  PROVE  TurnIInv /\ TurnTypeInv' /\ [Turn!Next]_(Turn!vars) /\ ~disturbed' => Owed'
<1> SUFFICES ASSUME TurnIInv, TurnTypeInv', [Turn!Next]_(Turn!vars), ~disturbed' PROVE Owed'
  OBVIOUS
<1>0. Turn!Recall \in Turn!Hooks /\ Turn!Stop \in Turn!Hooks /\ Tools \subseteq Turn!Hooks /\ Turn!Recall # Turn!Stop
      /\ Turn!Recall \notin Tools /\ Turn!Stop \notin Tools
  BY DEF Turn!ToolsAssumption, Turn!Hooks, Turn!Recall, Turn!Stop
<1>t. TurnTypeInv
  BY DEF TurnIInv
<1>1. CASE Turn!markGovernedRecall
  <2>1. (\A g \in Turn!Hooks : tpc[g] = "idle") /\ unsafe \ HomeRoots \subseteq Turn!loadGovernedTurn.roots
    BY <1>0, <1>1, StartAlone DEF Turn!markGovernedRecall
  <2>2. /\ tpc' = [tpc EXCEPT ![Turn!Recall] = "open"] /\ turn' = turn /\ unsafe' = unsafe
        /\ tmem' = [tmem EXCEPT ![Turn!Recall] = [Turn!loadGovernedTurn EXCEPT !.recalled = TRUE]]
    BY <1>1 DEF Turn!markGovernedRecall, Turn!Goto, Turn!Hold
  <2>3. tmem'[Turn!Recall].roots = Turn!loadGovernedTurn.roots
    BY <1>0, <1>t, <2>2, Loaded, TurnFields DEF TurnTypeInv
  <2>4. \A g \in Turn!Hooks : tpc'[g] = IF g = Turn!Recall THEN "open" ELSE "idle"
    BY <1>0, <1>t, <2>1, <2>2 DEF TurnTypeInv
  <2> QED BY <1>0, <2>1, <2>2, <2>3, <2>4
       DEF Owed, TurnAlone, FileOwes, CopyOwes, RunIsOwed, LeftOwes, Turn!loadGovernedTurn
<1>2. ASSUME NEW t \in Tools, Turn!markGovernedMutation(t) PROVE Owed'
  <2> PICK r \in Roots :
         /\ Turn!Start(t) /\ target' = [target EXCEPT ![t] = r]
         /\ Turn!Hold(t, [Turn!loadGovernedTurn EXCEPT !.roots = @ \cup Turn!mutationRoots(r)])
         /\ Turn!Goto(t, "open") /\ UNCHANGED <<turn, left, unsafe, tfaults>>
    BY <1>2 DEF Turn!markGovernedMutation
  <2>1. (\A g \in Turn!Hooks : tpc[g] = "idle") /\ unsafe \ HomeRoots \subseteq Turn!loadGovernedTurn.roots
    BY <1>0, StartAlone
  <2>2. tmem'[t].roots = Turn!loadGovernedTurn.roots \cup ({r} \ HomeRoots)
    <3>1. Turn!loadGovernedTurn.roots \cup Turn!mutationRoots(r) \in SUBSET Roots
      BY <1>t, Loaded DEF Turn!Turn, Turn!mutationRoots
    <3>2. tmem'[t] = [Turn!loadGovernedTurn EXCEPT !.roots = @ \cup Turn!mutationRoots(r)]
      BY <1>0, <1>t DEF Turn!Hold, TurnTypeInv
    <3> QED BY <1>t, <3>1, <3>2, Loaded, TurnFields DEF Turn!mutationRoots
  <2>3. \A g \in Turn!Hooks : tpc'[g] = IF g = t THEN "open" ELSE "idle"
    BY <1>0, <1>t, <2>1 DEF Turn!Goto, TurnTypeInv
  <2>4. target'[t] = r
    BY <1>t DEF TurnTypeInv
  <2> QED BY <1>0, <2>1, <2>2, <2>3, <2>4
       DEF Owed, TurnAlone, FileOwes, CopyOwes, RunIsOwed, LeftOwes, Turn!loadGovernedTurn
<1>3. ASSUME disturbed' = disturbed PROVE Owed
  BY <1>3 DEF TurnIInv
<1>4. ASSUME NEW t \in Tools, Turn!ToolRun(t) PROVE Owed'
  <2>1. /\ tpc[t] = "run" /\ turn' = turn /\ Owed /\ tpc' = [tpc EXCEPT ![t] = "idle"]
        /\ (unsafe' = unsafe \cup {target[t]} \/ unsafe' = unsafe \ {target[t]})
    BY <1>3, <1>4 DEF Turn!ToolRun, Turn!End, Turn!Goto
  <2>2. \A g \in Turn!Hooks : tpc'[g] = "idle"
    BY <1>0, <1>t, <2>1 DEF Owed, TurnAlone, TurnTypeInv
  <2>3. \A g \in Turn!Hooks : tpc[g] # "write"
    BY <1>0, <1>t, <2>1 DEF Owed, TurnAlone, TurnTypeInv
  <2>4. /\ unsafe \ HomeRoots \subseteq Turn!loadGovernedTurn.roots
        /\ {target[t]} \ HomeRoots \subseteq Turn!loadGovernedTurn.roots
    BY <2>1, <2>3 DEF Owed, FileOwes, RunIsOwed
  <2> QED BY <1>0, <2>1, <2>2, <2>4
       DEF Owed, TurnAlone, FileOwes, CopyOwes, RunIsOwed, LeftOwes, Turn!loadGovernedTurn
<1>5. ASSUME NEW h \in Turn!Hooks, Turn!OpenFile(h) PROVE Owed'
  <2>1. /\ tpc[h] = "open" /\ Owed /\ tpc' = [tpc EXCEPT ![h] = "write"] /\ tmem' = tmem
        /\ target' = target /\ unsafe' = unsafe
    BY <1>3, <1>5 DEF Turn!OpenFile, Turn!Goto
  <2>2. \A g \in Turn!Hooks : tpc'[g] = IF g = h THEN "write" ELSE "idle"
    BY <1>0, <1>t, <2>1 DEF Owed, TurnAlone, TurnTypeInv
  <2> QED BY <1>0, <2>1, <2>2 DEF Owed, TurnAlone, FileOwes, CopyOwes, RunIsOwed, LeftOwes
<1>6. ASSUME NEW h \in Turn!Hooks, Turn!WriteFile(h) PROVE Owed'
  <2>1. tpc[h] = "write" /\ Owed /\ turn' = tmem[h] /\ unsafe' = unsafe
    BY <1>3, <1>6 DEF Turn!WriteFile
  <2>2. Turn!loadGovernedTurn' = tmem[h]
    BY <1>t, <2>1, TurnIsWhole DEF Turn!loadGovernedTurn, TurnTypeInv
  <2>3. /\ unsafe \ HomeRoots \subseteq tmem[h].roots
        /\ h \in Tools => {target[h]} \ HomeRoots \subseteq tmem[h].roots
    BY <2>1 DEF Owed, CopyOwes
  <2>4. CASE h \in Tools
    <3>1. tpc' = [tpc EXCEPT ![h] = "run"] /\ target' = target
      BY <1>6, <2>4 DEF Turn!WriteFile, Turn!Goto
    <3>2. \A g \in Turn!Hooks : tpc'[g] = IF g = h THEN "run" ELSE "idle"
      BY <1>0, <1>t, <2>1, <3>1 DEF Owed, TurnAlone, TurnTypeInv
    <3> QED BY <1>0, <2>1, <2>2, <2>3, <2>4, <3>1, <3>2
         DEF Owed, TurnAlone, FileOwes, CopyOwes, RunIsOwed, LeftOwes
  <2>5. CASE h \notin Tools
    <3>1. \A g \in Turn!Hooks : tpc'[g] = "idle"
      BY <1>0, <1>6, <1>t, <2>1, <2>5 DEF Turn!WriteFile, Turn!End, Turn!Goto, Owed, TurnAlone, TurnTypeInv
    <3> QED BY <1>0, <2>1, <2>2, <2>3, <3>1
         DEF Owed, TurnAlone, FileOwes, CopyOwes, RunIsOwed, LeftOwes
  <2> QED BY <2>4, <2>5
(* A hook that ends without having touched the file leaves it owing all. *)
<1>7. ASSUME NEW h \in Turn!Hooks, tpc[h] \in {"open", "verify"}, Turn!End(h), Owed, turn' = turn, unsafe' = unsafe
      PROVE  Owed'
  <2>1. \A g \in Turn!Hooks : tpc'[g] = "idle" /\ tpc[g] # "write"
    BY <1>7, <1>t DEF Turn!End, Turn!Goto, Owed, TurnAlone, TurnTypeInv
  <2> QED BY <1>0, <1>7, <2>1
       DEF Owed, TurnAlone, FileOwes, CopyOwes, RunIsOwed, LeftOwes, Turn!loadGovernedTurn
<1>8. ASSUME NEW h \in Turn!Hooks, Turn!SaveFails(h) PROVE Owed'
  BY <1>3, <1>7, <1>8 DEF Turn!SaveFails
<1>9. ASSUME NEW h \in Turn!Hooks, Turn!Crash(h) PROVE Owed'
  <2>1. /\ tpc[h] \in {"open", "write", "verify"} /\ turn' = turn /\ unsafe' = unsafe /\ Turn!End(h)
        /\ disturbed' = (disturbed \/ tpc[h] = "write")
    BY <1>9 DEF Turn!Crash
  <2>2. ~disturbed /\ tpc[h] # "write"
    BY <1>t, <2>1 DEF TurnTypeInv
  <2> QED BY <1>7, <2>1, <2>2 DEF TurnIInv
<1>10. CASE Turn!StopLoad
  <2>1. (\A g \in Turn!Hooks : tpc[g] = "idle") /\ unsafe \ HomeRoots \subseteq Turn!loadGovernedTurn.roots
    BY <1>0, <1>10, StartAlone DEF Turn!StopLoad
  <2>2. /\ tpc' = [tpc EXCEPT ![Turn!Stop] = "verify"] /\ turn' = turn /\ unsafe' = unsafe
        /\ left' = Turn!loadGovernedTurn.roots \ HomeRoots
    BY <1>10 DEF Turn!StopLoad, Turn!Goto
  <2>3. \A g \in Turn!Hooks : tpc'[g] = IF g = Turn!Stop THEN "verify" ELSE "idle"
    BY <1>0, <1>t, <2>1, <2>2 DEF TurnTypeInv
  <2> QED BY <1>0, <2>1, <2>2, <2>3
       DEF Owed, TurnAlone, FileOwes, CopyOwes, RunIsOwed, LeftOwes, Turn!loadGovernedTurn
<1>11. ASSUME NEW r \in Roots, Turn!StopVerify(r) PROVE Owed'
  <2>1. tpc[Turn!Stop] = "verify" /\ r \in left /\ turn' = turn /\ unsafe' = unsafe /\ Owed
    BY <1>3, <1>11 DEF Turn!StopVerify
  <2>2. CASE r \in unsafe
    BY <1>0, <1>7, <1>11, <2>1, <2>2 DEF Turn!StopVerify
  <2>3. CASE r \notin unsafe
    <3>1. left' = left \ {r} /\ tpc' = tpc /\ tmem' = tmem /\ target' = target
      BY <1>11, <2>3 DEF Turn!StopVerify
    <3> QED BY <2>1, <2>3, <3>1
         DEF Owed, TurnAlone, FileOwes, CopyOwes, RunIsOwed, LeftOwes, Turn!loadGovernedTurn
  <2> QED BY <2>2, <2>3
<1>12. CASE Turn!StopClear
  <2>1. /\ tpc[Turn!Stop] = "verify" /\ left = {} /\ turn' = turn /\ unsafe' = unsafe /\ Owed
        /\ tpc' = [tpc EXCEPT ![Turn!Stop] = "open"]
    BY <1>3, <1>12 DEF Turn!StopClear, Turn!Goto
  <2>2. \A g \in Turn!Hooks : tpc'[g] = IF g = Turn!Stop THEN "open" ELSE "idle"
    BY <1>0, <1>t, <2>1 DEF Owed, TurnAlone, TurnTypeInv
  <2>3. unsafe \ HomeRoots = {}
    BY <2>1 DEF Owed, LeftOwes
  <2> QED BY <1>0, <2>1, <2>2, <2>3
       DEF Owed, TurnAlone, FileOwes, CopyOwes, RunIsOwed, LeftOwes, Turn!loadGovernedTurn
<1>13. CASE UNCHANGED Turn!vars
  <2>1. Owed
    BY <1>3, <1>13 DEF Turn!vars
  <2> QED BY <1>13, <2>1 DEF Turn!vars, Owed, TurnAlone, FileOwes, CopyOwes, RunIsOwed, LeftOwes, Turn!loadGovernedTurn
<1> QED BY <1>1, <1>2, <1>4, <1>5, <1>6, <1>8, <1>9, <1>10, <1>11, <1>12, <1>13 DEF Turn!Next

-----------------------------------------------------------------------------
(* A step of the whole is a step of each part or leaves it alone. *)
LEMMA PartsStep ==
  ASSUME [Next]_vars
  PROVE  [Override!Next]_(Override!vars) /\ [Refresh!Next]_(Refresh!vars) /\ [Turn!Next]_(Turn!vars)
BY DEF Next, OverrideStep, OfRefresh, TurnStep, vars, overrideVars, refreshVars, turnVars,
       Override!vars, Refresh!vars, Turn!vars

(* cmd_override.go, consumeOverride: while processes take turns, a grant   *)
(* lets no more calls through than it has uses and saves that failed.      *)
THEOREM OveruseIsBounded == Spec => []OveruseIsPerFault
<1>1. Init => OverrideIInv
  BY HookFilesAssumption, OverrideInitInv DEF Init
<1>2. OverrideIInv /\ [Next]_vars => OverrideIInv'
  BY HookFilesAssumption, OverrideInvNext, PartsStep
<1>3. OverrideIInv => OveruseIsPerFault
  BY DEF OverrideIInv, Paid, RanPays, OveruseIsPerFault, Override!OveruseIsPerFault
<1> QED BY <1>1, <1>2, <1>3, PTL DEF Spec

(* map_refresh.go:26-27: at most one worker synchronises the map at a      *)
(* time, while none is late and no two sessions take over one stale lock.  *)
THEOREM OneWorkerSyncs == Spec => []OneWorker
<1>1. Init => RefreshIInv
  BY HookFilesAssumption, RefreshInitInv DEF Init
<1>2. RefreshIInv /\ [Next]_vars => RefreshIInv'
  BY HookFilesAssumption, RefreshInvNext, PartsStep
<1>3. RefreshIInv => OneWorker
  <2>1. RefreshIInv => \A n \in Refresh!WorkerId : Refresh!Orderly /\ worker[n] = "syncing" => n = lock.of
    BY DEF RefreshIInv, Held
  <2> QED BY <2>1 DEF OneWorker, Refresh!OneWorker
<1> QED BY <1>1, <1>2, <1>3, PTL DEF Spec

(* cmd_governed_turn.go:52-57, 107-129: while hooks take turns and none is *)
(* killed in the middle of a save, what would fail verification is owed.   *)
THEOREM NothingIsDropped == Spec => []UnsafeIsOwed
<1>1. Init => TurnIInv
  BY TurnInitInv DEF Init
<1>2. TurnIInv /\ [Next]_vars => TurnIInv'
  BY HookFilesAssumption, PartsStep, TurnNextTypes, TurnNextOwes DEF TurnIInv
<1>3. TurnIInv => UnsafeIsOwed
  BY DEF TurnIInv, Owed, FileOwes, UnsafeIsOwed, Turn!UnsafeIsOwed
<1> QED BY <1>1, <1>2, <1>3, PTL DEF Spec
=============================================================================
