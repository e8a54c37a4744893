----------------------- MODULE RgbChannelDanceProofs --------------------------
(*****************************************************************************)
(* Every step of an open RGB channel keeps the two nodes in step, whatever   *)
(* is lost, delayed or held back. The nodes act on the relations of          *)
(* RgbChannelDance one action at a time; what follows is that a payment is   *)
(* handed to the payee only when every commitment that can confirm pays      *)
(* it, and reported as failed only when none does.                           *)
(*****************************************************************************)
EXTENDS RgbChannelDance

-----------------------------------------------------------------------------
(* A node that builds a commitment.                                        *)

\* All but the HTLCs, ids and holding cell.
SameTurn(c, e) ==
    /\ (e.awaitRaa <=> c.awaitRaa) /\ (e.monBusy <=> c.monBusy) /\ (e.disc <=> c.disc) /\ e.order = c.order
    /\ (e.pendRaa <=> c.pendRaa) /\ (e.pendCs <=> c.pendCs)
    /\ e.holderNum = c.holderNum /\ e.cpNum = c.cpNum /\ e.toSelf = c.toSelf
    /\ (e.localShut <=> c.localShut) /\ (e.remoteShut <=> c.remoteShut) /\ (e.expCs <=> c.expCs)
    /\ e.feeSent = c.feeSent /\ e.pendClosing = c.pendClosing

\* HTLCs placed and resolved before a commitment is built; A: the payments that may be placed.
SetOff(c, e, A) ==
    /\ \A p \in Payments : OutSt(e, p) = OutSt(c, p) \/ (p \in A /\ NewOut(c, e, p))
    /\ \A p \in Payments : \/ InSt(e, p) = InSt(c, p)
                           \/ InSt(c, p) = "Committed" /\ InSt(e, p) = "LocalRemoved"
    /\ IdsKept(c, e) /\ e.nextCpId = c.nextCpId /\ e.txs = c.txs
    /\ e.pendAdds = c.pendAdds /\ e.pendFails = c.pendFails

\* HTLCs moved on by a commitment that is built.
Promoted(e, f) ==
    /\ \A p \in Payments : OutSt(f, p) = OutBuilt(OutSt(e, p)) /\ InSt(f, p) = InBuilt(InSt(e, p))
    /\ \A p \in Payments : OutSt(e, p) # "none" => OutId(f, p) = OutId(e, p)
    /\ \A p \in Payments : InSt(e, p) # "none" => InId(f, p) = InId(e, p)
    /\ f.nextId = e.nextId /\ f.nextCpId = e.nextCpId /\ f.txs = e.txs
    /\ f.pendAdds = e.pendAdds /\ f.pendFails = e.pendFails

\* Nothing is placed or resolved.
LEMMA SetOffSelf ==
    ASSUME NEW c, NEW e, SameHtlcs(c, e), e.pendAdds = c.pendAdds, e.pendFails = c.pendFails, c.nextId \in Nat, NEW A
    PROVE  SetOff(c, e, A)
  <1>1. SameView(c, e)
    BY SameHtlcsView
  <1> QED
    BY <1>1 DEF SetOff, SameView

\* HTLCs are placed and resolved one after the other.
LEMMA SetOffAgain ==
    ASSUME NEW c, NEW e, NEW g, NEW A, NEW B, SetOff(c, e, A), SetOff(e, g, B), A \subseteq B,
           c.nextId \in Nat, e.nextId \in Nat, g.nextId \in Nat
    PROVE  SetOff(c, g, B)
  <1> USE DEF SetOff
  <1>1. ASSUME NEW p \in Payments, NewOut(c, e, p)
        PROVE  NewOut(c, g, p) /\ OutId(g, p) = OutId(e, p) /\ OutSt(g, p) = OutSt(e, p)
    <2>1. OutSt(e, p) # "none"
      BY <1>1 DEF NewOut
    <2>2. OutSt(g, p) = OutSt(e, p)
      BY <2>1 DEF NewOut
    <2>3. OutId(g, p) = OutId(e, p)
      BY <2>1, <2>2 DEF IdsKept
    <2> QED
      BY <1>1, <2>2, <2>3 DEF NewOut, IdsKept
  <1>2. ASSUME NEW p \in Payments, NewOut(e, g, p)
        PROVE  NewOut(c, g, p)
    <2>1. OutSt(e, p) = "none" /\ ~NewOut(c, e, p)
      BY <1>2 DEF NewOut
    <2>2. OutSt(c, p) = "none"
      BY <2>1
    <2> QED
      BY <1>2, <2>2 DEF NewOut, IdsKept
  <1>3. \A p \in Payments : OutSt(g, p) = OutSt(c, p) \/ (p \in B /\ NewOut(c, g, p))
    BY <1>1, <1>2
  <1>4. \A p \in Payments : \/ InSt(g, p) = InSt(c, p)
                            \/ InSt(c, p) = "Committed" /\ InSt(g, p) = "LocalRemoved"
    OBVIOUS
  <1>5. IdsKept(c, g)
    <2>1. ASSUME NEW p \in Payments, OutSt(c, p) # "none", OutSt(g, p) # "none"
          PROVE  OutId(g, p) = OutId(c, p)
      <3>1. OutSt(e, p) = OutSt(c, p)
        BY <2>1 DEF NewOut
      <3> QED
        BY <2>1, <3>1 DEF IdsKept
    <2>2. ASSUME NEW p \in Payments, InSt(c, p) # "none", InSt(g, p) # "none"
          PROVE  InId(g, p) = InId(c, p)
      <3>1. InSt(e, p) # "none"
        BY <2>2
      <3> QED
        BY <2>2, <3>1 DEF IdsKept
    <2>3. c.nextId <= g.nextId
      BY DEF IdsKept
    <2>4. ASSUME NEW i \in c.nextId .. g.nextId - 1
          PROVE  \E p \in Payments : NewOut(c, g, p) /\ OutId(g, p) = i
      <3>1. CASE i < e.nextId
        <4>1. PICK p \in Payments : NewOut(c, e, p) /\ OutId(e, p) = i
          BY <3>1 DEF IdsKept
        <4> QED
          BY <4>1, <1>1
      <3>2. CASE i >= e.nextId
        <4>1. PICK p \in Payments : NewOut(e, g, p) /\ OutId(g, p) = i
          BY <3>2 DEF IdsKept
        <4> QED
          BY <4>1, <1>2
      <3> QED
        BY <3>1, <3>2
    <2> QED
      BY <2>1, <2>2, <2>3, <2>4 DEF IdsKept
  <1> QED
    BY <1>3, <1>4, <1>5

\* What BuildAndPause leaves behind.
BuiltFrom(e, f) ==
    /\ f.inb = Promote(e.inb, "AwaitingRemoteRevokeToAnnounce", "AwaitingAnnouncedRemoteRevoke")
    /\ f.out = Promote(e.out, "AwaitingRemoteRevokeToRemove", "AwaitingRemovedRemoteRevoke")
    /\ f.order = "RevokeAndACKFirst" /\ f.awaitRaa = TRUE /\ f.monBusy = TRUE /\ f.pendCs = TRUE
    /\ (f.pendRaa <=> e.pendRaa) /\ (f.disc <=> e.disc)
    /\ f.holderNum = e.holderNum /\ f.cpNum = e.cpNum /\ f.nextId = e.nextId /\ f.nextCpId = e.nextCpId
    /\ f.txs = e.txs /\ f.cell = e.cell /\ f.pendAdds = e.pendAdds /\ f.pendFails = e.pendFails
    /\ f.toSelf = e.toSelf /\ (f.localShut <=> e.localShut) /\ (f.remoteShut <=> e.remoteShut)
    /\ f.feeSent = e.feeSent /\ f.pendClosing = e.pendClosing /\ (f.expCs <=> e.expCs)
    /\ f.fate \in {e.fate, "assert"}

\* The fields of a channel after BuildAndPause.
LEMMA BuiltFields ==
    ASSUME NEW n, NEW e \in Channel
    PROVE  BuiltFrom(e, BuildAndPause(n, e))
  BY DEF BuiltFrom, BuildAndPause, build_commitment_no_status_check, monitor_updating_paused, Ends, Channel

\* The view of HTLCs moved on by a commitment that is built.
LEMMA HtlcsPromoted ==
    ASSUME NEW e \in Channel, Held(e), NEW f,
           f.inb = Promote(e.inb, "AwaitingRemoteRevokeToAnnounce", "AwaitingAnnouncedRemoteRevoke"),
           f.out = Promote(e.out, "AwaitingRemoteRevokeToRemove", "AwaitingRemovedRemoteRevoke"),
           f.nextId = e.nextId, f.nextCpId = e.nextCpId, f.txs = e.txs,
           f.pendAdds = e.pendAdds, f.pendFails = e.pendFails
    PROVE  Promoted(e, f)
  <1>1. Viewed(e.inb) /\ Viewed(e.out) /\ e.inb \subseteq InHtlcs /\ e.out \subseteq OutHtlcs
    BY DEF Held, Channel
  <1>2. \A p : /\ InSt(e, p) = "none" <=> InSt(f, p) = "none"
               /\ InSt(e, p) # "none" =>
                    /\ InSt(f, p) = IF InSt(e, p) = "AwaitingRemoteRevokeToAnnounce" THEN "AwaitingAnnouncedRemoteRevoke" ELSE InSt(e, p)
                    /\ InId(f, p) = InId(e, p)
    BY <1>1, PromoteView DEF InSt, InId
  <1>3. \A p : /\ OutSt(e, p) = "none" <=> OutSt(f, p) = "none"
               /\ OutSt(e, p) # "none" =>
                    /\ OutSt(f, p) = IF OutSt(e, p) = "AwaitingRemoteRevokeToRemove" THEN "AwaitingRemovedRemoteRevoke" ELSE OutSt(e, p)
                    /\ OutId(f, p) = OutId(e, p)
    BY <1>1, PromoteView DEF OutSt, OutId
  <1> QED
    BY <1>2, <1>3 DEF Promoted, OutBuilt, InBuilt

\* A commitment built after HTLCs were placed and resolved.
LEMMA BuildsAfter ==
    ASSUME NEW n, NEW c, NEW e \in Channel, Held(e), NEW A, SetOff(c, e, A), SameTurn(c, e),
           can_generate_new_commitment(c), NEW f, f = BuildAndPause(n, e),
           c.nextId \in Nat
    PROVE  Builds(c, f) /\ BuildView(c, f) /\ Promoted(e, f)
  <1>0. BuiltFrom(e, f)
    BY BuiltFields
  <1>1. Builds(c, f)
    BY <1>0 DEF BuiltFrom, Builds, can_generate_new_commitment, SameTurn, RaaFirst
  <1>2. Promoted(e, f)
    BY <1>0, HtlcsPromoted DEF BuiltFrom
  <1>3. e.nextId \in Nat
    BY DEF Channel
  <1> HIDE DEF BuildAndPause
  <1>4. ASSUME NEW p \in Payments, NewOut(c, e, p)
        PROVE  NewOut(c, f, p) /\ OutId(f, p) = OutId(e, p)
    BY <1>2, <1>3, <1>4 DEF NewOut, Promoted, OutBuilt
  <1>5. \A p \in Payments : OutSt(f, p) = OutBuilt(OutSt(c, p)) \/ NewOut(c, f, p)
    BY <1>4, <1>2 DEF SetOff, Promoted
  <1>6. \A p \in Payments : \/ InSt(f, p) = InBuilt(InSt(c, p))
                            \/ InSt(c, p) = "Committed" /\ InSt(f, p) = "LocalRemoved"
    BY <1>2 DEF SetOff, Promoted, InBuilt
  <1>7. IdsKept(c, f)
    <2>1. ASSUME NEW p \in Payments, OutSt(c, p) # "none", OutSt(f, p) # "none"
          PROVE  OutId(f, p) = OutId(c, p)
      <3>1. OutSt(e, p) = OutSt(c, p)
        BY <2>1 DEF NewOut, SetOff
      <3> QED
        BY <2>1, <3>1, <1>2 DEF IdsKept, SetOff, Promoted
    <2>2. ASSUME NEW p \in Payments, InSt(c, p) # "none", InSt(f, p) # "none"
          PROVE  InId(f, p) = InId(c, p)
      <3>1. InSt(e, p) # "none"
        BY <2>2 DEF SetOff
      <3> QED
        BY <2>2, <3>1, <1>2 DEF IdsKept, SetOff, Promoted
    <2>3. c.nextId <= f.nextId
      BY <1>2 DEF IdsKept, SetOff, Promoted
    <2>4. ASSUME NEW i \in c.nextId .. f.nextId - 1
          PROVE  \E p \in Payments : NewOut(c, f, p) /\ OutId(f, p) = i
      <3>1. PICK p \in Payments : NewOut(c, e, p) /\ OutId(e, p) = i
        BY <1>2 DEF IdsKept, SetOff, Promoted
      <3> QED
        BY <3>1, <1>4
    <2> QED
      BY <2>1, <2>2, <2>3, <2>4 DEF IdsKept
  <1>8. f.nextCpId = c.nextCpId /\ f.txs = c.txs
    BY <1>2 DEF SetOff, Promoted
  <1> QED
    BY <1>1, <1>2, <1>5, <1>6, <1>7, <1>8 DEF BuildView

-----------------------------------------------------------------------------
(* Updates that set off a commitment.                                      *)

\* An HTLC is placed.
LEMMA PlaceSetsOff ==
    ASSUME NEW c \in Channel, Held(c), NEW p \in Payments, OutSt(c, p) = "none",
           can_generate_new_commitment(c), NEW e, e = PlaceHtlc(c, p)
    PROVE  /\ e \in Channel /\ Held(e) /\ SetOff(c, e, {p}) /\ SameTurn(c, e)
           /\ NewOut(c, e, p) /\ e.cell = c.cell /\ e.fate = c.fate /\ e.inb = c.inb
  <1> DEFINE g == [id |-> c.nextId, pay |-> p, st |-> "LocalAnnounced", out |-> "none"]
  <1>1. e = [c EXCEPT !.out = @ \cup {g}, !.nextId = @ + 1]
    BY DEF PlaceHtlc
  <1>2. g \in OutHtlcs /\ g.pay = p /\ g.st = "LocalAnnounced" /\ g.id = c.nextId
    BY DEF OutHtlcs, OutStates, Outcomes, Channel
  <1>3. /\ e \in Channel /\ e.out = c.out \cup {g} /\ e.nextId = c.nextId + 1 /\ e.inb = c.inb
        /\ e.nextCpId = c.nextCpId /\ e.txs = c.txs /\ e.pendAdds = c.pendAdds /\ e.pendFails = c.pendFails
        /\ e.cell = c.cell /\ e.fate = c.fate /\ SameTurn(c, e)
    <2> HIDE DEF g
    <2>1. c.out \cup {g} \in SUBSET OutHtlcs /\ c.nextId + 1 \in Nat
      BY <1>2 DEF Channel
    <2>2. e \in Channel
      BY <1>1, <2>1 DEF Channel
    <2>3. SameTurn(c, e)
      BY <1>1 DEF Channel, SameTurn
    <2> QED
      BY <1>1, <2>2, <2>3 DEF Channel
  <1> HIDE DEF g
  <1>4. /\ Viewed(e.out) /\ OutSt(e, p) = "LocalAnnounced" /\ OutId(e, p) = c.nextId
        /\ \A o : o # p => /\ OutSt(e, o) = OutSt(c, o)
                           /\ OutSt(c, o) # "none" => OutId(e, o) = OutId(c, o)
    BY <1>2, <1>3, InsertView DEF Held, OutSt, OutId
  <1>5. Held(e)
    BY <1>4, <1>3, <1>2 DEF Held
  <1>6. c.nextId \in Nat
    BY DEF Channel
  <1>7. NewOut(c, e, p)
    BY <1>3, <1>4, <1>6 DEF NewOut
  <1>8. IdsKept(c, e)
    BY <1>3, <1>4, <1>6, <1>7 DEF IdsKept, InSt, InId
  <1> QED
    BY <1>3, <1>4, <1>5, <1>7, <1>8 DEF SetOff, InSt

\* An HTLC is resolved.
LEMMA ResolveSetsOff ==
    ASSUME NEW c \in Channel, Held(c), IdsOnce(c.inb), NEW h \in c.inb, h.st = "Committed",
           NEW o \in {"fulfil", "fail"}, NEW e, e = LocalRemove(c, h.id, o)
    PROVE  /\ e \in Channel /\ Held(e) /\ SetOff(c, e, {}) /\ SameTurn(c, e)
           /\ e.cell = c.cell /\ e.fate = c.fate /\ e.out = c.out /\ e.nextId = c.nextId
           /\ \A g \in c.inb : g # h => g \in e.inb
           /\ InSt(e, h.pay) = "LocalRemoved" /\ IdsOnce(e.inb)
  <1> DEFINE r(g) == IF g.id = h.id THEN [g EXCEPT !.st = "LocalRemoved", !.out = o] ELSE g
  <1>1. e = [c EXCEPT !.inb = {r(g) : g \in @}]
    BY DEF LocalRemove
  <1>2. c.inb \subseteq InHtlcs /\ c.nextId \in Nat /\ Viewed(c.inb)
    BY DEF Channel, Held
  <1>3. \A g \in c.inb : /\ r(g) \in InHtlcs /\ r(g).pay = g.pay /\ r(g).id = g.id
                         /\ r(g).st = IF g = h THEN "LocalRemoved" ELSE g.st
                         /\ g # h => r(g) = g
    <2> TAKE g \in c.inb
    <2>1. g \in InHtlcs /\ (g.id = h.id => g = h)
      BY <1>2 DEF IdsOnce
    <2> QED
      BY <2>1 DEF InHtlcs, InStates, Outcomes
  <1> HIDE DEF r
  <1>4. /\ e \in Channel /\ e.inb = {r(g) : g \in c.inb} /\ e.out = c.out /\ e.nextId = c.nextId
        /\ e.nextCpId = c.nextCpId /\ e.txs = c.txs /\ e.pendAdds = c.pendAdds /\ e.pendFails = c.pendFails
        /\ e.cell = c.cell /\ e.fate = c.fate /\ SameTurn(c, e)
    BY <1>1, <1>3 DEF Channel, SameTurn
  <1>5. Recast(c.inb, e.inb)
    <2>1. \A g \in e.inb : g.st # "none" /\ \E x \in c.inb : g.pay = x.pay
      BY <1>2, <1>3, <1>4 DEF Viewed
    <2>2. \A x \in c.inb : \E g \in e.inb : g.pay = x.pay /\ g.id = x.id
      BY <1>3, <1>4
    <2>3. \A g, x \in e.inb : g.pay = x.pay => g = x
      BY <1>2, <1>3, <1>4 DEF Viewed, OncePaid
    <2> QED
      BY <2>1, <2>2, <2>3 DEF Recast
  <1>6. /\ Viewed(e.inb)
        /\ \A p : InSt(e, p) = "none" <=> InSt(c, p) = "none"
        /\ \A p : InSt(c, p) # "none" => InId(e, p) = InId(c, p)
    BY <1>2, <1>5, RecastView DEF InSt, InId
  <1>7. \A g \in c.inb : InSt(c, g.pay) = g.st /\ InSt(e, g.pay) = r(g).st
    <2> TAKE g \in c.inb
    <2>1. InSt(c, g.pay) = g.st
      BY <1>2, ViewOf DEF InSt
    <2>2. r(g) \in e.inb
      BY <1>4
    <2>3. InSt(e, r(g).pay) = r(g).st
      BY <1>6, <2>2, ViewOf DEF InSt
    <2> QED
      BY <2>1, <2>3, <1>3
  <1>8. \A p \in Payments : \/ InSt(e, p) = InSt(c, p)
                            \/ InSt(c, p) = "Committed" /\ InSt(e, p) = "LocalRemoved"
    <2> TAKE p \in Payments
    <2>1. CASE InSt(c, p) = "none"
      BY <2>1, <1>6
    <2>2. CASE InSt(c, p) # "none"
      <3>1. PICK g \in c.inb : g.pay = p
        BY <2>2, <1>2, ViewOf DEF InSt
      <3> QED
        BY <3>1, <1>7, <1>3
    <2> QED
      BY <2>1, <2>2
  <1>9. Held(e)
    BY <1>4, <1>6, <1>3 DEF Held
  <1>10. IdsKept(c, e)
    BY <1>2, <1>4, <1>6 DEF IdsKept, OutSt, OutId
  <1>11. \A g \in c.inb : g # h => g \in e.inb
    BY <1>3, <1>4
  <1>12. InSt(e, h.pay) = "LocalRemoved"
    BY <1>7, <1>3
  <1>13. IdsOnce(e.inb)
    BY <1>3, <1>4 DEF IdsOnce
  <1> QED
    BY <1>4, <1>8, <1>9, <1>10, <1>11, <1>12, <1>13 DEF SetOff, OutSt

-----------------------------------------------------------------------------
(* The holding cell, one update at a time.                                 *)

\* The holding cell can be freed without a complaint: removals of different HTLCs that may be
\* resolved, additions of different payments that are not under way.
CellReady(c) ==
    /\ \A i, j \in 1 .. Len(c.cell) :
            c.cell[i].op # "add" /\ c.cell[j].op # "add" /\ c.cell[i].id = c.cell[j].id => i = j
    /\ \A i \in 1 .. Len(c.cell) : c.cell[i].op # "add" =>
            \E h \in c.inb : h.id = c.cell[i].id /\ h.st = "Committed"
    /\ \A i, j \in 1 .. Len(c.cell) :
            c.cell[i].op = "add" /\ c.cell[j].op = "add" /\ c.cell[i].pay = c.cell[j].pay => i = j
    /\ \A i \in 1 .. Len(c.cell) : c.cell[i].op = "add" => OutSt(c, c.cell[i].pay) = "none"

\* x is c after the first i updates of its cell were taken out.
Emptied(c, x, i) ==
    /\ x \in Channel /\ Held(x) /\ IdsOnce(x.inb) /\ SetOff(c, x, FirstAdds(c.cell, i)) /\ SameTurn(c, x)
    /\ x.cell = <<>> /\ x.fate = c.fate
    /\ \A j \in i + 1 .. Len(c.cell) : c.cell[j].op # "add" =>
            \E h \in x.inb : h.id = c.cell[j].id /\ h.st = "Committed"

\* Before the first update is taken out of the holding cell.
LEMMA EmptiedNone ==
    ASSUME NEW c \in Channel, Held(c), IdsOnce(c.inb), CellReady(c), NEW x, x = [c EXCEPT !.cell = <<>>]
    PROVE  Emptied(c, x, 0) /\ SameHtlcs(c, x)
  <1>1. <<>> \in Seq(Updates)
    OBVIOUS
  <1>2. x \in Channel
    BY <1>1 DEF Channel
  <1>3. SameHtlcs(c, x) /\ x.pendAdds = c.pendAdds /\ x.pendFails = c.pendFails /\ x.cell = <<>> /\ x.fate = c.fate
    BY DEF Channel, SameHtlcs
  <1>4. SameTurn(c, x)
    BY DEF Channel, SameTurn
  <1>5. c.nextId \in Nat
    BY DEF Channel
  <1>6. SetOff(c, x, FirstAdds(c.cell, 0))
    BY <1>3, <1>5, SetOffSelf
  <1>7. Held(x)
    BY <1>3, <1>5, SameHtlcsView
  <1> QED
    BY <1>2, <1>3, <1>4, <1>6, <1>7 DEF Emptied, SameHtlcs, CellReady

\* Two steps that leave the turns as they were.
LEMMA SameTurnAgain ==
    ASSUME NEW c, NEW e, NEW g, SameTurn(c, e), SameTurn(e, g)
    PROVE  SameTurn(c, g)
  BY DEF SameTurn

\* An update that is not carried out leaves the channel as it was.
Idled(acc, e) == e.did = TRUE \/ (e.c = acc.c /\ e.did = acc.did)

\* One more update is taken out of the holding cell, and none of them is a complaint.
LEMMA EmptiedMore ==
    ASSUME NEW c \in Channel, CellReady(c), can_generate_new_commitment(c), NEW i \in 1 .. Len(c.cell),
           NEW acc \in Accs, NEW k, k = i - 1, Emptied(c, acc.c, k), NEW tight, NEW e, e = FreeUpdate(acc, c.cell[i], tight)
    PROVE  Emptied(c, e.c, i) /\ Idled(acc, e)
  <1> DEFINE u == c.cell[i]
             x == acc.c
  <1>0. c.cell \in Seq(Updates) /\ Len(c.cell) \in Nat /\ u \in Updates
    BY DEF Channel
  <1>1. /\ x \in Channel /\ Held(x) /\ IdsOnce(x.inb) /\ SetOff(c, x, FirstAdds(c.cell, k)) /\ SameTurn(c, x)
        /\ x.cell = <<>> /\ x.fate = c.fate
        /\ \A j \in i .. Len(c.cell) : c.cell[j].op # "add" =>
            \E h \in x.inb : h.id = c.cell[j].id /\ h.st = "Committed"
    BY DEF Emptied
  <1>2. FirstAdds(c.cell, k) \subseteq FirstAdds(c.cell, i)
    <2>1. 1 .. k \subseteq 1 .. i
      OBVIOUS
    <2> QED
      BY <2>1 DEF FirstAdds
  <1>3. acc.failed \subseteq Payments /\ acc.did \in BOOLEAN /\ c.nextId \in Nat /\ x.nextId \in Nat
    BY <1>1 DEF Accs, Channel
  <1>4. can_generate_new_commitment(x)
    BY <1>1 DEF can_generate_new_commitment, SameTurn
  <1>5. ASSUME NEW y \in Channel, NEW A, SetOff(x, y, A), SameTurn(x, y), A \subseteq FirstAdds(c.cell, i)
        PROVE  SetOff(c, y, FirstAdds(c.cell, i)) /\ SameTurn(c, y)
    <2>1. y.nextId \in Nat
      BY DEF Channel
    <2>2. SetOff(x, y, FirstAdds(c.cell, i))
      BY <1>5 DEF SetOff
    <2>3. SetOff(c, y, FirstAdds(c.cell, i))
      BY <2>1, <2>2, <1>1, <1>2, <1>3, SetOffAgain
    <2> QED
      BY <2>3, <1>1, <1>5, SameTurnAgain
  <1>6. SetOff(x, x, {}) /\ SameTurn(x, x)
    <2>1. SameHtlcs(x, x)
      BY DEF SameHtlcs
    <2> QED
      BY <2>1, <1>3, SetOffSelf DEF SameTurn
  <1>7. SetOff(c, x, FirstAdds(c.cell, i))
    BY <1>1, <1>5, <1>6
  <1>8. Emptied(c, x, i)
    BY <1>1, <1>7 DEF Emptied
  <1>9. CASE u.op = "add" /\ (u.pay \in tight \/ SendRefused(x, u.pay))
    <2>1. e = [acc EXCEPT !.failed = @ \cup {u.pay}]
      BY <1>9 DEF FreeUpdate
    <2>2. e.c = x /\ e.did = acc.did
      BY <2>1 DEF Accs
    <2> QED
      BY <2>2, <1>8 DEF Idled
  <1>10. CASE u.op = "add" /\ ~(u.pay \in tight \/ SendRefused(x, u.pay))
    <2>1. e = [acc EXCEPT !.c = PlaceHtlc(@, u.pay), !.did = TRUE]
      BY <1>10 DEF FreeUpdate
    <2>2. e.c = PlaceHtlc(x, u.pay) /\ e.did = TRUE
      BY <2>1 DEF Accs
    <2>3. u.pay \in Payments /\ u.pay \in FirstAdds(c.cell, i)
      <3>1. u.pay \in Payments
        BY <1>0, <1>10 DEF Updates
      <3>2. i \in 1 .. i
        OBVIOUS
      <3> QED
        BY <3>1, <3>2, <1>10 DEF FirstAdds
    <2>4. u.pay \notin FirstAdds(c.cell, k)
      <3>1. SUFFICES ASSUME u.pay \in FirstAdds(c.cell, k) PROVE FALSE
        OBVIOUS
      <3>2. PICK j \in 1 .. k : c.cell[j].op = "add" /\ c.cell[j].pay = u.pay
        BY <3>1 DEF FirstAdds
      <3>3. j \in 1 .. Len(c.cell) /\ j # i
        BY <1>0
      <3> QED
        BY <3>2, <3>3, <1>10 DEF CellReady
    <2>5. OutSt(x, u.pay) = "none"
      <3>1. OutSt(c, u.pay) = "none"
        BY <1>10 DEF CellReady
      <3> QED
        BY <3>1, <2>3, <2>4, <1>1 DEF SetOff
    <2> DEFINE y == PlaceHtlc(x, u.pay)
    <2>6. /\ y \in Channel /\ Held(y) /\ SetOff(x, y, {u.pay}) /\ SameTurn(x, y)
          /\ y.cell = x.cell /\ y.fate = x.fate /\ y.inb = x.inb
      BY <2>3, <2>5, <1>1, <1>4, PlaceSetsOff
    <2> HIDE DEF y
    <2>7. SetOff(c, y, FirstAdds(c.cell, i)) /\ SameTurn(c, y)
      BY <2>3, <2>6, <1>5
    <2>8. Emptied(c, y, i)
      BY <2>6, <2>7, <1>1, <1>0 DEF Emptied
    <2> QED
      BY <2>2, <2>8 DEF y, Idled
  <1>11. CASE u.op # "add"
    <2>1. PICK h \in x.inb : h.id = u.id /\ h.st = "Committed"
      BY <1>1, <1>11, <1>0
    <2>2. Resolvable(x, u.id)
      BY <2>1 DEF Resolvable
    <2> DEFINE o == IF u.op = "claim" THEN "fulfil" ELSE "fail"
               y == LocalRemove(x, h.id, o)
    <2>3. e = [acc EXCEPT !.did = TRUE, !.c = LocalRemove(@, u.id, o)]
      BY <1>11, <2>2 DEF FreeUpdate
    <2>4. e.c = y /\ e.did = TRUE
      BY <2>1, <2>3 DEF Accs
    <2>5. o \in {"fulfil", "fail"}
      OBVIOUS
    <2> HIDE DEF o
    <2>6. /\ y \in Channel /\ Held(y) /\ SetOff(x, y, {}) /\ SameTurn(x, y) /\ IdsOnce(y.inb)
          /\ y.cell = x.cell /\ y.fate = x.fate /\ \A g \in x.inb : g # h => g \in y.inb
      BY <2>1, <2>5, <1>1, ResolveSetsOff
    <2> HIDE DEF y
    <2>7. SetOff(c, y, FirstAdds(c.cell, i)) /\ SameTurn(c, y)
      BY <2>6, <1>5
    <2>8. ASSUME NEW j \in i + 1 .. Len(c.cell), c.cell[j].op # "add"
          PROVE  \E g \in y.inb : g.id = c.cell[j].id /\ g.st = "Committed"
      <3>1. PICK g \in x.inb : g.id = c.cell[j].id /\ g.st = "Committed"
        BY <1>0, <1>1, <2>8
      <3>2. c.cell[j].id # u.id
        BY <1>0, <1>11, <2>8 DEF CellReady
      <3> QED
        BY <3>1, <3>2, <2>1, <2>6
    <2>9. Emptied(c, y, i)
      BY <2>6, <2>7, <2>8, <1>1 DEF Emptied
    <2> QED
      BY <2>4, <2>9 DEF Idled
  <1> QED
    BY <1>9, <1>10, <1>11

-----------------------------------------------------------------------------
(* The holding cell, emptied.                                              *)

\* The whole cell.
LEMMA FreeEmpties ==
    ASSUME NEW n, NEW c \in Channel, Held(c), IdsOnce(c.inb), CellReady(c), can_generate_new_commitment(c),
           NEW tight, NEW e, e = free_holding_cell_htlcs(n, c, tight)
    PROVE  \E x : /\ Emptied(c, x, Len(c.cell))
                  /\ e.did => e.c = BuildAndPause(n, x)
                  /\ ~e.did => e.c = x /\ SameHtlcs(c, x)
  <1>1. PICK a : FreeRun(n, c, tight, a)
    BY FreeChain
  <1>2. c.cell \in Seq(Updates) /\ Len(c.cell) \in Nat /\ \A i \in 1 .. Len(c.cell) : c.cell[i] \in Updates
    <2>1. c.cell \in Seq(Updates)
      BY DEF Channel
    <2> QED
      BY <2>1
  <1> DEFINE y == [c EXCEPT !.cell = <<>>]
  <1> DEFINE Good(i) == a[i] \in Accs /\ Emptied(c, a[i].c, i) /\ (a[i].did = TRUE \/ a[i].c = y)
  <1>3. Good(0) /\ SameHtlcs(c, y)
    <2>1. Emptied(c, y, 0) /\ SameHtlcs(c, y)
      BY EmptiedNone
    <2>2. y \in Channel
      BY <2>1 DEF Emptied
    <2> HIDE DEF y
    <2>3. a[0] = [c |-> y, failed |-> {}, did |-> FALSE]
      BY <1>1 DEF FreeRun, FreeBase, y
    <2> QED
      BY <2>1, <2>2, <2>3 DEF Accs
  <1> HIDE DEF y
  <1>4. ASSUME NEW i \in 1 .. Len(c.cell), Good(i - 1) PROVE Good(i)
    <2> DEFINE k == i - 1
               acc == a[k]
               f == a[i]
    <2>1. f = FreeUpdate(acc, c.cell[i], tight) /\ acc \in Accs /\ Emptied(c, acc.c, k)
      BY <1>1, <1>4 DEF FreeRun
    <2>2. f \in Accs
      BY <1>2, <2>1, FreeUpdateTyped
    <2>3. acc.did = TRUE \/ acc.c = y
      BY <1>4
    <2>5. k = i - 1
      OBVIOUS
    <2> HIDE DEF acc, f, k
    <2>4. Emptied(c, f.c, i) /\ (f.did = TRUE \/ (f.c = acc.c /\ f.did = acc.did))
      <3>0. /\ i \in 1 .. Len(c.cell) /\ c \in Channel /\ CellReady(c) /\ can_generate_new_commitment(c)
            /\ f = FreeUpdate(acc, c.cell[i], tight) /\ acc \in Accs /\ Emptied(c, acc.c, k) /\ k = i - 1
        BY <2>1, <2>5
      <3>1. Emptied(c, f.c, i)
        BY ONLY <3>0, EmptiedMore, Zenon
      <3>2. Idled(acc, f)
        BY ONLY <3>0, EmptiedMore, Zenon
      <3> QED
        BY <3>1, <3>2 DEF Idled
    <2> QED
      BY <2>2, <2>3, <2>4 DEF f
  <1>5. Good(Len(c.cell))
    <2> HIDE DEF Good
    <2> DEFINE B == {i \in 0 .. Len(c.cell) : ~Good(i)}
    <2>0. SUFFICES ASSUME B # {} PROVE FALSE
      BY <1>2
    <2>1. B \subseteq Nat
      OBVIOUS
    <2>2. PICK i \in B : \A j \in B : i <= j
      <3> HIDE DEF B
      <3> QED BY ONLY <2>0, <2>1, LeastNatural
    <2>3. i # 0
      BY <1>3, <2>2
    <2>4. i \in 1 .. Len(c.cell) /\ i - 1 \in 0 .. Len(c.cell)
      BY <1>2, <2>2, <2>3
    <2>5. Good(i - 1)
      BY <2>2, <2>4
    <2> QED BY <1>4, <2>2, <2>4, <2>5
  <1> DEFINE f == a[Len(c.cell)]
  <1>6. e = IF f.did THEN [f EXCEPT !.c = BuildAndPause(n, @)] ELSE f
    BY <1>1 DEF FreeRun
  <1>7. f \in Accs /\ Emptied(c, f.c, Len(c.cell)) /\ (f.did = TRUE \/ f.c = y)
    BY <1>5
  <1> HIDE DEF f
  <1>8. CASE f.did
    <2>1. e.c = BuildAndPause(n, f.c) /\ e.did
      BY <1>6, <1>7, <1>8 DEF Accs
    <2> QED
      BY <1>7, <2>1
  <1>9. CASE ~f.did
    <2>1. e = f
      BY <1>6, <1>9
    <2> QED
      BY <1>3, <1>7, <1>9, <2>1
  <1> QED
    BY <1>8, <1>9

\* What the types and ids of a node contribute.
Orderly(n, c) ==
    /\ c \in Channel /\ Held(c) /\ IdsOnce(c.inb) /\ IdsOnce(c.out)
    /\ IsFiniteSet(c.inb) /\ IsFiniteSet(c.out)
    /\ c.inb \subseteq InHtlcs /\ c.out \subseteq OutHtlcs

\* The HTLCs of a node are in order.
LEMMA NodeOrderly ==
    ASSUME NEW n \in Nodes, NEW c, NEW I \in [Payments -> Int], NEW S,
           NEW L \in SUBSET Payments, NEW C \in SUBSET Payments, NEW R \in SUBSET Payments,
           NodeOK(n, c, I, S, L, C, R), IdsUnique(I)
    PROVE  Orderly(n, c)
  <1>1. /\ c \in Channel /\ c.inb \subseteq InHtlcs /\ c.out \subseteq OutHtlcs
        /\ IsFiniteSet(c.inb) /\ IsFiniteSet(c.out)
        /\ OncePaid(c.inb) /\ OncePaid(c.out) /\ IdsOnce(c.inb) /\ IdsOnce(c.out)
    BY HtlcFacts
  <1>2. \A h \in c.inb : h.pay \in Payments /\ h.st # "none"
    BY <1>1 DEF InHtlcs, InStates
  <1>3. \A h \in c.out : h.pay \in Payments /\ h.st # "none"
    BY <1>1 DEF OutHtlcs, OutStates
  <1> QED
    BY <1>1, <1>2, <1>3 DEF Orderly, Held, Viewed

\* The view of a node's HTLCs.
OutsAre(n, c, I) ==
    /\ \A p \in Payments : OutSt(c, p) # "none" =>
            /\ PayFrom[p] = n /\ OutId(c, p) = I[p] /\ I[p] \in Nat /\ OutSt(c, p) \in OutStates
            /\ \E h \in c.out : h.pay = p /\ h.st = OutSt(c, p) /\ h.id = I[p]
    /\ \A h \in c.out : OutSt(c, h.pay) = h.st /\ OutId(c, h.pay) = h.id /\ h.id = I[h.pay] /\ h.st # "none"

\* The view of the HTLCs offered to a node.
InsAre(n, c, I) ==
    /\ \A p \in Payments : InSt(c, p) # "none" =>
            /\ PayTo(p) = n /\ InId(c, p) = I[p] /\ I[p] \in Nat /\ InSt(c, p) \in InStates
            /\ \E h \in c.inb : h.pay = p /\ h.st = InSt(c, p) /\ h.id = I[p]
    /\ \A h \in c.inb : InSt(c, h.pay) = h.st /\ InId(c, h.pay) = h.id /\ h.id = I[h.pay] /\ h.st # "none"

\* The views of a node's HTLCs on both sides.
LEMMA NodeSides ==
    ASSUME NEW n \in Nodes, NEW c, NEW I \in [Payments -> Int], NEW S,
           NEW L \in SUBSET Payments, NEW C \in SUBSET Payments, NEW R \in SUBSET Payments,
           NodeOK(n, c, I, S, L, C, R), IdsUnique(I)
    PROVE  OutsAre(n, c, I) /\ InsAre(n, c, I)
  <1>1. /\ c.inb \subseteq InHtlcs /\ c.out \subseteq OutHtlcs
        /\ \A h \in c.inb : h.id \in Nat /\ h.pay \in Payments /\ PayTo(h.pay) = n /\ h.id = I[h.pay]
        /\ \A h \in c.out : h.id \in Nat /\ h.pay \in Payments /\ PayFrom[h.pay] = n /\ h.id = I[h.pay]
    <2>1. c.inb \subseteq InHtlcs /\ c.out \subseteq OutHtlcs
      BY HtlcFacts
    <2>2. \A h \in c.inb : h.id \in Nat /\ h.pay \in Payments /\ PayTo(h.pay) = n /\ h.id = I[h.pay]
      BY <2>1 DEF NodeOK, InOK, InHtlcs
    <2>3. \A h \in c.out : h.id \in Nat /\ h.pay \in Payments /\ PayFrom[h.pay] = n /\ h.id = I[h.pay]
      BY <2>1 DEF NodeOK, OutOK, OutHtlcs
    <2> QED
      BY <2>1, <2>2, <2>3
  <1>2. Viewed(c.inb) /\ Viewed(c.out)
    <2>1. Orderly(n, c)
      BY NodeOrderly
    <2> QED
      BY <2>1 DEF Orderly, Held
  <1>3. \A h \in c.out : OutSt(c, h.pay) = h.st /\ OutId(c, h.pay) = h.id
    BY <1>2, ViewOf DEF OutSt, OutId
  <1>4. \A h \in c.inb : InSt(c, h.pay) = h.st /\ InId(c, h.pay) = h.id
    BY <1>2, ViewOf DEF InSt, InId
  <1>5. \A p : OutSt(c, p) # "none" => \E h \in c.out : h.pay = p
    BY <1>2, ViewOf DEF OutSt
  <1>6. \A p : InSt(c, p) # "none" => \E h \in c.inb : h.pay = p
    BY <1>2, ViewOf DEF InSt
  <1>7. \A h \in c.out : h.st \in OutStates /\ h.st # "none"
    BY <1>1, <1>2 DEF OutHtlcs, Viewed
  <1>8. \A h \in c.inb : h.st \in InStates /\ h.st # "none"
    BY <1>1, <1>2 DEF InHtlcs, Viewed
  <1>9. ASSUME NEW p \in Payments, OutSt(c, p) # "none"
        PROVE  /\ PayFrom[p] = n /\ OutId(c, p) = I[p] /\ I[p] \in Nat /\ OutSt(c, p) \in OutStates
               /\ \E h \in c.out : h.pay = p /\ h.st = OutSt(c, p) /\ h.id = I[p]
    BY <1>9, <1>1, <1>3, <1>5, <1>7
  <1>10. ASSUME NEW p \in Payments, InSt(c, p) # "none"
         PROVE  /\ PayTo(p) = n /\ InId(c, p) = I[p] /\ I[p] \in Nat /\ InSt(c, p) \in InStates
                /\ \E h \in c.inb : h.pay = p /\ h.st = InSt(c, p) /\ h.id = I[p]
    BY <1>10, <1>1, <1>4, <1>6, <1>8

  <1>11. OutsAre(n, c, I)
    BY <1>1, <1>3, <1>7, <1>9 DEF OutsAre
  <1>12. InsAre(n, c, I)
    BY <1>1, <1>4, <1>8, <1>10 DEF InsAre
  <1> QED
    BY <1>11, <1>12

\* The same, spelled out.
LEMMA NodeView ==
    ASSUME NEW n \in Nodes, NEW c, NEW I \in [Payments -> Int], NEW S,
           NEW L \in SUBSET Payments, NEW C \in SUBSET Payments, NEW R \in SUBSET Payments,
           NodeOK(n, c, I, S, L, C, R), IdsUnique(I)
    PROVE  /\ \A p \in Payments : OutSt(c, p) # "none" =>
                /\ PayFrom[p] = n /\ OutId(c, p) = I[p] /\ I[p] \in Nat /\ OutSt(c, p) \in OutStates
                /\ \E h \in c.out : h.pay = p /\ h.st = OutSt(c, p) /\ h.id = I[p]
           /\ \A p \in Payments : InSt(c, p) # "none" =>
                /\ PayTo(p) = n /\ InId(c, p) = I[p] /\ I[p] \in Nat /\ InSt(c, p) \in InStates
                /\ \E h \in c.inb : h.pay = p /\ h.st = InSt(c, p) /\ h.id = I[p]
           /\ \A h \in c.out : OutSt(c, h.pay) = h.st /\ OutId(c, h.pay) = h.id /\ h.id = I[h.pay] /\ h.st # "none"
           /\ \A h \in c.inb : InSt(c, h.pay) = h.st /\ InId(c, h.pay) = h.id /\ h.id = I[h.pay] /\ h.st # "none"
  <1>1. OutsAre(n, c, I) /\ InsAre(n, c, I)
    BY NodeSides
  <1> QED
    BY <1>1 DEF OutsAre, InsAre

-----------------------------------------------------------------------------
(* A revocation and the HTLCs it moves on.                                 *)

\* x is c after the revocation was applied.
RevokedTo(c, x) ==
    /\ \A p \in Payments : OutSt(x, p) = OutRevoked(OutSt(c, p)) /\ InSt(x, p) = InRevoked(InSt(c, p))
    /\ \A p \in Payments : OutSt(x, p) # "none" => OutId(x, p) = OutId(c, p)
    /\ \A p \in Payments : InSt(x, p) # "none" => InId(x, p) = InId(c, p)
    /\ x.nextId = c.nextId /\ x.nextCpId = c.nextCpId /\ x.txs = c.txs /\ x.cell = c.cell /\ x.fate = c.fate
    /\ ~x.awaitRaa /\ (x.monBusy <=> c.monBusy) /\ (x.disc <=> c.disc) /\ x.order = c.order
    /\ (x.pendRaa <=> c.pendRaa) /\ (x.pendCs <=> c.pendCs)
    /\ x.holderNum = c.holderNum /\ x.cpNum = c.cpNum + 1
    /\ (x.localShut <=> c.localShut) /\ (x.remoteShut <=> c.remoteShut)
    /\ x.feeSent = c.feeSent /\ x.pendClosing = c.pendClosing
    /\ \A p \in Payments : p \in x.pendAdds => p \in c.pendAdds \/ InSt(c, p) = "AwaitingAnnouncedRemoteRevoke"
    /\ \A p \in Payments : p \in x.pendFails => p \in c.pendFails \/ OutSt(c, p) = "AwaitingRemovedRemoteRevoke"

\* Three rewritings in a row: HTLCs leave, then move on twice.
Leaves(S, T, gone, f1, t1, f2, t2) ==
    /\ IsFiniteSet(S) /\ t1 # "none" /\ t2 # "none"
    /\ \/ S \subseteq InHtlcs /\ t1 \in InStates /\ t2 \in InStates
       \/ S \subseteq OutHtlcs /\ t1 \in OutStates /\ t2 \in OutStates
    /\ T = Promote(Promote(S \ {h \in S : h.st = gone}, f1, t1), f2, t2)

\* The view after three such rewritings.
Left(S, T, gone, f1, t1, f2, t2) ==
    /\ Viewed(T)
    /\ \A p : /\ StOf(T, p) = "none" <=> StOf(S, p) \in {"none", gone}
              /\ StOf(S, p) \notin {"none", gone} =>
                   /\ IdOf(T, p) = IdOf(S, p)
                   /\ LET s == IF StOf(S, p) = f1 THEN t1 ELSE StOf(S, p)
                      IN StOf(T, p) = IF s = f2 THEN t2 ELSE s

\* What three rewritings in a row do to the view.
LEMMA ViewRevoked ==
    ASSUME NEW S, Viewed(S), NEW gone, NEW f1, NEW t1, NEW f2, NEW t2,
           NEW T, Leaves(S, T, gone, f1, t1, f2, t2)
    PROVE  Left(S, T, gone, f1, t1, f2, t2)
  <1> USE DEF Leaves, Left
  <1> DEFINE U == S \ {h \in S : h.st = gone}
             V == Promote(U, f1, t1)
  <1>1. /\ Viewed(U)
        /\ \A p : /\ StOf(U, p) = "none" <=> StOf(S, p) \in {"none", gone}
                  /\ StOf(S, p) \notin {"none", gone} => StOf(U, p) = StOf(S, p) /\ IdOf(U, p) = IdOf(S, p)
    BY MinusView
  <1>2. U \subseteq S /\ T = Promote(V, f2, t2)
    OBVIOUS
  <1> HIDE DEF U
  <1>3. U \subseteq InHtlcs \/ U \subseteq OutHtlcs
    BY <1>2
  <1>4. Viewed(V)
    BY <1>1, <1>3, PromoteView
  <1>5. \A p : /\ StOf(U, p) = "none" <=> StOf(V, p) = "none"
               /\ StOf(U, p) # "none" =>
                    /\ StOf(V, p) = IF StOf(U, p) = f1 THEN t1 ELSE StOf(U, p)
                    /\ IdOf(V, p) = IdOf(U, p)
    BY <1>1, <1>3, PromoteView
  <1>6. V \subseteq InHtlcs \/ V \subseteq OutHtlcs
    <2>0. IsFiniteSet(U) /\ \A g, h \in U : g.pay = h.pay => g = h
      BY <1>1, <1>2, FS_Subset DEF Viewed, OncePaid
    <2>1. CASE S \subseteq InHtlcs /\ t1 \in InStates
      BY <2>0, <2>1, <1>2, PromoteFacts
    <2>2. CASE S \subseteq OutHtlcs /\ t1 \in OutStates
      BY <2>0, <2>2, <1>2, PromoteFacts
    <2> QED
      BY <2>1, <2>2
  <1> HIDE DEF V
  <1>7. Viewed(T)
    BY <1>2, <1>4, <1>6, PromoteView
  <1>8. \A p : /\ StOf(V, p) = "none" <=> StOf(T, p) = "none"
               /\ StOf(V, p) # "none" =>
                    /\ StOf(T, p) = IF StOf(V, p) = f2 THEN t2 ELSE StOf(V, p)
                    /\ IdOf(T, p) = IdOf(V, p)
    BY <1>2, <1>4, <1>6, PromoteView
  <1> QED
    BY <1>1, <1>5, <1>7, <1>8

\* What a revocation does to the view.
LEMMA RevocationView ==
    ASSUME NEW n, NEW c, Orderly(n, c), NEW x, x = ApplyRevocation(c)
    PROVE  RevokedTo(c, x) /\ Viewed(x.inb) /\ Viewed(x.out)
  <1>0. /\ c \in Channel /\ Viewed(c.inb) /\ Viewed(c.out) /\ IsFiniteSet(c.inb) /\ IsFiniteSet(c.out)
        /\ c.inb \subseteq InHtlcs /\ c.out \subseteq OutHtlcs
    BY DEF Orderly, Held
  <1>1. /\ x.inb = Promote(Promote(c.inb \ {h \in c.inb : h.st = "LocalRemoved"},
                    "AwaitingAnnouncedRemoteRevoke", "Committed"),
                    "AwaitingRemoteRevokeToAnnounce", "AwaitingAnnouncedRemoteRevoke")
        /\ x.out = Promote(Promote(c.out \ {h \in c.out : h.st = "AwaitingRemovedRemoteRevoke"},
                    "LocalAnnounced", "Committed"),
                    "AwaitingRemoteRevokeToRemove", "AwaitingRemovedRemoteRevoke")
        /\ x.pendAdds = c.pendAdds \cup {h.pay : h \in {g \in c.inb : g.st = "AwaitingAnnouncedRemoteRevoke"}}
        /\ x.pendFails \subseteq c.pendFails \cup {h.pay : h \in {g \in c.out : g.st = "AwaitingRemovedRemoteRevoke"}}
    BY <1>0 DEF ApplyRevocation, RevocationApplied, Channel
  <1>2. /\ x.nextId = c.nextId /\ x.nextCpId = c.nextCpId /\ x.txs = c.txs /\ x.cell = c.cell /\ x.fate = c.fate
        /\ ~x.awaitRaa /\ (x.monBusy <=> c.monBusy) /\ (x.disc <=> c.disc) /\ x.order = c.order
        /\ (x.pendRaa <=> c.pendRaa) /\ (x.pendCs <=> c.pendCs)
        /\ x.holderNum = c.holderNum /\ x.cpNum = c.cpNum + 1
        /\ (x.localShut <=> c.localShut) /\ (x.remoteShut <=> c.remoteShut)
        /\ x.feeSent = c.feeSent /\ x.pendClosing = c.pendClosing
    BY <1>0 DEF ApplyRevocation, RevocationApplied, Channel
  <1>3. "Committed" \in InStates \cap OutStates /\ "AwaitingAnnouncedRemoteRevoke" \in InStates
        /\ "AwaitingRemovedRemoteRevoke" \in OutStates
    BY DEF InStates, OutStates
  <1>4. Leaves(c.inb, x.inb, "LocalRemoved", "AwaitingAnnouncedRemoteRevoke", "Committed",
                "AwaitingRemoteRevokeToAnnounce", "AwaitingAnnouncedRemoteRevoke")
    BY <1>0, <1>1, <1>3 DEF Leaves
  <1>5. Left(c.inb, x.inb, "LocalRemoved", "AwaitingAnnouncedRemoteRevoke", "Committed",
                "AwaitingRemoteRevokeToAnnounce", "AwaitingAnnouncedRemoteRevoke")
    BY <1>0, <1>4, ViewRevoked
  <1>6. Leaves(c.out, x.out, "AwaitingRemovedRemoteRevoke", "LocalAnnounced", "Committed",
                "AwaitingRemoteRevokeToRemove", "AwaitingRemovedRemoteRevoke")
    BY <1>0, <1>1, <1>3 DEF Leaves
  <1>7. Left(c.out, x.out, "AwaitingRemovedRemoteRevoke", "LocalAnnounced", "Committed",
                "AwaitingRemoteRevokeToRemove", "AwaitingRemovedRemoteRevoke")
    BY <1>0, <1>6, ViewRevoked
  <1>8. \A p \in Payments : InSt(x, p) = InRevoked(InSt(c, p)) /\ (InSt(x, p) # "none" => InId(x, p) = InId(c, p))
    BY <1>5 DEF Left, InSt, InId, InRevoked
  <1>9. \A p \in Payments : OutSt(x, p) = OutRevoked(OutSt(c, p)) /\ (OutSt(x, p) # "none" => OutId(x, p) = OutId(c, p))
    BY <1>7 DEF Left, OutSt, OutId, OutRevoked
  <1>10. \A h \in c.inb : InSt(c, h.pay) = h.st
    BY <1>0, ViewOf DEF InSt
  <1>11. \A h \in c.out : OutSt(c, h.pay) = h.st
    BY <1>0, ViewOf DEF OutSt
  <1>12. \A p \in Payments : p \in x.pendAdds => p \in c.pendAdds \/ InSt(c, p) = "AwaitingAnnouncedRemoteRevoke"
    BY <1>1, <1>10
  <1>13. \A p \in Payments : p \in x.pendFails => p \in c.pendFails \/ OutSt(c, p) = "AwaitingRemovedRemoteRevoke"
    BY <1>1, <1>11
  <1> QED
    BY <1>2, <1>5, <1>7, <1>8, <1>9, <1>12, <1>13 DEF RevokedTo, Left

-----------------------------------------------------------------------------
(* A revocation that is answered with a commitment.                        *)

\* A revocation, and a commitment built after it.
LEMMA RevokesBuilt ==
    ASSUME NEW n, NEW c, NEW x, RevokedTo(c, x), NEW y \in Channel, Held(y), NEW A, SetOff(x, y, A), SameTurn(x, y),
           \A p \in A : OutSt(c, p) = "none", ~c.disc, c.awaitRaa, c.nextId \in Nat,
           NEW f, f = BuildAndPause(n, y)
    PROVE  Revokes(c, f, "build") /\ RevokeView(c, f, "build")
  <1>0. BuiltFrom(y, f)
    BY BuiltFields
  <1>1. Revokes(c, f, "build")
    BY <1>0 DEF BuiltFrom, Revokes, RevokedTo, SameTurn, RaaFirst
  <1>2. Promoted(y, f)
    BY <1>0, HtlcsPromoted DEF BuiltFrom
  <1>3. y.nextId \in Nat
    BY DEF Channel
  <1> HIDE DEF BuildAndPause
  <1>4. ASSUME NEW p \in Payments, p \in A, NewOut(x, y, p)
        PROVE  NewOut(c, f, p) /\ OutId(f, p) = OutId(y, p)
    BY <1>2, <1>3, <1>4 DEF NewOut, Promoted, OutBuilt, RevokedTo
  <1>5. \A p \in Payments : OutSt(f, p) = OutBuilt(OutRevoked(OutSt(c, p))) \/ NewOut(c, f, p)
    BY <1>4, <1>2 DEF SetOff, Promoted, RevokedTo
  <1>6. \A p \in Payments : \/ InSt(f, p) = InBuilt(InRevoked(InSt(c, p)))
                            \/ InRevoked(InSt(c, p)) = "Committed" /\ InSt(f, p) = "LocalRemoved"
    BY <1>2 DEF SetOff, Promoted, InBuilt, RevokedTo
  <1>7. IdsKept(c, f)
    <2>1. ASSUME NEW p \in Payments, OutSt(c, p) # "none", OutSt(f, p) # "none"
          PROVE  OutId(f, p) = OutId(c, p)
      <3>1. OutSt(y, p) = OutSt(x, p)
        BY <2>1 DEF SetOff
      <3>2. OutSt(y, p) # "none"
        BY <2>1, <1>2 DEF Promoted, OutBuilt
      <3> QED
        BY <3>1, <3>2, <1>2 DEF IdsKept, SetOff, Promoted, RevokedTo
    <2>2. ASSUME NEW p \in Payments, InSt(c, p) # "none", InSt(f, p) # "none"
          PROVE  InId(f, p) = InId(c, p)
      <3>1. InSt(y, p) # "none" /\ InSt(x, p) # "none"
        BY <2>2, <1>2 DEF SetOff, Promoted, InBuilt
      <3> QED
        BY <2>2, <3>1, <1>2 DEF IdsKept, SetOff, Promoted, RevokedTo
    <2>3. c.nextId <= f.nextId
      BY <1>2 DEF IdsKept, SetOff, Promoted, RevokedTo
    <2>4. ASSUME NEW i \in c.nextId .. f.nextId - 1
          PROVE  \E p \in Payments : NewOut(c, f, p) /\ OutId(f, p) = i
      <3>1. PICK p \in Payments : NewOut(x, y, p) /\ OutId(y, p) = i
        BY <1>2 DEF IdsKept, SetOff, Promoted, RevokedTo
      <3>2. p \in A
        BY <3>1 DEF SetOff, NewOut
      <3> QED
        BY <3>1, <3>2, <1>4
    <2> QED
      BY <2>1, <2>2, <2>3, <2>4 DEF IdsKept
  <1>8. f.nextCpId = c.nextCpId /\ f.txs = c.txs
    BY <1>2 DEF SetOff, Promoted, RevokedTo
  <1> QED
    BY <1>1, <1>5, <1>6, <1>7, <1>8 DEF RevokeView

\* A revocation that calls for no commitment.
LEMMA RevokesPaused ==
    ASSUME NEW c, NEW x, RevokedTo(c, x), NEW y \in Channel, SameHtlcs(x, y), SameTurn(x, y),
           ~c.disc, c.awaitRaa, c.nextId \in Nat,
           \A p \in Payments : /\ InSt(c, p) # "AwaitingRemoteRevokeToAnnounce"
                               /\ OutSt(c, p) # "AwaitingRemoteRevokeToRemove",
           NEW f, f = monitor_updating_paused(y, FALSE, FALSE)
    PROVE  Revokes(c, f, "none") /\ RevokeView(c, f, "none")
  <1>1. /\ f.inb = y.inb /\ f.out = y.out /\ f.nextId = y.nextId /\ f.nextCpId = y.nextCpId /\ f.txs = y.txs
        /\ f.monBusy /\ (f.awaitRaa <=> y.awaitRaa) /\ (f.disc <=> y.disc) /\ f.order = y.order
        /\ (f.pendRaa <=> y.pendRaa) /\ (f.pendCs <=> y.pendCs)
        /\ f.holderNum = y.holderNum /\ f.cpNum = y.cpNum
    BY DEF monitor_updating_paused, Channel
  <1>2. Revokes(c, f, "none")
    BY <1>1 DEF Revokes, RevokedTo, SameTurn, RaaFirst
  <1>3. \A p : OutSt(f, p) = OutSt(x, p) /\ OutId(f, p) = OutId(x, p) /\ InSt(f, p) = InSt(x, p) /\ InId(f, p) = InId(x, p)
    BY <1>1 DEF SameHtlcs, OutSt, OutId, InSt, InId
  <1>4. f.nextId = c.nextId /\ f.nextCpId = c.nextCpId /\ f.txs = c.txs
    BY <1>1 DEF SameHtlcs, RevokedTo
  <1>5. IdsKept(c, f)
    <2>0. \A k \in Nat : k .. k - 1 = {} /\ k <= k
      OBVIOUS
    <2>1. c.nextId .. f.nextId - 1 = {} /\ c.nextId <= f.nextId
      BY <1>4, <2>0
    <2>2. \A p \in Payments : OutSt(f, p) # "none" => OutId(f, p) = OutId(c, p)
      BY <1>3 DEF RevokedTo
    <2>3. \A p \in Payments : InSt(f, p) # "none" => InId(f, p) = InId(c, p)
      BY <1>3 DEF RevokedTo
    <2> QED
      BY <2>1, <2>2, <2>3 DEF IdsKept
  <1> QED
    BY <1>2, <1>3, <1>4, <1>5 DEF RevokeView, RevokedTo

\* The holding cell stays ready over a revocation.
LEMMA ReadyRevoked ==
    ASSUME NEW n \in Nodes, NEW c, NEW I \in [Payments -> Int], NEW S,
           NEW L \in SUBSET Payments, NEW C \in SUBSET Payments, NEW R \in SUBSET Payments,
           NodeOK(n, c, I, S, L, C, R), IdsUnique(I), CellReady(c), NEW x, x = ApplyRevocation(c)
    PROVE  CellReady(x) /\ Orderly(n, x) /\ RevokedTo(c, x)
  <1>1. NodeOK(n, x, I, S, L, C, R)
    BY RevokedKeeps
  <1>2. Orderly(n, x)
    BY <1>1, NodeOrderly
  <1>3. Orderly(n, c)
    BY NodeOrderly
  <1>4. RevokedTo(c, x)
    BY <1>3, RevocationView
  <1>5. MovedOn(c.inb \ Gone(c), x.inb, TRUE)
    BY RevokedFields
  <1>6. \A h \in c.inb : h.st = "Committed" => \E g \in x.inb : g.id = h.id /\ g.st = "Committed"
    <2> TAKE h \in c.inb
    <2> HAVE h.st = "Committed"
    <2>1. h \in c.inb \ Gone(c)
      BY DEF Gone
    <2> QED
      BY <2>1, <1>5 DEF MovedOn, InAfter
  <1>7. c.cell \in Seq(Updates) /\ x.cell = c.cell
    BY <1>3, <1>4 DEF Orderly, Channel, RevokedTo
  <1>8. \A i \in 1 .. Len(c.cell) : c.cell[i].op = "add" => c.cell[i].pay \in Payments
    BY <1>7 DEF Updates
  <1>9. \A i \in 1 .. Len(x.cell) : x.cell[i].op = "add" => OutSt(x, x.cell[i].pay) = "none"
    BY <1>4, <1>7, <1>8 DEF CellReady, RevokedTo, OutRevoked
  <1> QED
    BY <1>2, <1>4, <1>6, <1>7, <1>9 DEF CellReady

-----------------------------------------------------------------------------
(* The effect of freeing the holding cell.                                 *)

\* What a step of a node does to what its user was told and its holding cell; A: the payments it may place.
Retains(c, f, A) ==
    /\ f.fate \in {c.fate, "assert"}
    /\ \A p \in Payments : p \notin A /\ OutSt(c, p) = "none" => OutSt(f, p) = "none"
    /\ \A p \in Payments : InSt(c, p) = "Committed" => InSt(f, p) \in {"Committed", "LocalRemoved"} /\ InId(f, p) = InId(c, p)
    /\ \/ f.cell = <<>>
       \/ f.cell = c.cell /\ \A p \in Payments : InSt(c, p) = "Committed" => InSt(f, p) = "Committed"
    /\ \A p \in Payments : p \in f.pendAdds => p \in c.pendAdds \/ InSt(f, p) \in {"Committed", "LocalRemoved"}
    /\ \A p \in Payments : p \in f.pendFails => p \in c.pendFails \/ (OutSt(c, p) # "none" /\ OutSt(f, p) = "none")

\* The additions among all updates of a cell.
LEMMA CellAll ==
    ASSUME NEW c \in Channel
    PROVE  FirstAdds(c.cell, Len(c.cell)) = AddsIn(c)
  <1>1. c.cell \in Seq(Updates) /\ DOMAIN c.cell = 1 .. Len(c.cell)
    BY DEF Channel
  <1>2. \A i \in 1 .. Len(c.cell) : c.cell[i].op = "add" => c.cell[i].pay \in Payments
    BY <1>1 DEF Updates
  <1>3. FirstAdds(c.cell, Len(c.cell)) \subseteq AddsIn(c)
    BY <1>1 DEF FirstAdds, AddsIn, CellAdds, ToSet
  <1>4. AddsIn(c) \subseteq FirstAdds(c.cell, Len(c.cell))
    BY <1>1, <1>2 DEF FirstAdds, AddsIn, CellAdds, ToSet
  <1> QED
    BY <1>3, <1>4

\* A commitment built after HTLCs were placed and resolved.
LEMMA BuildRetains ==
    ASSUME NEW n, NEW c, NEW y \in Channel, Held(y), NEW A, SetOff(c, y, A), y.fate = c.fate,
           NEW f, f = BuildAndPause(n, y),
           \/ y.cell = <<>>
           \/ y.cell = c.cell /\ \A p \in Payments : InSt(c, p) = "Committed" => InSt(y, p) = "Committed"
    PROVE  Retains(c, f, A)
  <1>0. BuiltFrom(y, f)
    BY BuiltFields
  <1>1. Promoted(y, f)
    BY <1>0, HtlcsPromoted DEF BuiltFrom
  <1>2. f.fate \in {c.fate, "assert"} /\ f.pendAdds = c.pendAdds /\ f.pendFails = c.pendFails /\ f.cell = y.cell
    BY <1>0 DEF BuiltFrom, SetOff
  <1> HIDE DEF BuildAndPause
  <1>3. \A p \in Payments : p \notin A /\ OutSt(c, p) = "none" => OutSt(f, p) = "none"
    BY <1>1 DEF SetOff, Promoted, OutBuilt
  <1>4. \A p \in Payments : InSt(c, p) = "Committed" => InSt(f, p) \in {"Committed", "LocalRemoved"} /\ InId(f, p) = InId(c, p)
    <2> TAKE p \in Payments
    <2> HAVE InSt(c, p) = "Committed"
    <2>1. InSt(y, p) \in {"Committed", "LocalRemoved"}
      BY DEF SetOff
    <2>2. InSt(f, p) = InSt(y, p)
      BY <2>1, <1>1 DEF Promoted, InBuilt
    <2>3. InId(y, p) = InId(c, p)
      BY <2>1 DEF SetOff, IdsKept
    <2>4. InId(f, p) = InId(y, p)
      BY <2>1, <1>1 DEF Promoted
    <2> QED
      BY <2>1, <2>2, <2>3, <2>4
  <1>5. \A p \in Payments : InSt(y, p) = "Committed" => InSt(f, p) = "Committed"
    BY <1>1 DEF Promoted, InBuilt
  <1> QED
    BY <1>2, <1>3, <1>4, <1>5 DEF Retains

\* free_holding_cell_htlcs: a commitment is built, or nothing happens but that additions are given up.
LEMMA FreeEffect ==
    ASSUME NEW n, NEW c, Orderly(n, c), CellReady(c), can_generate_new_commitment(c),
           NEW tight, NEW e, e = free_holding_cell_htlcs(n, c, tight), NEW f, f = e.c
    PROVE  /\ Retains(c, f, AddsIn(c))
           /\ \/ Builds(c, f) /\ BuildView(c, f)
              \/ SameTurn(c, f) /\ SameHtlcs(c, f)
  <1>0. c \in Channel /\ Held(c) /\ IdsOnce(c.inb) /\ c.nextId \in Nat
    BY DEF Orderly, Channel
  <1>1. PICK y : /\ Emptied(c, y, Len(c.cell))
                 /\ e.did => e.c = BuildAndPause(n, y)
                 /\ ~e.did => e.c = y /\ SameHtlcs(c, y)
    BY <1>0, FreeEmpties
  <1>2. y \in Channel /\ Held(y) /\ SetOff(c, y, AddsIn(c)) /\ SameTurn(c, y) /\ y.cell = <<>> /\ y.fate = c.fate
    BY <1>0, <1>1, CellAll DEF Emptied
  <1>3. CASE e.did
    <2>1. f = BuildAndPause(n, y)
      BY <1>1, <1>3
    <2>2. Builds(c, f) /\ BuildView(c, f)
      BY <2>1, <1>0, <1>2, BuildsAfter
    <2>3. Retains(c, f, AddsIn(c))
      BY <2>1, <1>2, BuildRetains
    <2> QED
      BY <2>2, <2>3
  <1>4. CASE ~e.did
    <2>1. f = y /\ SameHtlcs(c, f)
      BY <1>1, <1>4
    <2>2. \A p : OutSt(f, p) = OutSt(c, p) /\ InSt(f, p) = InSt(c, p) /\ InId(f, p) = InId(c, p)
      BY <2>1 DEF SameHtlcs, OutSt, InSt, InId
    <2>3. Retains(c, f, AddsIn(c))
      BY <2>1, <2>2, <1>2 DEF Retains, SetOff
    <2> QED
      BY <2>1, <2>3, <1>2
  <1> QED
    BY <1>3, <1>4

-----------------------------------------------------------------------------
(* The effect of revoke_and_ack.                                           *)

\* The revocation alone.
LEMMA RevokedRetains ==
    ASSUME NEW c, NEW x, RevokedTo(c, x), NEW f, NEW A, Retains(x, f, A), \A p \in A : OutSt(c, p) = "none",
           \A p \in Payments : InSt(c, p) \in InStates \cup {"none"} /\ OutSt(c, p) \in OutStates \cup {"none"}
    PROVE  Retains(c, f, A)
  <1>1. f.fate \in {c.fate, "assert"}
    BY DEF RevokedTo, Retains
  <1>2. \A p \in Payments : p \notin A /\ OutSt(c, p) = "none" => OutSt(f, p) = "none"
    BY DEF RevokedTo, Retains, OutRevoked
  <1>3. \A p \in Payments : InSt(c, p) = "Committed" => InSt(x, p) = "Committed" /\ InId(x, p) = InId(c, p)
    BY DEF RevokedTo, InRevoked
  <1>4. \A p \in Payments : InSt(c, p) = "Committed" => InSt(f, p) \in {"Committed", "LocalRemoved"} /\ InId(f, p) = InId(c, p)
    BY <1>3 DEF Retains
  <1>5. \/ f.cell = <<>>
        \/ f.cell = c.cell /\ \A p \in Payments : InSt(c, p) = "Committed" => InSt(f, p) = "Committed"
    BY <1>3 DEF Retains, RevokedTo
  <1>6. \A p \in Payments : p \in f.pendAdds => p \in c.pendAdds \/ InSt(f, p) \in {"Committed", "LocalRemoved"}
    <2> TAKE p \in Payments
    <2> HAVE p \in f.pendAdds
    <2>1. CASE p \in x.pendAdds
      <3>1. CASE InSt(c, p) = "AwaitingAnnouncedRemoteRevoke"
        <4>1. InSt(x, p) = "Committed"
          BY <3>1 DEF RevokedTo, InRevoked
        <4> QED
          BY <4>1 DEF Retains
      <3> QED
        BY <2>1, <3>1 DEF RevokedTo
    <2> QED
      BY <2>1 DEF Retains
  <1>7. \A p \in Payments : p \in f.pendFails => p \in c.pendFails \/ (OutSt(c, p) # "none" /\ OutSt(f, p) = "none")
    <2> TAKE p \in Payments
    <2> HAVE p \in f.pendFails
    <2>1. CASE p \in x.pendFails
      <3>1. CASE OutSt(c, p) = "AwaitingRemovedRemoteRevoke"
        <4>1. OutSt(x, p) = "none" /\ p \notin A
          BY <3>1 DEF RevokedTo, OutRevoked
        <4> QED
          BY <4>1, <3>1 DEF Retains
      <3> QED
        BY <2>1, <3>1 DEF RevokedTo
    <2>2. CASE OutSt(x, p) # "none" /\ OutSt(f, p) = "none"
      BY <2>2 DEF RevokedTo, OutRevoked
    <2> QED
      BY <2>1, <2>2 DEF Retains
  <1> QED
    BY <1>1, <1>2, <1>4, <1>5, <1>6, <1>7 DEF Retains

\* A step that keeps the HTLCs keeps what the user was told.
LEMMA SameRetains ==
    ASSUME NEW x, NEW f, SameHtlcs(x, f), f.fate = x.fate, f.pendAdds = x.pendAdds, f.pendFails = x.pendFails,
           f.cell = x.cell \/ f.cell = <<>>, NEW A
    PROVE  Retains(x, f, A)
  <1>1. \A p : OutSt(f, p) = OutSt(x, p) /\ InSt(f, p) = InSt(x, p) /\ InId(f, p) = InId(x, p)
    BY DEF SameHtlcs, OutSt, InSt, InId
  <1> QED
    BY <1>1 DEF Retains

\* revoke_and_ack
LEMMA RevokeEffect ==
    ASSUME NEW n \in Nodes, NEW c, NEW I \in [Payments -> Int], NEW S,
           NEW L \in SUBSET Payments, NEW C \in SUBSET Payments, NEW R \in SUBSET Payments,
           NodeOK(n, c, I, S, L, C, R), IdsUnique(I), CellReady(c), ~c.disc, c.awaitRaa,
           NEW tight, maybe_free_holding_cell_htlcs(n, ApplyRevocation(c), tight) \in Accs, NEW f, f = revoke_and_ack(n, c, tight).c
    PROVE  /\ Retains(c, f, AddsIn(c))
           /\ \E b : Revokes(c, f, b) /\ RevokeView(c, f, b)
  <1> DEFINE x == ApplyRevocation(c)
             e == maybe_free_holding_cell_htlcs(n, x, tight)
  <1>1. CellReady(x) /\ Orderly(n, x) /\ RevokedTo(c, x)
    BY ReadyRevoked
  <1>2. Orderly(n, c)
    BY NodeOrderly
  <1>3. c \in Channel /\ x \in Channel /\ Held(x) /\ IdsOnce(x.inb) /\ c.nextId \in Nat /\ x.nextId \in Nat /\ x.cell = c.cell
    BY <1>1, <1>2 DEF Orderly, Channel, RevokedTo
  <1>4. AddsIn(x) = AddsIn(c)
    BY <1>3 DEF AddsIn, CellAdds
  <1>5. \A p \in AddsIn(c) : p \in Payments /\ OutSt(c, p) = "none"
    <2>1. \A p \in AddsIn(c) : p \in Payments /\ I[p] = -1
      BY AddsWait
    <2>2. \A p \in Payments : OutSt(c, p) # "none" => I[p] \in Nat
      BY NodeView
    <2> QED
      BY <2>1, <2>2
  <1>6. \A p \in Payments : InSt(c, p) \in InStates \cup {"none"} /\ OutSt(c, p) \in OutStates \cup {"none"}
    <2>1. \A p \in Payments : InSt(c, p) # "none" => InSt(c, p) \in InStates
      BY NodeView
    <2>2. \A p \in Payments : OutSt(c, p) # "none" => OutSt(c, p) \in OutStates
      BY NodeView
    <2> QED
      BY <2>1, <2>2
  <1>7. e \in Accs
    OBVIOUS
  <1>8. f = CASE e.did -> e.c
              [] ~e.did /\ RequireCommitment(c) -> BuildAndPause(n, e.c)
              [] ~e.did /\ ~RequireCommitment(c) -> monitor_updating_paused(e.c, FALSE, FALSE)
    <2> DEFINE b == BuildAndPause(n, e.c)
               q == monitor_updating_paused(e.c, FALSE, FALSE)
    <2>1. revoke_and_ack(n, c, tight) = CASE e.did -> e
            [] ~e.did /\ RequireCommitment(c) -> [e EXCEPT !.c = b]
            [] ~e.did /\ ~RequireCommitment(c) -> [e EXCEPT !.c = q]
      BY DEF revoke_and_ack
    <2> HIDE DEF b, q, e
    <2>2. e.did \in BOOLEAN
      BY <1>7 DEF Accs
    <2>3. [e EXCEPT !.c = b].c = b /\ [e EXCEPT !.c = q].c = q
      BY <1>7 DEF Accs
    <2>4. f = CASE e.did -> e.c
              [] ~e.did /\ RequireCommitment(c) -> b
              [] ~e.did /\ ~RequireCommitment(c) -> q
      BY <2>1, <2>2, <2>3
    <2> QED
      BY <2>4 DEF b, q
  <1>9. PICK y : /\ y \in Channel /\ Held(y) /\ SetOff(x, y, AddsIn(c)) /\ SameTurn(x, y) /\ y.fate = x.fate
                 /\ y.cell = <<>> \/ (y.cell = x.cell /\ SameHtlcs(x, y))
                 /\ e.did => e.c = BuildAndPause(n, y) /\ y.cell = <<>>
                 /\ ~e.did => e.c = y /\ SameHtlcs(x, y)
    <2>1. CASE can_generate_new_commitment(x)
      <3>1. e = free_holding_cell_htlcs(n, x, tight)
        BY <2>1 DEF maybe_free_holding_cell_htlcs
      <3> HIDE DEF e, x
      <3>2. PICK z : /\ Emptied(x, z, Len(x.cell))
                     /\ e.did => e.c = BuildAndPause(n, z)
                     /\ ~e.did => e.c = z /\ SameHtlcs(x, z)
        BY <3>1, <2>1, <1>1, <1>3, FreeEmpties
      <3>3. FirstAdds(x.cell, Len(x.cell)) = AddsIn(c)
        BY <1>3, <1>4, CellAll
      <3> QED
        BY <3>2, <3>3 DEF Emptied
    <2>2. CASE ~can_generate_new_commitment(x)
      <3>1. e = [c |-> x, failed |-> {}, did |-> FALSE]
        BY <2>2 DEF maybe_free_holding_cell_htlcs
      <3>2. e.c = x /\ ~e.did
        BY <3>1
      <3>3. SameHtlcs(x, x) /\ SameTurn(x, x)
        BY DEF SameHtlcs, SameTurn
      <3>4. SetOff(x, x, AddsIn(c))
        BY <3>3, <1>3, SetOffSelf
      <3> QED
        BY <3>2, <3>3, <3>4, <1>3
    <2> QED
      BY <2>1, <2>2
  <1> HIDE DEF e, x
  <1>10. e.did \in BOOLEAN
    BY <1>7 DEF Accs
  <1>11. CASE e.did \/ RequireCommitment(c)
    <2>1. f = BuildAndPause(n, y)
      BY <1>8, <1>9, <1>10, <1>11
    <2>2. Revokes(c, f, "build") /\ RevokeView(c, f, "build")
      BY <2>1, <1>1, <1>3, <1>5, <1>9, RevokesBuilt
    <2>3. \/ y.cell = <<>>
          \/ y.cell = x.cell /\ \A p \in Payments : InSt(x, p) = "Committed" => InSt(y, p) = "Committed"
      BY <1>9 DEF SameHtlcs, InSt
    <2>4. Retains(x, f, AddsIn(c))
      BY <2>1, <2>3, <1>9, BuildRetains
    <2>5. Retains(c, f, AddsIn(c))
      BY <2>4, <1>1, <1>5, <1>6, RevokedRetains
    <2> QED
      BY <2>2, <2>5
  <1>12. CASE ~e.did /\ ~RequireCommitment(c)
    <2>1. f = monitor_updating_paused(y, FALSE, FALSE) /\ SameHtlcs(x, y)
      BY <1>8, <1>9, <1>10, <1>12
    <2>2. \A p \in Payments : /\ InSt(c, p) # "AwaitingRemoteRevokeToAnnounce"
                               /\ OutSt(c, p) # "AwaitingRemoteRevokeToRemove"
      <3>1. \A p \in Payments : InSt(c, p) # "none" => \E h \in c.inb : h.st = InSt(c, p)
        <4>1. \A p \in Payments : InSt(c, p) # "none" =>
                /\ PayTo(p) = n /\ InId(c, p) = I[p] /\ I[p] \in Nat /\ InSt(c, p) \in InStates
                /\ \E h \in c.inb : h.pay = p /\ h.st = InSt(c, p) /\ h.id = I[p]
          BY NodeView
        <4> QED
          BY <4>1
      <3>2. \A p \in Payments : OutSt(c, p) # "none" => \E h \in c.out : h.st = OutSt(c, p)
        <4>1. \A p \in Payments : OutSt(c, p) # "none" =>
                /\ PayFrom[p] = n /\ OutId(c, p) = I[p] /\ I[p] \in Nat /\ OutSt(c, p) \in OutStates
                /\ \E h \in c.out : h.pay = p /\ h.st = OutSt(c, p) /\ h.id = I[p]
          BY NodeView
        <4> QED
          BY <4>1
      <3> QED
        BY <3>1, <3>2, <1>12 DEF RequireCommitment
    <2>3. Revokes(c, f, "none") /\ RevokeView(c, f, "none")
      BY <2>1, <2>2, <1>1, <1>3, <1>9, RevokesPaused
    <2>4. /\ f.inb = y.inb /\ f.out = y.out /\ f.nextId = y.nextId /\ f.nextCpId = y.nextCpId /\ f.txs = y.txs
          /\ f.fate = y.fate /\ f.pendAdds = y.pendAdds /\ f.pendFails = y.pendFails /\ f.cell = y.cell
      BY <2>1, <1>9 DEF monitor_updating_paused, Channel
    <2>5. Retains(x, f, AddsIn(c))
      <3>1. SameHtlcs(x, f) /\ f.fate = x.fate /\ f.pendAdds = x.pendAdds /\ f.pendFails = x.pendFails
        BY <2>1, <2>4, <1>9 DEF SameHtlcs, SetOff
      <3>2. f.cell = x.cell \/ f.cell = <<>>
        BY <2>4, <1>9
      <3> QED
        BY <3>1, <3>2, SameRetains
    <2>6. Retains(c, f, AddsIn(c))
      BY <2>5, <1>1, <1>5, <1>6, RevokedRetains
    <2> QED
      BY <2>3, <2>6
  <1> QED
    BY <1>11, <1>12, <1>10

-----------------------------------------------------------------------------
(* A commitment that is accepted.                                          *)

\* HTLCs moved on by a commitment that is accepted.
SignedFrom(c, d, tx) ==
    /\ d.inb = Promote(c.inb, "RemoteAnnounced", "AwaitingRemoteRevokeToAnnounce")
    /\ d.out = Promote(c.out, "RemoteRemoved", "AwaitingRemoteRevokeToRemove")
    /\ d.nextId = c.nextId /\ d.nextCpId = c.nextCpId /\ d.txs = [prev |-> c.txs.cur, cur |-> tx]
    /\ d.cell = c.cell /\ d.fate = c.fate /\ d.pendAdds = c.pendAdds /\ d.pendFails = c.pendFails
    /\ d.holderNum = c.holderNum + 1 /\ d.cpNum = c.cpNum /\ d.order = "CommitmentFirst"
    /\ (d.awaitRaa <=> c.awaitRaa) /\ (d.monBusy <=> c.monBusy) /\ (d.disc <=> c.disc)
    /\ (d.pendRaa <=> c.pendRaa) /\ (d.pendCs <=> c.pendCs)

\* A commitment that is accepted calls for one in answer.
NeedsCommitment(c) == \/ \E h \in c.inb : h.st = "RemoteAnnounced"
                      \/ \E h \in c.out : h.st = "RemoteRemoved"

\* d: before a commitment is built in answer.
SignedFirst(c, tx) ==
    [c EXCEPT !.holderNum = @ + 1,
              !.txs = [prev |-> @.cur, cur |-> tx],
              !.inb = Promote(@, "RemoteAnnounced", "AwaitingRemoteRevokeToAnnounce"),
              !.out = Promote(@, "RemoteRemoved", "AwaitingRemoteRevokeToRemove"),
              !.expCs = FALSE, !.order = "CommitmentFirst"]

\* commitment_signed_update_monitor in two parts: accept, then answer.
LEMMA SignedSplit ==
    ASSUME NEW n, NEW c, NEW tx
    PROVE  commitment_signed_update_monitor(n, c, tx) =
            LET d == SignedFirst(c, tx)
                commit == NeedsCommitment(c) /\ ~c.awaitRaa
            IN monitor_updating_paused(IF commit THEN build_commitment_no_status_check(n, d) ELSE d, TRUE, commit)
  BY DEF commitment_signed_update_monitor, SignedFirst, NeedsCommitment

\* The fields of a channel that has accepted a commitment.
LEMMA SignedFields ==
    ASSUME NEW c, NEW n, Orderly(n, c), NEW tx \in Txs, NEW d, d = SignedFirst(c, tx)
    PROVE  d \in Channel /\ SignedFrom(c, d, tx) /\ Viewed(d.inb) /\ Viewed(d.out) /\ Held(d)
  <1>0. /\ c \in Channel /\ c.holderNum \in Nat /\ Viewed(c.inb) /\ Viewed(c.out) /\ IsFiniteSet(c.inb) /\ IsFiniteSet(c.out)
        /\ c.inb \subseteq InHtlcs /\ c.out \subseteq OutHtlcs /\ c.txs \in [prev : Txs, cur : Txs]
    BY DEF Orderly, Channel, Held
  <1>1. /\ Promote(c.inb, "RemoteAnnounced", "AwaitingRemoteRevokeToAnnounce") \subseteq InHtlcs
        /\ Viewed(Promote(c.inb, "RemoteAnnounced", "AwaitingRemoteRevokeToAnnounce"))
    <2>1. "AwaitingRemoteRevokeToAnnounce" \in InStates /\ \A g, h \in c.inb : g.pay = h.pay => g = h
      BY <1>0 DEF InStates, Viewed, OncePaid
    <2>2. Promote(c.inb, "RemoteAnnounced", "AwaitingRemoteRevokeToAnnounce") \subseteq InHtlcs
      BY <1>0, <2>1, PromoteFacts
    <2> QED
      BY <1>0, <2>2, PromoteView
  <1>2. /\ Promote(c.out, "RemoteRemoved", "AwaitingRemoteRevokeToRemove") \subseteq OutHtlcs
        /\ Viewed(Promote(c.out, "RemoteRemoved", "AwaitingRemoteRevokeToRemove"))
    <2>1. "AwaitingRemoteRevokeToRemove" \in OutStates /\ \A g, h \in c.out : g.pay = h.pay => g = h
      BY <1>0 DEF OutStates, Viewed, OncePaid
    <2>2. Promote(c.out, "RemoteRemoved", "AwaitingRemoteRevokeToRemove") \subseteq OutHtlcs
      BY <1>0, <2>1, PromoteFacts
    <2> QED
      BY <1>0, <2>2, PromoteView
  <1> HIDE DEF Promote
  <1>3. d \in Channel
    <2>1. c.holderNum + 1 \in Nat /\ [prev |-> c.txs.cur, cur |-> tx] \in [prev : Txs, cur : Txs]
      BY <1>0
    <2> DEFINE X == Promote(c.inb, "RemoteAnnounced", "AwaitingRemoteRevokeToAnnounce")
               Y == Promote(c.out, "RemoteRemoved", "AwaitingRemoteRevokeToRemove")
               Z == [prev |-> c.txs.cur, cur |-> tx]
               N == c.holderNum + 1
    <2>2. X \in SUBSET InHtlcs /\ Y \in SUBSET OutHtlcs /\ Z \in [prev : Txs, cur : Txs] /\ N \in Nat
      BY <1>1, <1>2, <2>1
    <2> DEFINE c1 == [c EXCEPT !.holderNum = N, !.txs = Z]
               c2 == [c1 EXCEPT !.inb = X, !.out = Y]
               c3 == [c2 EXCEPT !.expCs = FALSE, !.order = "CommitmentFirst"]
    <2>3. d = c3
      BY <1>0 DEF SignedFirst, Channel
    <2> HIDE DEF X, Y, Z, N
    <2>4. c1 \in Channel
      BY <1>0, <2>2 DEF Channel
    <2> HIDE DEF c1
    <2>5. c2 \in Channel
      BY <2>2, <2>4 DEF Channel
    <2> HIDE DEF c2
    <2>6. c3 \in Channel
      BY <2>5 DEF Channel
    <2> QED
      BY <2>3, <2>6
  <1>4. SignedFrom(c, d, tx)
    BY <1>0 DEF SignedFirst, SignedFrom, Channel
  <1>5. Viewed(d.inb) /\ Viewed(d.out)
    BY <1>4, <1>1, <1>2 DEF SignedFrom
  <1>6. \A h \in d.inb \cup d.out : h.pay \in Payments
    BY <1>3 DEF Channel, InHtlcs, OutHtlcs
  <1> QED
    BY <1>3, <1>4, <1>5, <1>6 DEF Held

\* The view after the commitment was accepted.
LEMMA SignedView ==
    ASSUME NEW c, Held(c), c.inb \subseteq InHtlcs, c.out \subseteq OutHtlcs, NEW d, NEW tx, SignedFrom(c, d, tx)
    PROVE  \A p \in Payments :
                /\ InSt(d, p) = InAccepted(InSt(c, p)) /\ OutSt(d, p) = OutAccepted(OutSt(c, p))
                /\ InSt(c, p) # "none" => InId(d, p) = InId(c, p)
                /\ OutSt(c, p) # "none" => OutId(d, p) = OutId(c, p)
  <1>1. \A p : /\ InSt(c, p) = "none" <=> InSt(d, p) = "none"
               /\ InSt(c, p) # "none" =>
                    /\ InSt(d, p) = IF InSt(c, p) = "RemoteAnnounced" THEN "AwaitingRemoteRevokeToAnnounce" ELSE InSt(c, p)
                    /\ InId(d, p) = InId(c, p)
    BY PromoteView DEF InSt, InId, SignedFrom, Held
  <1>2. \A p : /\ OutSt(c, p) = "none" <=> OutSt(d, p) = "none"
               /\ OutSt(c, p) # "none" =>
                    /\ OutSt(d, p) = IF OutSt(c, p) = "RemoteRemoved" THEN "AwaitingRemoteRevokeToRemove" ELSE OutSt(c, p)
                    /\ OutId(d, p) = OutId(c, p)
    BY PromoteView DEF OutSt, OutId, SignedFrom, Held
  <1> QED
    BY <1>1, <1>2 DEF InAccepted, OutAccepted

\* What the transaction pays that a node rebuilds to verify a signature.
Verifies(n, c, num, tx) == tx = build_commitment_transaction(n, c, num, FALSE)

\* The transaction a node rebuilds pays the HTLCs it knows of and has not seen removed.
LEMMA RemoteTx ==
    ASSUME NEW n, NEW c, Orderly(n, c), NEW num, NEW tx, Verifies(n, c, num, tx)
    PROVE  /\ \A p \in Payments : p \in tx.htlcs <=> InSt(c, p) # "none" \/ OutSt(c, p) = "Committed"
           /\ tx.num = num
  <1>1. tx.num = num
    BY DEF build_commitment_transaction, Verifies
  <1>2. tx.htlcs = {h.pay : h \in c.inb \cup {g \in c.out : g.st = "Committed"}}
    BY DEF build_commitment_transaction, Verifies, InIncluded, OutIncluded
  <1>3. Viewed(c.inb) /\ Viewed(c.out)
    BY DEF Orderly, Held
  <1>4. \A p : InSt(c, p) # "none" <=> \E h \in c.inb : h.pay = p
    BY <1>3, ViewOf DEF InSt
  <1>5. \A p : OutSt(c, p) = "Committed" <=> \E h \in c.out : h.pay = p /\ h.st = "Committed"
    <2>1. \A h \in c.out : OutSt(c, h.pay) = h.st
      BY <1>3, ViewOf DEF OutSt
    <2>2. \A p : OutSt(c, p) # "none" => \E h \in c.out : h.pay = p
      BY <1>3, ViewOf DEF OutSt
    <2> QED
      BY <2>1, <2>2
    <1> QED
    BY <1>1, <1>2, <1>4, <1>5

-----------------------------------------------------------------------------
(* The effect of commitment_signed.                                        *)

\* The channel d after a commitment was built in answer to one, and after none was.
Answered(d, f) ==
    /\ f.inb = Promote(d.inb, "AwaitingRemoteRevokeToAnnounce", "AwaitingAnnouncedRemoteRevoke")
    /\ f.out = Promote(d.out, "AwaitingRemoteRevokeToRemove", "AwaitingRemovedRemoteRevoke")
    /\ f.order = "RevokeAndACKFirst" /\ f.awaitRaa = TRUE /\ f.monBusy = TRUE /\ f.pendCs = TRUE /\ f.pendRaa = TRUE
    /\ (f.disc <=> d.disc)
    /\ f.holderNum = d.holderNum /\ f.cpNum = d.cpNum /\ f.nextId = d.nextId /\ f.nextCpId = d.nextCpId
    /\ f.txs = d.txs /\ f.cell = d.cell /\ f.pendAdds = d.pendAdds /\ f.pendFails = d.pendFails
    /\ f.fate \in {d.fate, "assert"}

\* The channel d after no commitment was built in answer to one.
Unanswered(d, f) ==
    /\ f.inb = d.inb /\ f.out = d.out
    /\ f.order = d.order /\ (f.awaitRaa <=> d.awaitRaa) /\ f.monBusy = TRUE /\ (f.pendCs <=> d.pendCs) /\ f.pendRaa = TRUE
    /\ (f.disc <=> d.disc)
    /\ f.holderNum = d.holderNum /\ f.cpNum = d.cpNum /\ f.nextId = d.nextId /\ f.nextCpId = d.nextCpId
    /\ f.txs = d.txs /\ f.cell = d.cell /\ f.pendAdds = d.pendAdds /\ f.pendFails = d.pendFails
    /\ f.fate = d.fate

\* The fields of a channel that has answered, or not.
LEMMA AnswerFields ==
    ASSUME NEW n, NEW d \in Channel
    PROVE  /\ Answered(d, monitor_updating_paused(build_commitment_no_status_check(n, d), TRUE, TRUE))
           /\ Unanswered(d, monitor_updating_paused(d, TRUE, FALSE))
  <1>1. Answered(d, monitor_updating_paused(build_commitment_no_status_check(n, d), TRUE, TRUE))
    BY DEF Answered, build_commitment_no_status_check, monitor_updating_paused, Ends, Channel
  <1>2. Unanswered(d, monitor_updating_paused(d, TRUE, FALSE))
    BY DEF Unanswered, monitor_updating_paused, Channel
  <1> QED
    BY <1>1, <1>2

\* What is kept.
Along(c, f) == f.fate \in {c.fate, "assert"} /\ f.cell = c.cell /\ f.pendAdds = c.pendAdds /\ f.pendFails = c.pendFails

\* A commitment that is accepted keeps what the user was told.
LEMMA AcceptRetains ==
    ASSUME NEW c, NEW f, Along(c, f), NEW b, NEW tx, AcceptView(c, f, b, tx)
    PROVE  Retains(c, f, {})
  <1>1. \A p \in Payments : OutSt(c, p) = "none" => OutSt(f, p) = "none"
    BY DEF AcceptView, OutBuilt, OutAccepted
  <1>2. \A p \in Payments : InSt(c, p) = "Committed" => InSt(f, p) = "Committed"
    BY DEF AcceptView, InBuilt, InAccepted
  <1>3. \A p \in Payments : InSt(c, p) = "Committed" => InId(f, p) = InId(c, p)
    BY <1>2 DEF AcceptView, IdsKept
  <1> QED
    BY <1>1, <1>2, <1>3 DEF Retains, Along

\* HTLCs that keep their ids.
LEMMA AcceptIds ==
    ASSUME NEW c, NEW f, f.nextId = c.nextId, c.nextId \in Nat,
           \A p \in Payments : OutSt(c, p) # "none" => OutId(f, p) = OutId(c, p),
           \A p \in Payments : InSt(c, p) # "none" => InId(f, p) = InId(c, p)
    PROVE  IdsKept(c, f)
  <1>1. \A k \in Nat : k .. k - 1 = {}
    OBVIOUS
  <1> QED
    BY <1>1 DEF IdsKept

\* A channel that has nothing to answer.
LEMMA NeedsView ==
    ASSUME NEW n, NEW c, Orderly(n, c), ~NeedsCommitment(c)
    PROVE  \A p \in Payments : InSt(c, p) # "RemoteAnnounced" /\ OutSt(c, p) # "RemoteRemoved"
  <1>1. Viewed(c.inb) /\ Viewed(c.out)
    BY DEF Orderly, Held
  <1>2. \A p : StOf(c.inb, p) # "none" => \E h \in c.inb : h.pay = p /\ h.st = StOf(c.inb, p)
    BY <1>1, ViewOf
  <1>3. \A p : StOf(c.out, p) # "none" => \E h \in c.out : h.pay = p /\ h.st = StOf(c.out, p)
    BY <1>1, ViewOf
  <1> QED
    BY <1>2, <1>3 DEF InSt, OutSt, NeedsCommitment

\* commitment_signed
LEMMA AcceptEffect ==
    ASSUME NEW n, NEW c, Orderly(n, c), NEW tx \in Txs, Verifies(n, c, c.holderNum, tx),
           ~c.disc, NEW f, f = commitment_signed_update_monitor(n, c, tx)
    PROVE  /\ Retains(c, f, {})
           /\ \E b : Accepts(c, f, b) /\ AcceptView(c, f, b, tx)
  <1> DEFINE d == SignedFirst(c, tx)
  <1>1. d \in Channel /\ SignedFrom(c, d, tx) /\ Held(d)
    BY SignedFields
  <1>2. c.nextId \in Nat /\ Held(c) /\ c.inb \subseteq InHtlcs /\ c.out \subseteq OutHtlcs
    BY DEF Orderly, Channel
  <1>3. \A p \in Payments :
                /\ InSt(d, p) = InAccepted(InSt(c, p)) /\ OutSt(d, p) = OutAccepted(OutSt(c, p))
                /\ InSt(c, p) # "none" => InId(d, p) = InId(c, p)
                /\ OutSt(c, p) # "none" => OutId(d, p) = OutId(c, p)
    BY <1>1, <1>2, SignedView
  <1>4. /\ \A p \in Payments : p \in tx.htlcs <=> InSt(c, p) # "none" \/ OutSt(c, p) = "Committed"
        /\ tx.num = c.holderNum
    <2>1. \A p \in Payments : p \in tx.htlcs <=> InSt(c, p) # "none" \/ OutSt(c, p) = "Committed"
      BY RemoteTx
    <2>2. tx.num = c.holderNum
      BY RemoteTx
    <2> QED
      BY <2>1, <2>2
  <1>5. \A p \in Payments : /\ InSt(c, p) # "none" => InSt(d, p) # "none"
                            /\ OutSt(c, p) # "none" => OutSt(d, p) # "none"
    BY <1>3 DEF InAccepted, OutAccepted
  <1>6. CASE NeedsCommitment(c) /\ ~c.awaitRaa
    <2>1. f = monitor_updating_paused(build_commitment_no_status_check(n, d), TRUE, TRUE)
      BY <1>6, SignedSplit
    <2>2. Answered(d, f)
      BY <2>1, <1>1, AnswerFields
    <2> HIDE DEF d
    <2>3. Promoted(d, f)
      BY <2>2, <1>1, HtlcsPromoted DEF Answered
    <2>4. Accepts(c, f, "build")
      BY <1>6, <2>2, <1>1 DEF Accepts, Answered, SignedFrom, RaaFirst
    <2>5. \A p \in Payments : /\ InSt(f, p) = InBuilt(InAccepted(InSt(c, p)))
                              /\ OutSt(f, p) = OutBuilt(OutAccepted(OutSt(c, p)))
      BY <2>3, <1>3 DEF Promoted
    <2>6. IdsKept(c, f)
      <3>1. \A p \in Payments : OutSt(c, p) # "none" => OutId(f, p) = OutId(c, p)
        BY <2>3, <1>3, <1>5 DEF Promoted
      <3>2. \A p \in Payments : InSt(c, p) # "none" => InId(f, p) = InId(c, p)
        BY <2>3, <1>3, <1>5 DEF Promoted
      <3>3. f.nextId = c.nextId
        BY <2>2, <1>1 DEF Answered, SignedFrom
      <3> QED
        BY <3>1, <3>2, <3>3, <1>2, AcceptIds
    <2>7. f.nextId = c.nextId /\ f.nextCpId = c.nextCpId /\ f.txs = [prev |-> c.txs.cur, cur |-> tx]
      BY <2>2, <1>1 DEF Answered, SignedFrom
    <2>8. AcceptView(c, f, "build", tx)
      BY <2>5, <2>6, <2>7, <1>4 DEF AcceptView
    <2>9. Along(c, f)
      BY <2>2, <1>1 DEF Along, Answered, SignedFrom
    <2>10. Retains(c, f, {})
      BY <2>8, <2>9, AcceptRetains
    <2>11. \E b : Accepts(c, f, b) /\ AcceptView(c, f, b, tx)
      BY ONLY <2>4, <2>8, Zenon
    <2> QED
      BY ONLY <2>11, <2>10
  <1>7. CASE ~(NeedsCommitment(c) /\ ~c.awaitRaa)
    <2>1. f = monitor_updating_paused(d, TRUE, FALSE)
      BY <1>7, SignedSplit
    <2>2. Unanswered(d, f)
      BY <2>1, <1>1, AnswerFields
    <2> HIDE DEF d
    <2>4. Accepts(c, f, "none")
      BY <1>7, <2>2, <1>1 DEF Accepts, Unanswered, SignedFrom, RaaFirst
    <2>3. \A p \in Payments : InSt(f, p) = InSt(d, p) /\ OutSt(f, p) = OutSt(d, p) /\ InId(f, p) = InId(d, p) /\ OutId(f, p) = OutId(d, p)
      BY <2>2 DEF Unanswered, InSt, OutSt, InId, OutId
    <2>5. \A p \in Payments : /\ InSt(f, p) = InAccepted(InSt(c, p))
                              /\ OutSt(f, p) = OutAccepted(OutSt(c, p))
      BY <2>3, <1>3
    <2>6. IdsKept(c, f)
      <3>1. \A p \in Payments : OutSt(c, p) # "none" => OutId(f, p) = OutId(c, p)
        BY <2>3, <1>3
      <3>2. \A p \in Payments : InSt(c, p) # "none" => InId(f, p) = InId(c, p)
        BY <2>3, <1>3
      <3>3. f.nextId = c.nextId
        BY <2>2, <1>1 DEF Unanswered, SignedFrom
      <3> QED
        BY <3>1, <3>2, <3>3, <1>2, AcceptIds
    <2>7. f.nextId = c.nextId /\ f.nextCpId = c.nextCpId /\ f.txs = [prev |-> c.txs.cur, cur |-> tx]
      BY <2>2, <1>1 DEF Unanswered, SignedFrom
    <2>71. \/ c.awaitRaa
           \/ \A p \in Payments : InSt(c, p) # "RemoteAnnounced" /\ OutSt(c, p) # "RemoteRemoved"
      <3>1. CASE c.awaitRaa
        BY <3>1
      <3>2. CASE ~c.awaitRaa
        <4>1. ~NeedsCommitment(c)
          BY <1>7, <3>2
        <4> QED
          BY <4>1, NeedsView
      <3> QED
        BY <3>1, <3>2
    <2>8. AcceptView(c, f, "none", tx)
      BY <2>5, <2>6, <2>7, <2>71, <1>4 DEF AcceptView
    <2>9. Along(c, f)
      BY <2>2, <1>1 DEF Along, Unanswered, SignedFrom
    <2>10. Retains(c, f, {})
      BY <2>8, <2>9, AcceptRetains
    <2>11. \E b : Accepts(c, f, b) /\ AcceptView(c, f, b, tx)
      BY ONLY <2>4, <2>8, Zenon
    <2> QED
      BY ONLY <2>11, <2>10
  <1> QED
    BY <1>6, <1>7

-----------------------------------------------------------------------------
(* The effect of additions and removals that arrive.                       *)

\* update_add_htlc
LEMMA AddEffect ==
    ASSUME NEW n, NEW c, Orderly(n, c), NEW p \in Payments, InSt(c, p) = "none",
           NEW f, f = Received(c, c.nextCpId, p)
    PROVE  Steady(c, f) /\ AddView(c, f, p) /\ Retains(c, f, {})
  <1> DEFINE g == [id |-> c.nextCpId, pay |-> p, st |-> "RemoteAnnounced", out |-> "none"]
  <1>0. c \in Channel /\ Viewed(c.inb) /\ c.nextCpId \in Nat /\ c.nextId \in Nat
    BY DEF Orderly, Held, Channel
  <1>1. f = [c EXCEPT !.nextCpId = @ + 1, !.inb = @ \cup {g}]
    BY DEF Received
  <1>2. g.pay = p /\ g.st = "RemoteAnnounced" /\ g.id = c.nextCpId
    OBVIOUS
  <1> HIDE DEF g
  <1>3. /\ f.inb = c.inb \cup {g} /\ f.nextCpId = c.nextCpId + 1 /\ f.out = c.out /\ f.nextId = c.nextId
        /\ f.txs = c.txs /\ Along(c, f)
    BY <1>0, <1>1 DEF Channel, Along
  <1>4. Steady(c, f)
    BY <1>0, <1>1 DEF Channel, Steady
  <1>5. /\ InSt(f, p) = "RemoteAnnounced" /\ InId(f, p) = c.nextCpId
        /\ \A o : o # p => /\ InSt(f, o) = InSt(c, o)
                           /\ InSt(c, o) # "none" => InId(f, o) = InId(c, o)
    BY <1>0, <1>2, <1>3, InsertView DEF InSt, InId
  <1>6. \A o : OutSt(f, o) = OutSt(c, o) /\ OutId(f, o) = OutId(c, o)
    BY <1>3 DEF OutSt, OutId
  <1>7. IdsKept(c, f)
    <2>1. \A o \in Payments : InSt(c, o) # "none" => InId(f, o) = InId(c, o)
      BY <1>5
    <2> QED
      BY <2>1, <1>0, <1>3, <1>6, AcceptIds
  <1>8. AddView(c, f, p)
    BY <1>3, <1>5, <1>6, <1>7 DEF AddView
  <1>9. Retains(c, f, {})
    <2>1. \A o \in Payments : InSt(c, o) = "Committed" => InSt(f, o) = "Committed" /\ InId(f, o) = InId(c, o)
      BY <1>5
    <2> QED
      BY <2>1, <1>3, <1>6 DEF Retains, Along
  <1> QED
    BY <1>4, <1>8, <1>9

\* update_fulfill_htlc, update_fail_htlc
LEMMA RemEffect ==
    ASSUME NEW n, NEW c, Orderly(n, c), NEW h \in c.out, h.st = "Committed", NEW o,
           NEW f, f = RemoteRemove(c, h.id, o)
    PROVE  Steady(c, f) /\ RemView(c, f, h.pay) /\ Retains(c, f, {})
  <1> DEFINE r(g) == IF g.id = h.id THEN [g EXCEPT !.st = "RemoteRemoved", !.out = o] ELSE g
  <1>0. c \in Channel /\ Viewed(c.out) /\ c.nextId \in Nat /\ c.out \subseteq OutHtlcs /\ h.pay \in Payments
    BY DEF Orderly, Held, Channel
  <1>1. f = [c EXCEPT !.out = {r(g) : g \in @}]
    BY DEF RemoteRemove
  <1>2. \A g \in c.out : /\ r(g).pay = g.pay /\ r(g).id = g.id
                         /\ r(g).st = IF g = h THEN "RemoteRemoved" ELSE g.st
    <2> TAKE g \in c.out
    <2>1. g \in OutHtlcs /\ (g.id = h.id => g = h)
      BY <1>0 DEF Orderly, IdsOnce
    <2> QED
      BY <2>1 DEF OutHtlcs
  <1> HIDE DEF r
  <1>3. /\ f.out = {r(g) : g \in c.out} /\ f.inb = c.inb /\ f.nextCpId = c.nextCpId /\ f.nextId = c.nextId
        /\ f.txs = c.txs /\ Along(c, f)
    BY <1>0, <1>1 DEF Channel, Along
  <1>4. Steady(c, f)
    BY <1>0, <1>1 DEF Channel, Steady
  <1>5. Recast(c.out, f.out)
    <2>1. \A g \in f.out : g.st # "none" /\ \E x \in c.out : g.pay = x.pay
      BY <1>0, <1>2, <1>3 DEF Viewed
    <2>2. \A x \in c.out : \E g \in f.out : g.pay = x.pay /\ g.id = x.id
      BY <1>2, <1>3
    <2>3. \A g, x \in f.out : g.pay = x.pay => g = x
      BY <1>0, <1>2, <1>3 DEF Viewed, OncePaid
    <2> QED
      BY <2>1, <2>2, <2>3 DEF Recast
  <1>6. /\ Viewed(f.out)
        /\ \A p : OutSt(f, p) = "none" <=> OutSt(c, p) = "none"
        /\ \A p : OutSt(c, p) # "none" => OutId(f, p) = OutId(c, p)
    BY <1>0, <1>5, RecastView DEF OutSt, OutId
  <1>7. \A g \in c.out : OutSt(c, g.pay) = g.st /\ OutSt(f, g.pay) = r(g).st
    <2> TAKE g \in c.out
    <2>1. OutSt(c, g.pay) = g.st
      BY <1>0, ViewOf DEF OutSt
    <2>2. r(g) \in f.out
      BY <1>3
    <2>3. OutSt(f, r(g).pay) = r(g).st
      BY <1>6, <2>2, ViewOf DEF OutSt
    <2> QED
      BY <2>1, <2>3, <1>2
  <1>8. \A p \in Payments : p # h.pay => OutSt(f, p) = OutSt(c, p)
    <2> TAKE p \in Payments
    <2> HAVE p # h.pay
    <2>1. CASE OutSt(c, p) = "none"
      BY <2>1, <1>6
    <2>2. CASE OutSt(c, p) # "none"
      <3>1. PICK g \in c.out : g.pay = p
        BY <2>2, <1>0, ViewOf DEF OutSt
      <3> QED
        BY <3>1, <1>7, <1>2
    <2> QED
      BY <2>1, <2>2
  <1>9. \A p : InSt(f, p) = InSt(c, p) /\ InId(f, p) = InId(c, p)
    BY <1>3 DEF InSt, InId
  <1>10. IdsKept(c, f)
    BY <1>0, <1>3, <1>6, <1>9, AcceptIds
  <1>11. OutSt(c, h.pay) = "Committed" /\ OutSt(f, h.pay) = "RemoteRemoved"
    BY <1>7, <1>2
  <1>12. RemView(c, f, h.pay)
    BY <1>0, <1>3, <1>8, <1>9, <1>10, <1>11 DEF RemView
  <1>13. Retains(c, f, {})
    BY <1>3, <1>6, <1>9 DEF Retains, Along
  <1> QED
    BY <1>4, <1>12, <1>13

-----------------------------------------------------------------------------
(* The effect of a lost connection.                                        *)

\* A channel whose connection was lost has forgotten what was not signed for.
Forgot(c) == c.disc => \A p \in Payments : InSt(c, p) # "RemoteAnnounced" /\ OutSt(c, p) # "RemoteRemoved"

\* The HTLCs forgotten are the ids from k on.
LEMMA DroppedCount ==
    ASSUME NEW n \in Nodes, NEW c, NEW I \in [Payments -> Int], NEW S,
           NEW L \in SUBSET Payments, NEW C \in SUBSET Payments, NEW R \in SUBSET Payments,
           NodeOK(n, c, I, S, L, C, R), IdsUnique(I), NEW k, SeenOK(n, c, I, L, C, R, k)
    PROVE  c.nextCpId - Cardinality({h \in c.inb : h.st = "RemoteAnnounced"}) = k
  <1> DEFINE dropped == {h \in c.inb : h.st = "RemoteAnnounced"}
             f == [h \in dropped |-> h.id]
             K == k .. c.nextCpId - 1
  <1>0. c \in Channel /\ c.inb \subseteq InHtlcs /\ c.nextCpId \in Nat /\ IsFiniteSet(c.inb) /\ IdsOnce(c.inb)
    <2>1. Orderly(n, c)
      BY NodeOrderly
    <2> QED
      BY <2>1 DEF Orderly, Channel
  <1>1. IsFiniteSet(dropped)
    BY <1>0, FS_Subset
  <1>2. f \in [dropped -> K]
    BY <1>0 DEF SeenOK, InHtlcs
  <1>3. \A i \in K : \E h \in dropped : f[h] = i
    BY DEF SeenOK
  <1>4. ASSUME NEW g \in dropped, NEW h \in dropped, g.id = h.id PROVE g = h
    BY <1>0, <1>4 DEF IdsOnce
  <1>5. f \in Bijection(dropped, K)
    BY <1>2, <1>3, <1>4 DEF Bijection, Injection, Surjection, IsInjective
  <1>6. ExistsBijection(dropped, K)
    BY <1>5 DEF ExistsBijection
  <1>7. k \in Int /\ c.nextCpId - 1 \in Int /\ k <= c.nextCpId
    BY <1>0 DEF SeenOK
  <1> HIDE DEF f, dropped
  <1>8. Cardinality(K) = Cardinality(dropped)
    BY <1>1, <1>6, FS_Bijection
  <1>9. Cardinality(K) = IF k > c.nextCpId - 1 THEN 0 ELSE c.nextCpId - 1 - k + 1
    BY <1>7, FS_Interval
  <1> HIDE DEF K
  <1>10. c.nextCpId - Cardinality(dropped) = k
    BY <1>0, <1>7, <1>8, <1>9
  <1> QED
    BY <1>10 DEF dropped

\* The fields of a channel whose connection is lost.
Dropped(c, f, k) ==
    /\ f.inb = c.inb \ {h \in c.inb : h.st = "RemoteAnnounced"}
    /\ f.out = {IF h.st = "RemoteRemoved" THEN [h EXCEPT !.st = "Committed", !.out = "none"] ELSE h : h \in c.out}
    /\ f.nextCpId = k /\ f.nextId = c.nextId /\ f.txs = c.txs /\ f.disc

\* The fields of a channel whose connection was lost.
LEMMA DroppedFields ==
    ASSUME NEW c \in Channel, ~c.disc, NEW k, c.nextCpId - Cardinality({h \in c.inb : h.st = "RemoteAnnounced"}) = k,
           NEW f, f = remove_uncommitted_htlcs_and_mark_paused(c)
    PROVE  Dropped(c, f, k) /\ Drops(c, f) /\ Along(c, f)
  <1> DEFINE U == c.inb \ {h \in c.inb : h.st = "RemoteAnnounced"}
             T == {IF h.st = "RemoteRemoved" THEN [h EXCEPT !.st = "Committed", !.out = "none"] ELSE h : h \in c.out}
  <1>1. f = [c EXCEPT !.feeSent = 0, !.pendClosing = NoClosing, !.inb = U, !.nextCpId = k, !.out = T, !.disc = TRUE]
    BY DEF remove_uncommitted_htlcs_and_mark_paused, UncommittedRemoved
  <1> HIDE DEF U, T
  <1>2. f.inb = U /\ f.out = T /\ f.nextCpId = k /\ f.nextId = c.nextId /\ f.txs = c.txs /\ f.disc
    BY <1>1 DEF Channel
  <1>3. Drops(c, f) /\ Along(c, f)
    BY <1>1 DEF Channel, Drops, Along
  <1>4. Dropped(c, f, k)
    BY <1>2 DEF Dropped, U, T
  <1> QED
    BY <1>3, <1>4

\* The view of the HTLCs the payer holds on to.
LEMMA DroppedOut ==
    ASSUME NEW c, Viewed(c.out), c.out \subseteq OutHtlcs, NEW f, NEW k, Dropped(c, f, k)
    PROVE  /\ Viewed(f.out)
           /\ \A p : OutSt(c, p) # "none" => OutId(f, p) = OutId(c, p)
           /\ \A p : OutSt(f, p) = IF OutSt(c, p) = "RemoteRemoved" THEN "Committed" ELSE OutSt(c, p)
  <1> DEFINE r(h) == IF h.st = "RemoteRemoved" THEN [h EXCEPT !.st = "Committed", !.out = "none"] ELSE h
  <1>1. f.out = {r(h) : h \in c.out}
    BY DEF Dropped
  <1>2. \A g \in c.out : /\ r(g).pay = g.pay /\ r(g).id = g.id
                         /\ r(g).st = IF g.st = "RemoteRemoved" THEN "Committed" ELSE g.st
    BY DEF OutHtlcs
  <1> HIDE DEF r
  <1>5. Recast(c.out, f.out)
    <2>1. \A g \in f.out : g.st # "none" /\ \E x \in c.out : g.pay = x.pay
      BY <1>1, <1>2 DEF Viewed
    <2>2. \A x \in c.out : \E g \in f.out : g.pay = x.pay /\ g.id = x.id
      BY <1>1, <1>2
    <2>3. \A g, x \in f.out : g.pay = x.pay => g = x
      BY <1>1, <1>2 DEF Viewed, OncePaid
    <2> QED
      BY <2>1, <2>2, <2>3 DEF Recast
  <1>6. /\ Viewed(f.out)
        /\ \A p : OutSt(f, p) = "none" <=> OutSt(c, p) = "none"
        /\ \A p : OutSt(c, p) # "none" => OutId(f, p) = OutId(c, p)
    BY <1>5, RecastView DEF OutSt, OutId
  <1>7. \A g \in c.out : OutSt(c, g.pay) = g.st /\ OutSt(f, g.pay) = r(g).st
    <2> TAKE g \in c.out
    <2>1. OutSt(c, g.pay) = g.st
      BY ViewOf DEF OutSt
    <2>2. r(g) \in f.out
      BY <1>1
    <2>3. OutSt(f, r(g).pay) = r(g).st
      BY <1>6, <2>2, ViewOf DEF OutSt
    <2> QED
      BY <2>1, <2>3, <1>2
  <1>8. \A p : OutSt(f, p) = IF OutSt(c, p) = "RemoteRemoved" THEN "Committed" ELSE OutSt(c, p)
    <2> TAKE p
    <2>1. CASE OutSt(c, p) = "none"
      BY <2>1, <1>6
    <2>2. CASE OutSt(c, p) # "none"
      <3>1. PICK g \in c.out : g.pay = p
        BY <2>2, ViewOf DEF OutSt
      <3> QED
        BY <3>1, <1>7, <1>2
    <2> QED
      BY <2>1, <2>2
  <1> QED
    BY <1>6, <1>8

\* remove_uncommitted_htlcs_and_mark_paused
LEMMA DropEffect ==
    ASSUME NEW n \in Nodes, NEW c, NEW I \in [Payments -> Int], NEW S,
           NEW L \in SUBSET Payments, NEW C \in SUBSET Payments, NEW R \in SUBSET Payments,
           NodeOK(n, c, I, S, L, C, R), IdsUnique(I), Forgot(c),
           NEW f, f = remove_uncommitted_htlcs_and_mark_paused(c)
    PROVE  Drops(c, f) /\ DropView(c, f) /\ Retains(c, f, {}) /\ Forgot(f)
  <1>0. c \in Channel /\ c.nextId \in Nat /\ c.nextCpId \in Nat /\ Orderly(n, c)
    <2>1. Orderly(n, c)
      BY NodeOrderly
    <2> QED
      BY <2>1 DEF Orderly, Channel
  <1>1. CASE c.disc
    <2>1. f = c
      BY <1>1 DEF remove_uncommitted_htlcs_and_mark_paused, UncommittedRemoved
    <2>2. \A p \in Payments : InSt(c, p) # "RemoteAnnounced" /\ OutSt(c, p) # "RemoteRemoved"
      BY <1>1 DEF Forgot
    <2>3. \A k \in Nat : k .. k - 1 = {} /\ k <= k
      OBVIOUS
    <2>4. IdsKept(c, c)
      BY <1>0, AcceptIds
    <2>5. DropView(c, c)
      BY <1>0, <2>2, <2>3, <2>4 DEF DropView
    <2>6. Drops(c, c) /\ Retains(c, c, {})
      BY <1>1 DEF Drops, Retains
    <2> QED
      BY <2>1, <2>5, <2>6
  <1>2. CASE ~c.disc
    <2>1. PICK k \in Nat : SeenOK(n, c, I, L, C, R, k)
      BY DEF NodeOK
    <2>2. c.nextCpId - Cardinality({h \in c.inb : h.st = "RemoteAnnounced"}) = k
      BY <2>1, DroppedCount
    <2>3. Dropped(c, f, k) /\ Drops(c, f) /\ Along(c, f)
      BY <1>0, <1>2, <2>2, DroppedFields
    <2>4. /\ \A p : OutSt(c, p) # "none" => OutId(f, p) = OutId(c, p)
          /\ \A p : OutSt(f, p) = IF OutSt(c, p) = "RemoteRemoved" THEN "Committed" ELSE OutSt(c, p)
      BY <1>0, <2>3, DroppedOut DEF Orderly, Held
    <2>5. \A p : /\ InSt(f, p) = "none" <=> InSt(c, p) \in {"none", "RemoteAnnounced"}
                 /\ InSt(c, p) \notin {"none", "RemoteAnnounced"} => InSt(f, p) = InSt(c, p) /\ InId(f, p) = InId(c, p)
      <3>1. Viewed(c.inb) /\ f.inb = c.inb \ {h \in c.inb : h.st = "RemoteAnnounced"}
        BY <1>0, <2>3 DEF Orderly, Held, Dropped
      <3> QED
        BY <3>1, MinusView DEF InSt, InId
    <2>6. IdsKept(c, f)
      <3>1. \A m \in Nat : m .. m - 1 = {} /\ m <= m
        OBVIOUS
      <3>2. f.nextId = c.nextId
        BY <2>3 DEF Dropped
      <3> QED
        BY <1>0, <2>4, <2>5, <3>1, <3>2 DEF IdsKept
    <2>7. \A p \in Payments : InSt(c, p) = "RemoteAnnounced" => InId(c, p) \in k .. c.nextCpId - 1
      <3> TAKE p \in Payments
      <3> HAVE InSt(c, p) = "RemoteAnnounced"
      <3>1. PICK h \in c.inb : h.pay = p /\ h.st = StOf(c.inb, p) /\ h.id = IdOf(c.inb, p)
        BY <1>0, ViewOf DEF InSt, Orderly, Held
      <3>2. h.id \in Nat /\ h.id >= k /\ h.id < c.nextCpId
        BY <1>0, <3>1, <2>1 DEF SeenOK, InSt, Orderly, InHtlcs
      <3> QED
        BY <3>1, <3>2, <1>0, <2>1 DEF InId
    <2>8. \A i \in k .. c.nextCpId - 1 : \E p \in Payments : InSt(c, p) = "RemoteAnnounced" /\ InId(c, p) = i
      <3> TAKE i \in k .. c.nextCpId - 1
      <3>1. PICK h \in c.inb : h.id = i /\ h.st = "RemoteAnnounced"
        BY <2>1 DEF SeenOK
      <3>2. InSt(c, h.pay) = h.st /\ InId(c, h.pay) = h.id /\ h.pay \in Payments
        BY <1>0, <3>1, ViewOf DEF InSt, InId, Orderly, Held
      <3> QED
        BY <3>1, <3>2
    <2>9. DropView(c, f)
      <3>1. k <= c.nextCpId
        BY <2>1 DEF SeenOK
      <3>2. \A p \in Payments : InSt(f, p) = IF InSt(c, p) = "RemoteAnnounced" THEN "none" ELSE InSt(c, p)
        BY <2>5
      <3> QED
        BY <2>1, <2>3, <2>4, <3>1, <3>2, <2>6, <2>7, <2>8 DEF DropView, Dropped
    <2>10. Retains(c, f, {})
      <3>1. \A p \in Payments : InSt(c, p) = "Committed" => InSt(f, p) = "Committed" /\ InId(f, p) = InId(c, p)
        BY <2>5
      <3>2. \A p \in Payments : OutSt(c, p) = "none" => OutSt(f, p) = "none"
        BY <2>4
      <3> QED
        BY <3>1, <3>2, <2>3 DEF Retains, Along
    <2>11. Forgot(f)
      BY <2>9 DEF DropView, Forgot
    <2> QED
      BY <2>3, <2>9, <2>10, <2>11
  <1> QED
    BY <1>1, <1>2

-----------------------------------------------------------------------------
(* The holding cell refers to HTLCs that wait for it.                      *)

\* The removals that wait are of different HTLCs, each of which may be resolved.
Queued(c) ==
    /\ \A i, j \in 1 .. Len(c.cell) :
            c.cell[i].op # "add" /\ c.cell[j].op # "add" /\ c.cell[i].id = c.cell[j].id => i = j
    /\ \A i \in 1 .. Len(c.cell) : c.cell[i].op # "add" =>
            \E h \in c.inb : h.id = c.cell[i].id /\ h.st = "Committed"

\* What is handed on to the user is committed.
HandedOn(n, c, L) == \A p \in L \cup c.pendAdds : PayTo(p) = n => InSt(c, p) = "Committed"

\* What the payer is told has failed is gone.
GivenUp(n, c, T) ==
    /\ \A p \in c.pendFails : PayFrom[p] = n
    /\ \A p \in Payments : PayFrom[p] = n /\ (p \in c.pendFails \/ "failed" \in T[p]) => OutSt(c, p) = "none"

\* What a step does to what the users know.
Keeps(c, f, A) ==
    /\ \A p \in Payments : p \notin A /\ OutSt(c, p) = "none" => OutSt(f, p) = "none"
    /\ \A p \in Payments : InSt(c, p) = "Committed" => InSt(f, p) \in {"Committed", "LocalRemoved"}
    /\ \A p \in Payments : p \in f.pendAdds => p \in c.pendAdds \/ InSt(f, p) \in {"Committed", "LocalRemoved"}
    /\ \A p \in Payments : p \in f.pendFails => p \in c.pendFails \/ (OutSt(c, p) # "none" /\ OutSt(f, p) = "none")

\* What is retained is kept.
LEMMA RetainsKeeps ==
    ASSUME NEW c, NEW f, NEW A, Retains(c, f, A)
    PROVE  Keeps(c, f, A)
  BY DEF Retains, Keeps

\* The same HTLCs keep what the user was told.
LEMMA SameKeeps ==
    ASSUME NEW c, NEW f, f.inb = c.inb, f.out = c.out, f.pendAdds \subseteq c.pendAdds, f.pendFails \subseteq c.pendFails, NEW A
    PROVE  Keeps(c, f, A)
  BY DEF Keeps, InSt, OutSt

\* The removals that wait stay resolvable over a step of the commitment protocol.
LEMMA QueuedRetained ==
    ASSUME NEW c, NEW f, Held(c), Held(f), NEW A, Retains(c, f, A), Queued(c)
    PROVE  Queued(f)
  <1>1. CASE f.cell = <<>>
    BY <1>1 DEF Queued
  <1>2. CASE f.cell = c.cell /\ \A p \in Payments : InSt(c, p) = "Committed" => InSt(f, p) = "Committed"
    <2>1. ASSUME NEW h \in c.inb, h.st = "Committed"
          PROVE  \E g \in f.inb : g.id = h.id /\ g.st = "Committed"
      <3>1. InSt(c, h.pay) = "Committed" /\ InId(c, h.pay) = h.id /\ h.pay \in Payments
        BY <2>1, ViewOf DEF Held, InSt, InId
      <3>2. InSt(f, h.pay) = "Committed" /\ InId(f, h.pay) = h.id
        BY <3>1, <1>2 DEF Retains
      <3>3. Viewed(f.inb) /\ StOf(f.inb, h.pay) # "none"
        BY <3>2 DEF Held, InSt
      <3>4. \E g \in f.inb : g.pay = h.pay /\ g.st = StOf(f.inb, h.pay) /\ g.id = IdOf(f.inb, h.pay)
        BY <3>3, ViewOf
      <3> QED
        BY <3>2, <3>4 DEF InSt, InId
    <2>2. \A i \in 1 .. Len(f.cell) : f.cell[i].op # "add" => \E g \in f.inb : g.id = f.cell[i].id /\ g.st = "Committed"
      BY <2>1, <1>2 DEF Queued
    <2> QED
      BY <2>2, <1>2 DEF Queued
  <1> QED
    BY <1>1, <1>2 DEF Retains

\* The same HTLCs and cell.
LEMMA QueuedSame ==
    ASSUME NEW c, NEW f, f.cell = c.cell, f.inb = c.inb, Queued(c)
    PROVE  Queued(f)
  BY DEF Queued

\* One more update is put into the holding cell.
LEMMA QueuedAppends ==
    ASSUME NEW c, c.cell \in Seq(Updates), Queued(c), NEW u, u \in Updates,
           u.op # "add" => /\ \E h \in c.inb : h.id = u.id /\ h.st = "Committed"
                           /\ \A i \in 1 .. Len(c.cell) : c.cell[i].op # "add" => c.cell[i].id # u.id,
           NEW f, f.inb = c.inb, f.cell = Append(c.cell, u)
    PROVE  Queued(f)
  <1>1. /\ Len(f.cell) = Len(c.cell) + 1 /\ Len(c.cell) \in Nat
        /\ \A i \in 1 .. Len(f.cell) : \/ i \in 1 .. Len(c.cell) /\ f.cell[i] = c.cell[i]
                                       \/ i = Len(c.cell) + 1 /\ f.cell[i] = u
    OBVIOUS
  <1>2. \A i, j \in 1 .. Len(f.cell) :
            f.cell[i].op # "add" /\ f.cell[j].op # "add" /\ f.cell[i].id = f.cell[j].id => i = j
    <2> TAKE i, j \in 1 .. Len(f.cell)
    <2>1. CASE i \in 1 .. Len(c.cell) /\ f.cell[i] = c.cell[i]
      <3>1. CASE j \in 1 .. Len(c.cell) /\ f.cell[j] = c.cell[j]
        BY <2>1, <3>1 DEF Queued
      <3>2. CASE j = Len(c.cell) + 1 /\ f.cell[j] = u
        BY <2>1, <3>2
      <3> QED
        BY <3>1, <3>2, <1>1
    <2>2. CASE i = Len(c.cell) + 1 /\ f.cell[i] = u
      <3>1. CASE j \in 1 .. Len(c.cell) /\ f.cell[j] = c.cell[j]
        BY <2>2, <3>1
      <3>2. CASE j = Len(c.cell) + 1 /\ f.cell[j] = u
        BY <2>2, <3>2
      <3> QED
        BY <3>1, <3>2, <1>1
    <2> QED
      BY <2>1, <2>2, <1>1
  <1>3. \A i \in 1 .. Len(f.cell) : f.cell[i].op # "add" => \E h \in f.inb : h.id = f.cell[i].id /\ h.st = "Committed"
    <2> TAKE i \in 1 .. Len(f.cell)
    <2>1. CASE i \in 1 .. Len(c.cell) /\ f.cell[i] = c.cell[i]
      BY <2>1 DEF Queued
    <2>2. CASE i = Len(c.cell) + 1 /\ f.cell[i] = u
      BY <2>2
    <2> QED
      BY <2>1, <2>2, <1>1
  <1> QED
    BY <1>2, <1>3 DEF Queued

-----------------------------------------------------------------------------
(* What is kept through the holding cell.                                  *)

\* The first i updates of cell without the additions: each comes from the cell, ids are different.
FromCell(cell, s, i) ==
    /\ s \in Seq(Updates)
    /\ \A x \in 1 .. Len(s) : \E j \in 1 .. i : s[x] = cell[j] /\ cell[j].op # "add"
    /\ \A x, y \in 1 .. Len(s) : s[x].id = s[y].id => x = y

\* The removals in a holding cell are of different HTLCs.
DifferentIds(cell) == \A i, j \in 1 .. Len(cell) :
    cell[i].op # "add" /\ cell[j].op # "add" /\ cell[i].id = cell[j].id => i = j

\* One more update of the cell is kept or left out.
LEMMA FromCellMore ==
    ASSUME NEW cell \in Seq(Updates), DifferentIds(cell), NEW i \in 1 .. Len(cell), NEW k, k = i - 1,
           NEW s, FromCell(cell, s, k)
    PROVE  FromCell(cell, KeptAfter(s, cell[i]), i)
  <1>0. k \in Nat /\ i \in Nat /\ k < i /\ Len(cell) \in Nat /\ cell[i] \in Updates
    OBVIOUS
  <1>1. CASE cell[i].op = "add"
    <2>1. KeptAfter(s, cell[i]) = s
      BY <1>1 DEF KeptAfter
    <2>2. \A x \in 1 .. Len(s) : \E j \in 1 .. i : s[x] = cell[j] /\ cell[j].op # "add"
      BY <1>0 DEF FromCell
    <2> QED
      BY <2>1, <2>2 DEF FromCell
  <1>2. CASE cell[i].op # "add"
    <2> DEFINE t == Append(s, cell[i])
    <2>1. KeptAfter(s, cell[i]) = t
      BY <1>2 DEF KeptAfter
    <2>2. s \in Seq(Updates)
      BY DEF FromCell
    <2>3. /\ t \in Seq(Updates) /\ Len(t) = Len(s) + 1 /\ Len(s) \in Nat
          /\ \A x \in 1 .. Len(t) : \/ x \in 1 .. Len(s) /\ t[x] = s[x]
                                    \/ x = Len(s) + 1 /\ t[x] = cell[i]
      BY <2>2, <1>0
    <2> HIDE DEF t
    <2>4. \A x \in 1 .. Len(t) : \E j \in 1 .. i : t[x] = cell[j] /\ cell[j].op # "add"
      <3> TAKE x \in 1 .. Len(t)
      <3>1. CASE x \in 1 .. Len(s) /\ t[x] = s[x]
        BY <3>1, <1>0 DEF FromCell
      <3>2. CASE x = Len(s) + 1 /\ t[x] = cell[i]
        BY <3>2, <1>2
      <3> QED
        BY <3>1, <3>2, <2>3
    <2>5. \A x \in 1 .. Len(s) : s[x].id # cell[i].id
      <3> TAKE x \in 1 .. Len(s)
      <3>1. PICK j \in 1 .. k : s[x] = cell[j] /\ cell[j].op # "add"
        BY DEF FromCell
      <3>2. j \in 1 .. Len(cell) /\ j # i
        BY <1>0
      <3> QED
        BY <3>1, <3>2, <1>2 DEF DifferentIds
    <2>6. \A x, y \in 1 .. Len(t) : t[x].id = t[y].id => x = y
      <3> TAKE x, y \in 1 .. Len(t)
      <3>1. CASE x \in 1 .. Len(s) /\ t[x] = s[x]
        <4>1. CASE y \in 1 .. Len(s) /\ t[y] = s[y]
          BY <3>1, <4>1 DEF FromCell
        <4>2. CASE y = Len(s) + 1 /\ t[y] = cell[i]
          BY <3>1, <4>2, <2>5
        <4> QED
          BY <4>1, <4>2, <2>3
      <3>2. CASE x = Len(s) + 1 /\ t[x] = cell[i]
        <4>1. CASE y \in 1 .. Len(s) /\ t[y] = s[y]
          BY <3>2, <4>1, <2>5
        <4>2. CASE y = Len(s) + 1 /\ t[y] = cell[i]
          BY <3>2, <4>2
        <4> QED
          BY <4>1, <4>2, <2>3
      <3> QED
        BY <3>1, <3>2, <2>3
    <2> QED
      BY <2>1, <2>3, <2>4, <2>6 DEF FromCell
  <1> QED
    BY <1>1, <1>2

\* The whole cell without its additions.
LEMMA FromCellAll ==
    ASSUME NEW cell \in Seq(Updates), DifferentIds(cell)
    PROVE  FromCell(cell, WithoutAdds(cell), Len(cell))
  <1>2. PICK a : /\ a[0] = <<>> /\ WithoutAdds(cell) = a[Len(cell)]
                 /\ \A i \in 1 .. Len(cell) : a[i] = KeptAfter(a[i - 1], cell[i])
    BY WithoutChain
  <1> DEFINE Good(i) == FromCell(cell, a[i], i)
             B == {i \in 0 .. Len(cell) : ~Good(i)}
  <1>3. Good(0)
    BY <1>2 DEF FromCell
  <1> HIDE DEF Good
  <1>4. \A i \in 0 .. Len(cell) : Good(i)
    <2>0. SUFFICES ASSUME B # {} PROVE FALSE
      OBVIOUS
    <2>1. B \subseteq Nat
      OBVIOUS
    <2>2. PICK i \in B : \A j \in B : i <= j
      <3> HIDE DEF B
      <3> QED BY ONLY <2>0, <2>1, LeastNatural
    <2>3. i # 0
      BY <2>2, <1>3
    <2>4. i \in 1 .. Len(cell) /\ i - 1 \in 0 .. Len(cell)
      BY <2>2, <2>3
    <2>5. i - 1 \notin B
      BY <2>2, <2>4
    <2>6. Good(i - 1)
      BY <2>4, <2>5
    <2>7. FromCell(cell, a[i - 1], i - 1) /\ a[i] = KeptAfter(a[i - 1], cell[i])
      BY <2>6, <1>2, <2>4 DEF Good
    <2>8. FromCell(cell, a[i], i)
      <3> DEFINE k == i - 1
                 s == a[k]
      <3>1. k = i - 1 /\ FromCell(cell, s, k) /\ a[i] = KeptAfter(s, cell[i])
        BY <2>7
      <3> HIDE DEF k, s
      <3> QED
        BY <3>1, <2>4, FromCellMore
    <2> QED
      BY <2>2, <2>8 DEF Good
  <1>5. Good(Len(cell))
    <2>1. Len(cell) \in 0 .. Len(cell)
      OBVIOUS
    <2> QED
      BY <1>4, <2>1
  <1> QED
    BY <1>2, <1>5 DEF Good

\* The holding cell without its additions, when the channel is shut down.
LEMMA QueuedWithout ==
    ASSUME NEW c \in Channel, Queued(c), NEW f, f.cell = WithoutAdds(c.cell), f.inb = c.inb
    PROVE  Queued(f)
  <1>1. c.cell \in Seq(Updates) /\ DifferentIds(c.cell)
    BY DEF Channel, Queued, DifferentIds
  <1>2. FromCell(c.cell, f.cell, Len(c.cell))
    <2> DEFINE cell == c.cell
    <2>1. cell \in Seq(Updates) /\ DifferentIds(cell) /\ f.cell = WithoutAdds(cell)
      BY <1>1
    <2> HIDE DEF cell
    <2>2. FromCell(cell, WithoutAdds(cell), Len(cell))
      BY ONLY <2>1, FromCellAll
    <2>3. FromCell(cell, f.cell, Len(cell))
      BY <2>1, <2>2
    <2> QED
      BY <2>3 DEF cell
  <1>3. \A i \in 1 .. Len(f.cell) : f.cell[i].op # "add" => \E h \in f.inb : h.id = f.cell[i].id /\ h.st = "Committed"
    <2> TAKE i \in 1 .. Len(f.cell)
    <2>1. PICK j \in 1 .. Len(c.cell) : f.cell[i] = c.cell[j] /\ c.cell[j].op # "add"
      BY <1>2 DEF FromCell
    <2>2. \E h \in c.inb : h.id = c.cell[j].id /\ h.st = "Committed"
      BY <2>1 DEF Queued
    <2> QED
      BY <2>1, <2>2
  <1> QED
    BY <1>2, <1>3 DEF FromCell, Queued
-----------------------------------------------------------------------------

\* What is handed on to the user stays committed until the user decides.
LEMMA HandedKept ==
    ASSUME NEW n \in Nodes, NEW c, NEW f, NEW A, Keeps(c, f, A), NEW L, HandedOn(n, c, L),
           NEW J \in [Payments -> Int], NEW S, NEW L2 \in SUBSET Payments, NEW C \in SUBSET Payments, NEW R \in SUBSET Payments, IdsUnique(J),
           NodeOK(n, f, J, S, L2, C, R), DecidedOK(J, L2, C, R),
           \A p \in L2 : PayTo(p) = n => p \in L \cup c.pendAdds
    PROVE  HandedOn(n, f, L2)
  <1>0. L2 \in SUBSET Payments /\ f \in Channel /\ f.pendAdds \in SUBSET Payments
    BY DEF DecidedOK, NodeOK, Channel
  <1> SUFFICES ASSUME NEW p \in L2 \cup f.pendAdds, PayTo(p) = n PROVE InSt(f, p) = "Committed"
    BY DEF HandedOn
  <1>1. p \in Payments
    BY <1>0
  <1>2. InSt(f, p) \in {"Committed", "LocalRemoved"}
    <2>1. CASE p \in L \cup c.pendAdds
      BY <2>1, <1>1 DEF HandedOn, Keeps
    <2>2. CASE p \in f.pendAdds
      <3>1. CASE p \in c.pendAdds
        BY <3>1, <2>1
      <3> QED
        BY <3>1, <2>2, <1>1 DEF Keeps
    <2> QED
      BY <2>1, <2>2
  <1>3. CASE InSt(f, p) = "LocalRemoved"
    <2>1. \E h \in f.inb : h.pay = p /\ h.st = "LocalRemoved"
      <3>1. InsAre(n, f, J)
        BY NodeSides
      <3> QED
        BY <3>1, <1>1, <1>3 DEF InsAre
    <2>2. PICK h \in f.inb : h.pay = p /\ h.st = "LocalRemoved"
      BY <2>1
    <2>3. p \in C \cup R
      BY <2>2 DEF NodeOK, InOK, Decided
    <2>4. p \notin L2 /\ p \notin f.pendAdds
      BY <2>3 DEF DecidedOK, NodeOK, InOK
    <2> QED
      BY <2>4
  <1> QED
    BY <1>2, <1>3

\* The payments told of in a step of n's node.
LEMMA GivenUpKept ==
    ASSUME NEW n \in Nodes, NEW c, NEW f, NEW A, Keeps(c, f, A), NEW T, GivenUp(n, c, T),
           NEW I \in [Payments -> Int], NEW S, NEW L \in SUBSET Payments, NEW C \in SUBSET Payments, NEW R \in SUBSET Payments, IdsUnique(I),
           NodeOK(n, c, I, S, L, C, R), \A q \in L \cup C \cup R : I[q] # -1,
           \A p \in Payments : PayFrom[p] = n /\ "failed" \in T[p] => p \in R \/ (p \in S /\ p \notin AddsIn(c)),
           \A p \in A : I[p] = -1 /\ (p \in AddsIn(c) \/ p \notin S),
           NEW J \in [Payments -> Int], NEW S2, NEW L2 \in SUBSET Payments, NEW C2 \in SUBSET Payments, NEW R2 \in SUBSET Payments, IdsUnique(J),
           NodeOK(n, f, J, S2, L2, C2, R2), NEW T2,
           \A p \in Payments : PayFrom[p] = n /\ "failed" \in T2[p] =>
                "failed" \in T[p] \/ p \in c.pendFails \/ (J[p] = -1)
    PROVE  GivenUp(n, f, T2)
  <1>0. f \in Channel /\ f.pendFails \in SUBSET Payments /\ c.pendFails \subseteq R
    BY DEF NodeOK, Channel, OutOK
  <1>1. \A p \in Payments : OutSt(c, p) # "none" => PayFrom[p] = n
    <2>1. OutsAre(n, c, I)
      BY ONLY n \in Nodes, I \in [Payments -> Int], L \in SUBSET Payments, C \in SUBSET Payments, R \in SUBSET Payments,
              NodeOK(n, c, I, S, L, C, R), IdsUnique(I), NodeSides
    <2> QED
      BY <2>1 DEF OutsAre
  <1>2. \A p \in Payments : OutSt(f, p) # "none" => J[p] # -1
    <2>1. OutsAre(n, f, J)
      BY ONLY n \in Nodes, J \in [Payments -> Int], L2 \in SUBSET Payments, C2 \in SUBSET Payments, R2 \in SUBSET Payments,
              NodeOK(n, f, J, S2, L2, C2, R2), IdsUnique(J), NodeSides
    <2> QED
      BY <2>1 DEF OutsAre
  <1>3. \A p \in f.pendFails : PayFrom[p] = n
    BY <1>0, <1>1 DEF Keeps, GivenUp
  <1>4. \A p \in Payments : PayFrom[p] = n /\ p \in c.pendFails => OutSt(f, p) = "none"
    <2> TAKE p \in Payments
    <2> HAVE PayFrom[p] = n /\ p \in c.pendFails
    <2>1. OutSt(c, p) = "none"
      BY DEF GivenUp
    <2>2. p \notin A
      BY <1>0
    <2> QED
      BY <2>1, <2>2 DEF Keeps
  <1>5. \A p \in Payments : PayFrom[p] = n /\ "failed" \in T[p] => OutSt(f, p) = "none"
    <2> TAKE p \in Payments
    <2> HAVE PayFrom[p] = n /\ "failed" \in T[p]
    <2>1. OutSt(c, p) = "none"
      BY DEF GivenUp
    <2>2. p \notin A
      OBVIOUS
    <2> QED
      BY <2>1, <2>2 DEF Keeps
  <1>6. \A p \in Payments : p \in f.pendFails => OutSt(f, p) = "none"
    BY <1>3, <1>4 DEF Keeps
  <1>7. \A p \in Payments : PayFrom[p] = n /\ "failed" \in T2[p] => OutSt(f, p) = "none"
    BY <1>2, <1>4, <1>5
  <1> QED
    BY <1>3, <1>6, <1>7 DEF GivenUp

\* The holding cell may be freed.
LEMMA QueuedReady ==
    ASSUME NEW n \in Nodes, NEW c, NEW I \in [Payments -> Int], NEW S,
           NEW L \in SUBSET Payments, NEW C \in SUBSET Payments, NEW R \in SUBSET Payments,
           NodeOK(n, c, I, S, L, C, R), IdsUnique(I), Queued(c)
    PROVE  CellReady(c)
  <1>1. c.cell \in Seq(Waiting(n, I, S, C, R)) /\ \A i, j \in 1 .. Len(c.cell) : c.cell[i] = c.cell[j] /\ c.cell[i].op = "add" => i = j
    BY DEF NodeOK, CellOK
  <1>2. \A i \in 1 .. Len(c.cell) : c.cell[i] \in Waiting(n, I, S, C, R)
    <2> HIDE DEF Waiting
    <2> QED BY <1>1
  <1>3. \A i, j \in 1 .. Len(c.cell) : c.cell[i].op = "add" /\ c.cell[j].op = "add" /\ c.cell[i].pay = c.cell[j].pay => i = j
    <2> TAKE i, j \in 1 .. Len(c.cell)
    <2> HAVE c.cell[i].op = "add" /\ c.cell[j].op = "add" /\ c.cell[i].pay = c.cell[j].pay
    <2>1. c.cell[i] \in [op : {"add"}, pay : Payments] /\ c.cell[j] \in [op : {"add"}, pay : Payments]
      BY <1>2 DEF Waiting, Updates
    <2>2. c.cell[i] = c.cell[j]
      BY <2>1
    <2> QED
      BY <2>2, <1>1
  <1>4. \A p \in Payments : OutSt(c, p) # "none" => I[p] # -1
    <2>1. OutsAre(n, c, I)
      BY ONLY n \in Nodes, I \in [Payments -> Int], L \in SUBSET Payments, C \in SUBSET Payments, R \in SUBSET Payments,
              NodeOK(n, c, I, S, L, C, R), IdsUnique(I), NodeSides
    <2> QED
      BY <2>1 DEF OutsAre
  <1>5. \A i \in 1 .. Len(c.cell) : c.cell[i].op = "add" => c.cell[i].pay \in Payments /\ I[c.cell[i].pay] = -1
    BY <1>2 DEF Waiting, Updates
  <1> QED
    BY <1>3, <1>4, <1>5 DEF CellReady, Queued

-----------------------------------------------------------------------------
(* The invariant of both nodes.                                            *)

\* The payments that n's node sends.
From(n) == {p \in Payments : PayFrom[p] = n}

\* What n's node and its peer agree on, in the state K of the channels, N of the links.
Agree(n, K, N, k) == Agreed(K[n], K[Peer(n)], N[Peer(n)], N[n], k, From(n), From(Peer(n)))

\* What the user of n's node was told fits its HTLCs.
Known(n, c, L, T) == Queued(c) /\ HandedOn(n, c, L) /\ GivenUp(n, c, T) /\ Forgot(c)

\* The two channels, the queues between them and what the users were told fit together.
Danced(K, N, k, L, T) == \A n \in Nodes : Agree(n, K, N, k) /\ Known(n, K[n], L, T)

\* The ids of the ledger make those of both channels match.
LEMMA IdsMatch ==
    ASSUME NEW I, NEW K, NEW N, NEW S, NEW L, NEW C, NEW R, NEW T,
           Decision(I, K, N, S, L, C, R, T), NEW n \in Nodes, NEW m \in Nodes, m = Peer(n)
    PROVE  Matched(K[n], K[m]) /\ Counted(K[n])
  <1>0. /\ NodeOK(n, K[n], I, S, L, C, R) /\ I \in [Payments -> Int] /\ IdsUnique(I)
        /\ L \in SUBSET Payments /\ C \in SUBSET Payments /\ R \in SUBSET Payments
        /\ \A p \in Payments : I[p] # -1 => I[p] >= 0 /\ I[p] < K[PayFrom[p]].nextId
        /\ NodeOK(m, K[m], I, S, L, C, R)
    BY DEF Decision, IdsOK, DecidedOK, IdsUnique
  <1> DEFINE c == K[n]
             d == K[m]
  <1>1. c \in Channel /\ d \in Channel
    BY <1>0 DEF NodeOK
  <1>2. OutsAre(n, c, I)
    BY <1>0, NodeSides
  <1>3. InsAre(m, d, I)
    BY <1>0, NodeSides
  <1>4. \A p \in Payments : PayFrom[p] = n => (I[p] # -1 => I[p] < c.nextId)
    BY <1>0
  <1>5. \A p \in Payments : PayTo(p) = m => PayFrom[p] = n
    BY PeerFacts
  <1>6. \A p, o \in Payments : I[p] = I[o] /\ I[p] # -1 /\ PayFrom[p] = PayFrom[o] => p = o
    BY <1>0 DEF IdsUnique
  <1> HIDE DEF c, d
  <1>7. c.nextId \in Nat /\ d.nextCpId \in Nat /\ Counted(c)
    BY <1>1 DEF Channel, Counted
  <1>8. \A p \in Payments : OutSt(c, p) # "none" => OutId(c, p) = I[p] /\ I[p] \in Nat /\ PayFrom[p] = n
    BY <1>2 DEF OutsAre
  <1>9. \A p \in Payments : InSt(d, p) # "none" => InId(d, p) = I[p] /\ I[p] \in Nat /\ PayFrom[p] = n
    BY <1>3, <1>5 DEF InsAre
  <1>10. \A i \in Nat : i # -1
    OBVIOUS
  <1>11. \A p \in Payments : OutSt(c, p) # "none" => OutId(c, p) \in 0 .. c.nextId - 1
    BY <1>4, <1>7, <1>8, <1>10
  <1>12. \A p, o \in Payments : OutSt(c, p) # "none" /\ OutSt(c, o) # "none" /\ OutId(c, p) = OutId(c, o) => p = o
    BY <1>6, <1>8, <1>10
  <1>13. \A p, o \in Payments : InSt(d, p) # "none" /\ InSt(d, o) # "none" /\ InId(d, p) = InId(d, o) => p = o
    BY <1>6, <1>9, <1>10
  <1>14. Matched(c, d)
    BY <1>7, <1>8, <1>9, <1>11, <1>12, <1>13 DEF Matched
  <1> QED
    BY <1>14, <1>7 DEF c, d

\* What the ledger of ids contributes.
LEMMA DecisionFits ==
    ASSUME NEW I, NEW K, NEW N, NEW S, NEW L, NEW C, NEW R, NEW T,
           Decision(I, K, N, S, L, C, R, T), NEW n \in Nodes, NEW m \in Nodes, m = Peer(n)
    PROVE  Fits(K[n], K[m], From(n), From(m))
  <1>0. /\ NodeOK(n, K[n], I, S, L, C, R) /\ I \in [Payments -> Int] /\ IdsUnique(I)
        /\ L \in SUBSET Payments /\ C \in SUBSET Payments /\ R \in SUBSET Payments
        /\ NodeOK(m, K[m], I, S, L, C, R)
    BY DEF Decision, IdsOK, DecidedOK, IdsUnique
  <1>1. Matched(K[n], K[m]) /\ Counted(K[n])
    BY IdsMatch
  <1>2. Matched(K[m], K[n]) /\ Counted(K[m])
    <2>1. n = Peer(m)
      BY PeerFacts
    <2> QED
      BY <2>1, IdsMatch
  <1>3. OutsAre(n, K[n], I) /\ InsAre(n, K[n], I)
    BY <1>0, NodeSides
  <1>4. OutsAre(m, K[m], I) /\ InsAre(m, K[m], I)
    BY <1>0, NodeSides
  <1>5. \A p \in Payments : PayFrom[p] = n => InSt(K[n], p) = "none" /\ OutSt(K[m], p) = "none"
    BY <1>3, <1>4, PeerFacts DEF OutsAre, InsAre
  <1>6. \A p \in Payments : PayFrom[p] = m => InSt(K[m], p) = "none" /\ OutSt(K[n], p) = "none"
    BY <1>3, <1>4, PeerFacts DEF OutsAre, InsAre
  <1> QED
    BY <1>1, <1>2, <1>5, <1>6 DEF Fits, From, Paid

\* Payments reported failed in a step of the node with channel c.
Reports(c, T, T2) == \A p \in Payments : "failed" \in T2[p] => "failed" \in T[p] \/ p \in c.pendFails \/ p \in AddsIn(c)

\* Payments that may be placed.
Placeable(c, S, A) == \A p \in A : p \in AddsIn(c) \/ (p \in Payments /\ p \notin S)

\* Payments handed on, and decided.
HandsOn(c, L, R, L2, R2) == L2 \subseteq L \cup c.pendAdds /\ R2 \subseteq R \cup L

\* What the user of the node that moves was told.
LEMMA MoverKnown ==
    ASSUME NEW I, NEW K, NEW N, NEW S, NEW L, NEW C, NEW R, NEW T,
           Decision(I, K, N, S, L, C, R, T), NEW n \in Nodes, NEW c, c = K[n],
           HandedOn(n, c, L), GivenUp(n, c, T), NEW f, NEW A, Keeps(c, f, A),
           Placeable(c, S, A),
           NEW J, NEW K2, NEW N2, NEW S2, NEW L2, NEW C2, NEW R2, NEW T2,
           Decision(J, K2, N2, S2, L2, C2, R2, T2), K2[n] = f,
           HandsOn(c, L, R, L2, R2), Reports(c, T, T2)
    PROVE  HandedOn(n, f, L2) /\ GivenUp(n, f, T2)
  <1>0. /\ NodeOK(n, c, I, S, L, C, R) /\ I \in [Payments -> Int] /\ IdsUnique(I)
        /\ L \in SUBSET Payments /\ C \in SUBSET Payments /\ R \in SUBSET Payments
        /\ \A p \in Payments : I[p] # -1 => p \in S
        /\ \A p \in L \cup C \cup R : I[p] # -1
    BY DEF Decision, IdsOK, DecidedOK, IdsUnique
  <1>1. /\ NodeOK(n, f, J, S2, L2, C2, R2) /\ J \in [Payments -> Int] /\ IdsUnique(J) /\ DecidedOK(J, L2, C2, R2)
        /\ L2 \in SUBSET Payments /\ C2 \in SUBSET Payments /\ R2 \in SUBSET Payments
    BY DEF Decision, IdsOK, DecidedOK, IdsUnique
  <1>2. \A p \in L2 : PayTo(p) = n => p \in L \cup c.pendAdds
    BY DEF HandsOn
  <1>3. HandedOn(n, f, L2)
    BY <1>1, <1>2, HandedKept
  <1>4. \A p \in Payments : PayFrom[p] = n /\ "failed" \in T[p] => p \in R \/ (p \in S /\ p \notin AddsIn(c))
    BY DEF Decision, ToldOK
  <1>5. \A p \in AddsIn(c) : p \in Payments /\ I[p] = -1
    BY <1>0, AddsWait
  <1>6. \A p \in A : I[p] = -1 /\ (p \in AddsIn(c) \/ p \notin S)
    BY <1>0, <1>5 DEF Placeable
  <1>7. \A p \in Payments : PayFrom[p] = n /\ "failed" \in T2[p] => "failed" \in T[p] \/ p \in c.pendFails \/ (J[p] = -1)
    <2> TAKE p \in Payments
    <2> HAVE PayFrom[p] = n /\ "failed" \in T2[p]
    <2>1. CASE p \in AddsIn(c)
      <3>1. p \notin R2
        BY <2>1, <1>5, <1>0 DEF HandsOn
      <3>2. p \in R2 \/ J[p] = -1
        BY DEF Decision, ToldOK
      <3> QED
        BY <3>1, <3>2
    <2> QED
      BY <2>1 DEF Reports
  <1>8. GivenUp(n, f, T2)
    BY <1>0, <1>1, <1>4, <1>6, <1>7, GivenUpKept
  <1> QED
    BY <1>3, <1>8

\* What the user of its peer was told.
LEMMA PeerKnown ==
    ASSUME NEW I, NEW K, NEW N, NEW S, NEW L, NEW C, NEW R, NEW T,
           Decision(I, K, N, S, L, C, R, T), NEW n \in Nodes, NEW c, c = K[n], GivenUp(n, c, T),
           NEW m \in Nodes, m # n, NEW d, Known(m, d, L, T), NEW L2, NEW T2,
           NEW R2, HandsOn(c, L, R, L2, R2), Reports(c, T, T2)
    PROVE  Known(m, d, L2, T2)
  <1>0. NodeOK(n, c, I, S, L, C, R) /\ c.pendAdds \subseteq Payments /\ c.pendFails \subseteq Payments
    BY DEF Decision, NodeOK, Channel
  <1>1. \A p \in c.pendAdds : PayTo(p) # m
    BY <1>0 DEF NodeOK, InOK
  <1>2. \A p \in c.pendFails : PayFrom[p] # m
    BY DEF GivenUp
  <1>3. \A p \in AddsIn(c) : PayFrom[p] # m
    BY <1>0, AddsWait
  <1>4. HandedOn(m, d, L2)
    BY <1>1 DEF Known, HandedOn, HandsOn
  <1>5. GivenUp(m, d, T2)
    BY <1>2, <1>3 DEF Known, GivenUp, Reports
  <1> QED
    BY <1>4, <1>5 DEF Known

-----------------------------------------------------------------------------
(* A step of one node, and its peer.                                       *)

\* The channel c of the node becomes f, and its user's knowledge still fits.
Fares(c, f, S, A) == Keeps(c, f, A) /\ Placeable(c, S, A) /\ Queued(f) /\ Forgot(f)

\* One node moves and the two still agree.
LEMMA OneMoves ==
    ASSUME NEW I, NEW K, NEW N, NEW S, NEW L, NEW C, NEW R, NEW T,
           Decision(I, K, N, S, L, C, R, T), NEW k, Danced(K, N, k, L, T), NEW n \in Nodes, NEW m \in Nodes, m = Peer(n),
           NEW f, NEW A, Fares(K[n], f, S, A),
           NEW J, NEW K2, NEW N2, NEW S2, NEW L2, NEW C2, NEW R2, NEW T2,
           Decision(J, K2, N2, S2, L2, C2, R2, T2), K2[n] = f, K2[m] = K[m],
           HandsOn(K[n], L, R, L2, R2), Reports(K[n], T, T2),
           Agreed(f, K[m], N2[m], N2[n], k, From(n), From(m))
    PROVE  Danced(K2, N2, k, L2, T2)
  <1> DEFINE c == K[n]
  <1>1. m # n /\ n = Peer(m) /\ \A x \in Nodes : x = n \/ x = m
    BY PeerFacts
  <1>2. Known(n, c, L, T) /\ Known(m, K[m], L, T)
    BY DEF Danced
  <1>3. c = K[n] /\ Keeps(c, f, A) /\ Queued(f) /\ Forgot(f) /\ HandedOn(n, c, L) /\ GivenUp(n, c, T)
    BY <1>2 DEF Fares, Known
  <1>4. Placeable(c, S, A) /\ Reports(c, T, T2) /\ HandsOn(c, L, R, L2, R2)
    BY DEF Fares
  <1> HIDE DEF c
  <1>7. HandedOn(n, f, L2) /\ GivenUp(n, f, T2)
    BY <1>3, <1>4, MoverKnown
  <1>8. Known(m, K[m], L2, T2)
    BY <1>1, <1>2, <1>3, <1>4, PeerKnown
  <1>9. Known(n, K2[n], L2, T2)
    BY <1>3, <1>7 DEF Known
  <1>10. Agreed(K[m], f, N2[n], N2[m], k, From(m), From(n))
    BY AgreedSwaps
  <1>11. Agree(n, K2, N2, k)
    BY DEF Agree
  <1>12. Agree(m, K2, N2, k)
    BY <1>1, <1>10 DEF Agree
  <1> QED
    BY <1>1, <1>8, <1>9, <1>11, <1>12 DEF Danced

\* The state after a step, and what the two nodes agree on there.
Then(J) == Decision(J, ch', net', started', claimable', claimed', refused', told')

\* The two nodes are in step.
InStep == Danced(ch, net, Wire, claimable, told)

\* The two nodes are in step after a step that leaves the connection as it was.
StillInStep == Danced(ch', net', Wire, claimable', told')

\* A node takes a step, and the two are still in step.
LEMMA MoveStep ==
    ASSUME NEW I, Before(I), InStep, NEW J, Then(J), NEW n \in Nodes, NEW m \in Nodes, m = Peer(n),
           NEW f, Becomes(n, f), NEW A, Fares(ch[n], f, started, A),
           HandsOn(ch[n], claimable, refused, claimable', refused'),
           Reports(ch[n], told, told'), NEW v, NEW u, net'[m] = v, net'[n] = u,
           Agreed(f, ch[m], v, u, Wire, From(n), From(m))
    PROVE  StillInStep
  <1>1. ch'[n] = f /\ ch'[m] = ch[m]
    <2>1. ch = [x \in Nodes |-> ch[x]] /\ m # n
      BY PeerFacts DEF Before, Decision
    <2> QED
      BY <2>1 DEF Becomes
  <1>2. Decision(I, ch, net, started, claimable, claimed, refused, told)
    BY DEF Before
  <1>3. Decision(J, ch', net', started', claimable', claimed', refused', told')
    BY DEF Then
  <1>4. Danced(ch, net, Wire, claimable, told)
    BY DEF InStep
  <1>5. Agreed(f, ch[m], net'[m], net'[n], Wire, From(n), From(m))
    OBVIOUS
  <1>6. Danced(ch', net', Wire, claimable', told')
    BY <1>1, <1>2, <1>3, <1>4, <1>5, OneMoves
  <1> QED
    BY <1>6 DEF StillInStep

-----------------------------------------------------------------------------
(* update_add_htlc.                                                        *)

\* What is known of n and its peer m before a step.
Sound(n, I) ==
    /\ NodeOK(n, ch[n], I, started, claimable, claimed, refused) /\ ch[n] \in Channel
    /\ I \in [Payments -> Int] /\ IdsUnique(I)
    /\ claimable \in SUBSET Payments /\ claimed \in SUBSET Payments /\ refused \in SUBSET Payments
    /\ Orderly(n, ch[n]) /\ CellReady(ch[n]) /\ Queued(ch[n]) /\ Forgot(ch[n])

\* What is known of the two nodes and the queues between them before a step.
Linked(n, m) ==
    /\ net[n] \in Seq(Messages) /\ net[m] \in Seq(Messages)
    /\ Agreed(ch[n], ch[m], net[m], net[n], Wire, From(n), From(m))
    /\ Fits(ch[n], ch[m], From(n), From(m))

\* What is known before a step.
LEMMA Facts ==
    ASSUME NEW I, Before(I), InStep, NEW n \in Nodes, NEW m \in Nodes, m = Peer(n)
    PROVE  Sound(n, I) /\ Linked(n, m)
  <1>1. Decision(I, ch, net, started, claimable, claimed, refused, told)
    BY DEF Before
  <1>2. /\ NodeOK(n, ch[n], I, started, claimable, claimed, refused) /\ ch[n] \in Channel
        /\ I \in [Payments -> Int] /\ IdsUnique(I)
        /\ claimable \in SUBSET Payments /\ claimed \in SUBSET Payments /\ refused \in SUBSET Payments
    BY <1>1 DEF Decision, IdsOK, DecidedOK, IdsUnique, NodeOK
  <1>3. Orderly(n, ch[n])
    BY <1>2, NodeOrderly
  <1>4. Known(n, ch[n], claimable, told) /\ Agree(n, ch, net, Wire)
    BY DEF InStep, Danced
  <1>5. Queued(ch[n]) /\ Forgot(ch[n])
    BY <1>4 DEF Known
  <1>6. CellReady(ch[n])
    BY <1>2, <1>5, QueuedReady
  <1>7. \A x \in Nodes : net[x] \in Seq(Messages)
    <2> TAKE x \in Nodes
    <2>1. net[x] \in Seq(Deliverable(x, I, claimed, refused))
      BY <1>1 DEF Decision
    <2>2. Deliverable(x, I, claimed, refused) \subseteq Messages
      BY DEF Deliverable
    <2> HIDE DEF Deliverable
    <2> QED
      BY <2>1, <2>2
  <1>8. Fits(ch[n], ch[m], From(n), From(m))
    BY <1>1, DecisionFits
  <1>9. Agreed(ch[n], ch[m], net[m], net[n], Wire, From(n), From(m))
    BY <1>4 DEF Agree
  <1> QED
    BY <1>2, <1>3, <1>5, <1>6, <1>7, <1>8, <1>9 DEF Sound, Linked

\* The links after a message was sent, and after one was answered.
LEMMA LinksAfter ==
    ASSUME NEW I, Before(I), NEW n \in Nodes, NEW m \in Nodes, m = Peer(n), NEW msgs
    PROVE  /\ Sends(n, msgs) => net'[m] = net[m] \o msgs /\ net'[n] = net[n]
           /\ Replies(n, msgs) => net'[m] = net[m] \o msgs /\ net'[n] = Tail(net[n])
  <1>1. net = [x \in Nodes |-> net[x]] /\ m # n
    BY PeerFacts DEF Before, Decision
  <1> QED
    BY <1>1 DEF Sends, Replies

\* The queues after a message was taken that is not answered.
LEMMA NoAnswer ==
    ASSUME NEW I, Before(I), InStep, NEW n \in Nodes, NEW m \in Nodes, m = Peer(n), Replies(n, <<>>)
    PROVE  net'[m] = net[m] /\ net'[n] = Tail(net[n])
  <1>1. net'[m] = net[m] \o <<>> /\ net'[n] = Tail(net[n])
    BY LinksAfter
  <1>2. net[m] \in Seq(Messages)
    BY Facts DEF Linked
  <1> QED
    BY <1>1, <1>2

\* The channel after a step is in order.
LEMMA AfterOrderly ==
    ASSUME NEW I, Before(I), NEW J, Then(J), NEW n \in Nodes, NEW f, Becomes(n, f)
    PROVE  Orderly(n, f) /\ f.nextId \in Nat
  <1>1. ch'[n] = f
    BY DEF Becomes, Before, Decision
  <1>2. /\ NodeOK(n, f, J, started', claimable', claimed', refused') /\ f \in Channel
        /\ J \in [Payments -> Int] /\ IdsUnique(J)
        /\ claimable' \in SUBSET Payments /\ claimed' \in SUBSET Payments /\ refused' \in SUBSET Payments
    BY <1>1 DEF Then, Decision, IdsOK, DecidedOK, IdsUnique, NodeOK
  <1>3. Orderly(n, f)
    BY <1>2, NodeOrderly
  <1> QED
    BY <1>2, <1>3 DEF Channel

\* A channel that retains its HTLCs fares well.
LEMMA RetainsFares ==
    ASSUME NEW n, NEW c, Orderly(n, c), NEW f, Orderly(n, f), NEW A, Retains(c, f, A), Queued(c), Forgot(f),
           NEW S, Placeable(c, S, A)
    PROVE  Fares(c, f, S, A)
  <1>1. Held(c) /\ Held(f)
    BY DEF Orderly
  <1>2. Queued(f)
    BY <1>1, QueuedRetained
  <1>3. Keeps(c, f, A)
    BY RetainsKeeps
  <1> QED
    BY <1>2, <1>3 DEF Fares

\* A channel that is given up: why, and the user hears nothing of it.
Causes == {"assert", "signature", "add_after_shutdown", "update_while_closing", "shutdown_with_adds",
           "closing_order", "closing_signature"}

\* The channel is given up as it is.
Lost(n) == /\ claimable' = claimable /\ told' = told
           /\ \E why \in Causes : Becomes(n, Ends(ch[n], why))

\* update_add_htlc
LEMMA AddInStep ==
    ASSUME NEW I, Before(I), InStep, NEW J, Then(J), NEW n \in Nodes, UpdateAddHtlc(n)
    PROVE  StillInStep \/ Lost(n)
  <1> DEFINE c == ch[n]
             msg == Head(net[n])
             m == Peer(n)
             d == ch[m]
  <1>1. m \in Nodes /\ m = Peer(n)
    BY PeerFacts
  <1>2. Sound(n, I) /\ Linked(n, m)
    BY <1>1, Facts
  <1>3. Incoming(n, "add") /\ Replies(n, <<>>) /\ UNCHANGED <<conn, drops, payVars>>
    BY DEF UpdateAddHtlc
  <1>4. net[n] # <<>> /\ msg.t = "add" /\ msg \in Deliverable(n, I, claimed, refused)
    BY <1>3, IncomingFacts
  <1>5. msg.pay \in Payments /\ PayTo(msg.pay) = n /\ I[msg.pay] = msg.id /\ msg.id \in Nat
    BY <1>4, MessageFacts
  <1>6. CASE c.remoteShut
    <2>1. Becomes(n, Ends(c, "add_after_shutdown"))
      BY <1>6 DEF UpdateAddHtlc
    <2> QED
      BY <2>1, <1>3 DEF Lost, Causes, payVars
  <1>7. CASE ~c.remoteShut
    <2>0. /\ Link(d, c, net[n], Wire) /\ Adds(d, c, net[n]) /\ Matched(d, c)
      BY <1>2 DEF Linked, Agreed, Half, Fits
    <2>1. ~c.disc
      BY <2>0, <1>2, <1>4, LinkHead DEF Linked
    <2>2. /\ msg.id = c.nextCpId
          /\ \A p \in Payments : OutSt(d, p) # "none" /\ OutId(d, p) = c.nextCpId
                => OutSt(d, p) = "LocalAnnounced" /\ InSt(c, p) = "none"
          /\ \E p \in Payments : OutSt(d, p) # "none" /\ OutId(d, p) = c.nextCpId
      BY <2>0, <1>2, <1>4, AddsHead DEF Linked
    <2>3. PICK p \in Payments : OutSt(d, p) # "none" /\ OutId(d, p) = c.nextCpId
      BY <2>2
    <2>4. p = msg.pay
      <3>1. /\ Sound(m, I) /\ n = Peer(m)
        <4>1. n = Peer(m)
          BY PeerFacts
        <4> QED
          BY <1>1, <4>1, Facts
      <3>2. OutsAre(m, d, I)
        BY <1>1, <3>1, NodeSides DEF Sound
      <3>3. PayFrom[p] = m /\ I[p] = c.nextCpId /\ I[p] \in Nat
        BY <3>2, <2>3 DEF OutsAre
      <3>4. PayFrom[msg.pay] = m
        BY <1>5, PeerFacts
      <3>5. I[p] = I[msg.pay] /\ I[p] # -1
        BY <3>3, <2>2, <1>5
      <3> QED
        BY <3>3, <3>4, <3>5, <1>2, <1>5 DEF Sound, IdsUnique
    <2> DEFINE f == Received(c, c.nextCpId, p)
    <2>5. Becomes(n, f)
      BY <1>7, <2>1, <2>2, <2>4 DEF UpdateAddHtlc, Received
    <2>6. InSt(c, p) = "none"
      BY <2>2, <2>3
    <2> HIDE DEF f
    <2>7. Steady(c, f) /\ AddView(c, f, p) /\ Retains(c, f, {})
      BY <1>2, <2>6, AddEffect DEF f, Sound
    <2>8. Agreed(f, d, net[m], Tail(net[n]), Wire, From(n), From(m))
      BY <1>2, <1>4, <2>3, <2>7, AgreedTakes DEF Linked
    <2>9. Fares(c, f, started, {})
      <3>1. Orderly(n, f)
        BY <2>5, AfterOrderly
      <3>2. Placeable(c, started, {})
        BY DEF Placeable
      <3>3. Forgot(f)
        BY <2>1, <2>7 DEF Forgot, Steady
      <3> QED
        BY <3>1, <3>2, <3>3, <2>7, <1>2, RetainsFares DEF Sound
    <2>10. net'[m] = net[m] /\ net'[n] = Tail(net[n])
      BY <1>1, <1>3, NoAnswer
    <2>11. HandsOn(c, claimable, refused, claimable', refused') /\ Reports(c, told, told')
      BY <1>3 DEF HandsOn, Reports, payVars
    <2> HIDE DEF c, d, m
    <2>12. StillInStep
      BY <1>1, <2>5, <2>8, <2>9, <2>10, <2>11, MoveStep DEF c, d
    <2> QED
      BY <2>12
  <1> QED
    BY <1>6, <1>7

-----------------------------------------------------------------------------
(* update_fulfill_htlc and update_fail_htlc.                               *)

\* The payments known to have failed are the same.
LEMMA SameReports ==
    ASSUME NEW c, NEW T, NEW T2, \A p \in Payments : "failed" \in T2[p] => "failed" \in T[p]
    PROVE  Reports(c, T, T2)
  BY DEF Reports

\* A removal that is next in line is of an HTLC that can be removed.
LEMMA RemNext ==
    ASSUME NEW I, Before(I), InStep, NEW n \in Nodes, NEW m \in Nodes, m = Peer(n), NEW t \in Rem, Incoming(n, t)
    PROVE  /\ ~ch[n].disc
           /\ \E h \in ch[n].out : /\ h.st = "Committed" /\ h.id = Head(net[n]).id /\ h.pay \in Payments
                                   /\ InSt(ch[m], h.pay) = "LocalRemoved" /\ InId(ch[m], h.pay) = Head(net[n]).id
  <1> DEFINE c == ch[n]
             d == ch[m]
             r == net[n]
  <1>1. Sound(n, I) /\ Linked(n, m)
    BY Facts
  <1>2. r # <<>> /\ Head(r).t = t /\ Head(r) \in Deliverable(n, I, claimed, refused)
    BY IncomingFacts
  <1>3. Head(r).id \in Nat
    BY <1>2, MessageFacts DEF Rem
  <1>4. r \in Seq(Messages) /\ Link(d, c, r, Wire) /\ Rems(d, c, r) /\ Matched(c, d)
    BY <1>1 DEF Linked, Agreed, Half, Fits
  <1>5. OutsAre(n, c, I)
    BY <1>1, NodeSides DEF Sound
  <1> HIDE DEF c, d, r
  <1>6. ~c.disc
    <2>1. Head(r).t # "reestablish"
      BY <1>2 DEF Rem
    <2> QED
      BY <1>2, <1>4, <2>1, LinkHead
  <1>7. Carries(r, Rem, Head(r).id)
    <2>1. 1 \in 1 .. Len(r) /\ r[1] = Head(r)
      BY <1>2, <1>4
    <2> QED
      BY <2>1, <1>2 DEF Carries
  <1>8. PICK p \in Payments : InId(d, p) = Head(r).id /\ InSt(d, p) = "LocalRemoved" /\ OutSt(c, p) = "Committed"
    BY <1>3, <1>4, <1>7 DEF Rems
  <1>9. OutId(c, p) = InId(d, p)
    BY <1>4, <1>8 DEF Matched
  <1>10. PICK h \in c.out : h.pay = p /\ h.st = OutSt(c, p) /\ h.id = OutId(c, p)
    BY <1>5, <1>8 DEF OutsAre
  <1>11. /\ h.st = "Committed" /\ h.id = Head(r).id /\ h.pay \in Payments
         /\ InSt(d, h.pay) = "LocalRemoved" /\ InId(d, h.pay) = Head(r).id
    BY <1>8, <1>9, <1>10
  <1> QED
    BY <1>6, <1>11 DEF c, d, r

\* update_fulfill_htlc, update_fail_htlc
LEMMA RemInStep ==
    ASSUME NEW I, Before(I), InStep, NEW J, Then(J), NEW n \in Nodes, NEW t \in Rem, Incoming(n, t),
           Becomes(n, RemoteRemove(ch[n], Head(net[n]).id, t)), Replies(n, <<>>),
           claimable' = claimable, refused' = refused, conn' = conn, \A p \in Payments : "failed" \in told'[p] => "failed" \in told[p]
    PROVE  StillInStep
  <1> DEFINE c == ch[n]
             m == Peer(n)
             d == ch[m]
             f == RemoteRemove(c, Head(net[n]).id, t)
  <1>1. m \in Nodes /\ m = Peer(n)
    BY PeerFacts
  <1>2. Sound(n, I) /\ Linked(n, m)
    BY <1>1, Facts
  <1>4. net[n] # <<>> /\ Head(net[n]).t \in Rem
    BY IncomingFacts
  <1>5. ~c.disc
    BY <1>1, RemNext
  <1>6. PICK h \in c.out : /\ h.st = "Committed" /\ h.id = Head(net[n]).id /\ h.pay \in Payments
                           /\ InSt(d, h.pay) = "LocalRemoved" /\ InId(d, h.pay) = Head(net[n]).id
    BY <1>1, RemNext
  <1>7. f = RemoteRemove(c, h.id, t) /\ Becomes(n, f)
    BY <1>6
  <1> HIDE DEF f
  <1>8. Steady(c, f) /\ RemView(c, f, h.pay) /\ Retains(c, f, {})
    BY <1>2, <1>6, <1>7, RemEffect DEF Sound
  <1>9. Agreed(f, d, net[m], Tail(net[n]), Wire, From(n), From(m))
    BY <1>2, <1>4, <1>6, <1>8, AgreedRemoves DEF Linked
  <1>10. Fares(c, f, started, {})
    <2>1. Orderly(n, f)
      BY <1>7, AfterOrderly
    <2>2. Placeable(c, started, {})
      BY DEF Placeable
    <2>3. Forgot(f)
      BY <1>5, <1>8 DEF Forgot, Steady
    <2> QED
      BY <2>1, <2>2, <2>3, <1>8, <1>2, RetainsFares DEF Sound
  <1>11. net'[m] = net[m] /\ net'[n] = Tail(net[n])
    BY <1>1, NoAnswer
  <1>12. HandsOn(c, claimable, refused, claimable', refused') /\ Reports(c, told, told')
    BY SameReports DEF HandsOn
  <1> HIDE DEF c, d, m
  <1>13. StillInStep
    BY <1>1, <1>7, <1>9, <1>10, <1>11, <1>12, MoveStep DEF c, d
  <1> QED
    BY <1>13

\* update_fulfill_htlc
LEMMA FulfillInStep ==
    ASSUME NEW I, Before(I), InStep, NEW J, Then(J), NEW n \in Nodes, UpdateFulfillHtlc(n)
    PROVE  StillInStep
  <1>1. Incoming(n, "fulfil") /\ Replies(n, <<>>) /\ "fulfil" \in Rem
    BY DEF UpdateFulfillHtlc, Rem
  <1>2. ~ch[n].disc
    BY <1>1, PeerFacts, RemNext
  <1>3. Becomes(n, RemoteRemove(ch[n], Head(net[n]).id, "fulfil"))
    BY <1>2 DEF UpdateFulfillHtlc
  <1>4. claimable' = claimable /\ refused' = refused /\ conn' = conn /\ \E X : Tells(X, "sent")
    BY DEF UpdateFulfillHtlc
  <1>5. \A p \in Payments : "failed" \in told'[p] => "failed" \in told[p]
    BY <1>4 DEF Tells
  <1> QED
    BY <1>1, <1>3, <1>4, <1>5, RemInStep

\* update_fail_htlc
LEMMA FailInStep ==
    ASSUME NEW I, Before(I), InStep, NEW J, Then(J), NEW n \in Nodes, UpdateFailHtlc(n)
    PROVE  StillInStep
  <1>1. Incoming(n, "fail") /\ Replies(n, <<>>) /\ "fail" \in Rem
    BY DEF UpdateFailHtlc, Rem
  <1>2. ~ch[n].disc
    BY <1>1, PeerFacts, RemNext
  <1>3. Becomes(n, RemoteRemove(ch[n], Head(net[n]).id, "fail"))
    BY <1>2 DEF UpdateFailHtlc
  <1>4. claimable' = claimable /\ refused' = refused /\ conn' = conn /\ told' = told
    BY DEF UpdateFailHtlc, payVars
  <1>5. \A p \in Payments : "failed" \in told'[p] => "failed" \in told[p]
    BY <1>4
  <1> QED
    BY <1>1, <1>3, <1>4, <1>5, RemInStep

-----------------------------------------------------------------------------
(* commitment_signed and revoke_and_ack.                                   *)

\* commitment_signed
LEMMA SignedInStep ==
    ASSUME NEW I, Before(I), InStep, NEW J, Then(J), NEW n \in Nodes, CommitmentSigned(n)
    PROVE  StillInStep \/ Lost(n)
  <1> DEFINE c == ch[n]
             m == Peer(n)
             d == ch[m]
             r == net[n]
             tx == build_commitment_transaction(n, c, c.holderNum, FALSE)
             f == commitment_signed_update_monitor(n, c, tx)
  <1>1. m \in Nodes /\ m = Peer(n)
    BY PeerFacts
  <1>2. Sound(n, I) /\ Linked(n, m)
    BY <1>1, Facts
  <1>3. Incoming(n, "cs") /\ Replies(n, <<>>) /\ UNCHANGED <<conn, drops, payVars>>
    BY DEF CommitmentSigned
  <1>4. r # <<>> /\ Head(r).t = "cs" /\ Head(r) \in Deliverable(n, I, claimed, refused)
    BY <1>3, IncomingFacts
  <1>5. ~c.disc
    <2>0. Link(d, c, r, Wire) /\ r \in Seq(Messages)
      BY <1>2 DEF Linked, Agreed
    <2> HIDE DEF r, c, d
    <2> QED
      BY <2>0, <1>4, LinkHead
  <1>6. CASE ClosingStarted(c) \/ ~BuildAsserts(n, c, FALSE) \/ tx # Head(r).tx
    <2>1. \E why \in {"update_while_closing", "assert", "signature"} : Becomes(n, Ends(c, why))
      BY <1>6, <1>5 DEF CommitmentSigned
    <2> QED
      BY <2>1, <1>3 DEF Lost, Causes, payVars
  <1>7. CASE ~(ClosingStarted(c) \/ ~BuildAsserts(n, c, FALSE) \/ tx # Head(r).tx)
    <2>1. Becomes(n, f)
      BY <1>7, <1>5 DEF CommitmentSigned
    <2>2. tx \in Txs
      <3>1. tx = Head(r).tx
        BY <1>7
      <3>2. Head(r) \in Messages
        BY <1>4 DEF Deliverable
      <3>3. Head(r).tx \in Txs
        <4> DEFINE x == Head(r)
        <4>1. x \in Messages /\ x.t = "cs"
          BY <1>4, <3>2
        <4> HIDE DEF x
        <4>2. x \in [t : {"cs"}, tx : Txs]
          BY <4>1 DEF Messages, Closings
        <4>3. x.tx \in Txs
          <5> HIDE DEF Txs
          <5> QED BY <4>2
        <4> QED
          BY <4>3 DEF x
      <3> QED
        BY <3>1, <3>3
    <2>3. Verifies(n, c, c.holderNum, tx) /\ f = commitment_signed_update_monitor(n, c, tx)
      BY DEF Verifies
    <2> HIDE DEF tx, f
    <2>4. Retains(c, f, {}) /\ \E b : Accepts(c, f, b) /\ AcceptView(c, f, b, tx)
      <3>1. Orderly(n, c)
        BY <1>2 DEF Sound
      <3> HIDE DEF c
      <3> QED
        BY <3>1, <1>5, <2>2, <2>3, AcceptEffect
    <2>5. PICK b : Accepts(c, f, b) /\ AcceptView(c, f, b, tx)
      BY <2>4
    <2>6. Agreed(f, d, net[m], Tail(r), Wire, From(n), From(m))
      BY <1>2, <1>4, <2>5, AgreedAccepts DEF Linked
    <2>7. Fares(c, f, started, {})
      <3>1. Orderly(n, f)
        BY <2>1, AfterOrderly
      <3>2. Placeable(c, started, {})
        BY DEF Placeable
      <3>3. Forgot(f)
        BY <2>5 DEF Forgot, Accepts
      <3> QED
        BY <3>1, <3>2, <3>3, <2>4, <1>2, RetainsFares DEF Sound
    <2>8. net'[m] = net[m] /\ net'[n] = Tail(r)
      BY <1>1, <1>3, NoAnswer
    <2>9. HandsOn(c, claimable, refused, claimable', refused') /\ Reports(c, told, told')
      BY <1>3 DEF HandsOn, Reports, payVars
    <2> HIDE DEF c, d, m, r
    <2>10. StillInStep
      BY <1>1, <2>1, <2>6, <2>7, <2>8, <2>9, MoveStep DEF c, d
    <2> QED
      BY <2>10
  <1> QED
    BY <1>6, <1>7

\* The additions given up when the holding cell is freed waited in it.
LEMMA FreeFails ==
    ASSUME NEW I, NEW K, NEW N, NEW S, NEW L, NEW C, NEW R, NEW T,
           Decision(I, K, N, S, L, C, R, T), NEW n \in Nodes,
           NEW c, NodeOK(n, c, I, S, L, C, R), c.nextId = K[n].nextId,
           NEW tight, NEW e, e = maybe_free_holding_cell_htlcs(n, c, tight)
    PROVE  e \in Accs /\ \A p \in e.failed : p \in AddsIn(c)
  <1>1. /\ I \in [Payments -> Int] /\ IdsUnique(I)
        /\ L \in SUBSET Payments /\ C \in SUBSET Payments /\ R \in SUBSET Payments
        /\ \A q \in L \cup C \cup R : I[q] # -1
        /\ \A p \in Payments : I[p] # -1 =>
                I[p] >= 0 /\ p \in S /\ (PayFrom[p] = n => I[p] < c.nextId)
    BY NodeFacts
  <1>2. e \in Accs /\ \E J : FreedTo(n, c, e, I, J, S, L, C, R)
    BY <1>1, MaybeFreeKeeps
  <1> QED
    BY <1>2 DEF FreedTo, Moves

\* The additions given up on a revocation waited in the holding cell.
LEMMA RevokeFails ==
    ASSUME NEW I, Before(I), NEW n \in Nodes, NEW tight
    PROVE  /\ maybe_free_holding_cell_htlcs(n, ApplyRevocation(ch[n]), tight) \in Accs
           /\ \A p \in revoke_and_ack(n, ch[n], tight).failed : p \in AddsIn(ch[n])
  <1> DEFINE c == ch[n]
             x == ApplyRevocation(c)
             e == maybe_free_holding_cell_htlcs(n, x, tight)
  <1>1. /\ NodeOK(n, c, I, started, claimable, claimed, refused) /\ c \in Channel
        /\ I \in [Payments -> Int] /\ IdsUnique(I)
        /\ claimable \in SUBSET Payments /\ claimed \in SUBSET Payments /\ refused \in SUBSET Payments
    BY NodeFacts DEF Before
  <1>2. Decision(I, ch, net, started, claimable, claimed, refused, told)
    BY DEF Before
  <1>3. x = ApplyRevocation(c) /\ e = maybe_free_holding_cell_htlcs(n, x, tight)
    OBVIOUS
  <1>4. x.cell = c.cell /\ x.nextId = c.nextId
    BY <1>1 DEF ApplyRevocation, RevocationApplied, Channel
  <1>5. c = ch[n]
    OBVIOUS
  <1> HIDE DEF c, x, e
  <1>6. NodeOK(n, x, I, started, claimable, claimed, refused)
    BY <1>1, <1>3, RevokedKeeps
  <1>7. x.nextId = ch[n].nextId
    BY <1>4, <1>5
  <1>8. e \in Accs /\ \A p \in e.failed : p \in AddsIn(x)
    BY <1>2, <1>3, <1>6, <1>7, FreeFails
  <1>9. AddsIn(x) = AddsIn(c)
    BY <1>4 DEF AddsIn, CellAdds
  <1>10. revoke_and_ack(n, c, tight).failed = e.failed
    <2>0. e.did \in BOOLEAN /\ e = [c |-> e.c, failed |-> e.failed, did |-> e.did]
      BY <1>8 DEF Accs
    <2>1. CASE e.did
      <3>1. revoke_and_ack(n, c, tight) = e
        BY <1>3, <2>1 DEF revoke_and_ack
      <3> QED
        BY <3>1
    <2>2. CASE ~e.did /\ RequireCommitment(c)
      <3>1. revoke_and_ack(n, c, tight) = [e EXCEPT !.c = BuildAndPause(n, @)]
        BY <1>3, <2>2 DEF revoke_and_ack
      <3> QED
        BY <3>1, <2>0
    <2>3. CASE ~e.did /\ ~RequireCommitment(c)
      <3>1. revoke_and_ack(n, c, tight) = [e EXCEPT !.c = monitor_updating_paused(@, FALSE, FALSE)]
        BY <1>3, <2>3 DEF revoke_and_ack
      <3> QED
        BY <3>1, <2>0
    <2> QED
      BY <2>0, <2>1, <2>2, <2>3
  <1>11. e \in Accs /\ \A p \in revoke_and_ack(n, c, tight).failed : p \in AddsIn(c)
    BY <1>8, <1>9, <1>10
  <1> QED
    BY <1>11, <1>3, <1>5

\* revoke_and_ack
LEMMA RevokeInStep ==
    ASSUME NEW I, Before(I), InStep, NEW J, Then(J), NEW n \in Nodes, RevokeAndAck(n)
    PROVE  StillInStep \/ Lost(n)
  <1> DEFINE c == ch[n]
             m == Peer(n)
             d == ch[m]
             r == net[n]
  <1>1. m \in Nodes /\ m = Peer(n)
    BY PeerFacts
  <1>2. Sound(n, I) /\ Linked(n, m)
    BY <1>1, Facts
  <1>3. Incoming(n, "raa") /\ Replies(n, <<>>) /\ UNCHANGED <<conn, drops, started, claimable, claimed, refused>>
    BY DEF RevokeAndAck
  <1>4. r # <<>> /\ Head(r).t = "raa"
    BY <1>3, IncomingFacts
  <1>5. ~c.disc /\ c.awaitRaa /\ Head(r).num = c.cpNum - 1
    <2>0. Link(d, c, r, Wire) /\ Link(c, d, net[m], Wire) /\ r \in Seq(Messages) /\ Counted(c) /\ Counted(d)
      BY <1>2 DEF Linked, Agreed, Fits
    <2> HIDE DEF r, c, d
    <2>1. ~c.disc /\ OwesRaa(d, c) /\ Head(r).num = d.holderNum - 2
      <3>1. Head(r).t = "raa" => /\ OwesRaa(d, c) /\ ~(~RaaFirst(d) /\ OwesCs(d, c))
                                 /\ Head(r).num = d.holderNum - 2
        BY <2>0, <1>4, LinkHead
      <3>2. Head(r).t # "reestablish" => Wire = "up" /\ ~c.disc /\ ~d.disc
        BY <2>0, <1>4, LinkHead
      <3> QED
        BY <3>1, <3>2, <1>4
    <2>2. Turns(c, d)
      BY <2>0 DEF Link
    <2>3. d.holderNum = c.cpNum + 1 /\ c.awaitRaa
      BY <2>0, <2>1, <2>2 DEF OwesRaa, Turns, Counted
    <2>4. d.holderNum - 2 = c.cpNum - 1
      BY <2>0, <2>3 DEF Counted
    <2> QED
      BY <2>1, <2>3, <2>4
  <1>6. CASE ClosingStarted(c)
    <2>1. RevokeError(c, Head(r)) = "update_while_closing"
      BY <1>6, <1>5 DEF RevokeError
    <2>2. Becomes(n, Ends(c, "update_while_closing")) /\ told' = told
      BY <2>1 DEF RevokeAndAck
    <2> QED
      BY <2>2, <1>3 DEF Lost, Causes
  <1>7. CASE ~ClosingStarted(c)
    <2>1. RevokeError(c, Head(r)) = "open"
      BY <1>7, <1>5 DEF RevokeError
    <2>2. PICK tight : Becomes(n, revoke_and_ack(n, c, tight).c) /\ Tells(revoke_and_ack(n, c, tight).failed, "failed")
      BY <2>1 DEF RevokeAndAck
    <2> DEFINE g == revoke_and_ack(n, c, tight)
               f == g.c
    <2>3. /\ maybe_free_holding_cell_htlcs(n, ApplyRevocation(c), tight) \in Accs
          /\ \A p \in g.failed : p \in AddsIn(c)
      BY RevokeFails
    <2>4. f = revoke_and_ack(n, c, tight).c /\ Becomes(n, f) /\ Tells(g.failed, "failed")
      BY <2>2
    <2> HIDE DEF f, g
    <2>5. Retains(c, f, AddsIn(c)) /\ \E b : Revokes(c, f, b) /\ RevokeView(c, f, b)
      <3>1. /\ NodeOK(n, c, I, started, claimable, claimed, refused)
            /\ I \in [Payments -> Int] /\ IdsUnique(I)
            /\ claimable \in SUBSET Payments /\ claimed \in SUBSET Payments /\ refused \in SUBSET Payments
            /\ CellReady(c)
        BY <1>2 DEF Sound
      <3> HIDE DEF c
      <3> QED
        BY <3>1, <1>5, <2>3, <2>4, RevokeEffect
    <2>6. PICK b : Revokes(c, f, b) /\ RevokeView(c, f, b)
      BY <2>5
    <2>7. Orderly(n, f) /\ f.nextId \in Nat
      BY <2>4, AfterOrderly
    <2>8. Agreed(f, d, net[m], Tail(r), Wire, From(n), From(m))
      BY <1>2, <1>4, <2>6, <2>7, AgreedRevokes DEF Linked
    <2>9. Fares(c, f, started, AddsIn(c))
      <3>2. Placeable(c, started, AddsIn(c))
        BY DEF Placeable
      <3>3. Forgot(f)
        BY <2>6 DEF Forgot, Revokes
      <3> QED
        BY <3>2, <3>3, <2>5, <2>7, <1>2, RetainsFares DEF Sound
    <2>10. net'[m] = net[m] /\ net'[n] = Tail(r)
      BY <1>1, <1>3, NoAnswer
    <2>11. HandsOn(c, claimable, refused, claimable', refused')
      BY <1>3 DEF HandsOn
    <2>12. Reports(c, told, told')
      BY <2>3, <2>4 DEF Reports, Tells
    <2> HIDE DEF c, d, m, r
    <2>13. StillInStep
      BY <1>1, <2>4, <2>8, <2>9, <2>10, <2>11, <2>12, MoveStep DEF c, d
    <2> QED
      BY <2>13
  <1> QED
    BY <1>6, <1>7

-----------------------------------------------------------------------------
(* Steps aside from the dance, and check_free_holding_cells.               *)

\* A message aside from the commitment protocol, or none.
Casual(s) == s \in Seq(Messages) /\ \A T : Has(s, T) => T \cap Aside # {}

\* Messages aside from the commitment protocol.
LEMMA CasualOnes ==
    /\ Casual(<<>>) /\ Casual(<<[t |-> "shutdown"]>>)
    /\ \A x \in Closings : Casual(<<x>>)
  <1>1. Casual(<<>>)
    BY DEF Casual, Has
  <1>2. Casual(<<[t |-> "shutdown"]>>)
    <2> DEFINE s == <<[t |-> "shutdown"]>>
    <2>1. [t |-> "shutdown"] \in Messages
      BY DEF Messages
    <2>2. s \in Seq(Messages) /\ Len(s) = 1 /\ s[1].t = "shutdown"
      BY <2>1
    <2> HIDE DEF s
    <2>3. \A i \in 1 .. Len(s) : s[i].t = "shutdown"
      BY <2>2
    <2> QED
      BY <2>2, <2>3 DEF Casual, Has, Aside, s
  <1>3. ASSUME NEW x \in Closings PROVE Casual(<<x>>)
    <2> DEFINE s == <<x>>
    <2>1. x \in Messages /\ x.t = "closing"
      BY DEF Messages, Closings
    <2>2. s \in Seq(Messages) /\ Len(s) = 1 /\ s[1].t = "closing"
      BY <2>1
    <2> HIDE DEF s
    <2>3. \A i \in 1 .. Len(s) : s[i].t = "closing"
      BY <2>2
    <2> QED
      BY <2>2, <2>3 DEF Casual, Has, Aside, s
  <1> QED
    BY <1>1, <1>2, <1>3

\* The HTLCs of a channel that loses nothing it was told.
LEMMA SameFares ==
    ASSUME NEW n, NEW c, Orderly(n, c), NEW f, SameHtlcs(c, f), f.disc <=> c.disc,
           f.pendAdds \subseteq c.pendAdds, f.pendFails \subseteq c.pendFails, Queued(f), Forgot(c), NEW S
    PROVE  Fares(c, f, S, {}) /\ SameView(c, f)
  <1>1. f.inb = c.inb /\ f.out = c.out /\ c.nextId \in Nat
    BY DEF SameHtlcs, Orderly, Channel
  <1>2. Keeps(c, f, {})
    BY <1>1, SameKeeps
  <1>3. SameView(c, f)
    BY <1>1, SameHtlcsView
  <1>4. Forgot(f)
    BY <1>3 DEF Forgot, SameView
  <1> QED
    BY <1>2, <1>3, <1>4 DEF Fares, Placeable

\* A step that touches neither HTLCs nor turns.
LEMMA SteadyStep ==
    ASSUME NEW I, Before(I), InStep, NEW J, Then(J), NEW n \in Nodes, NEW m \in Nodes, m = Peer(n),
           NEW f, Becomes(n, f), Steady(ch[n], f), SameHtlcs(ch[n], f),
           f.pendAdds = ch[n].pendAdds, f.pendFails = ch[n].pendFails, Queued(f),
           HandsOn(ch[n], claimable, refused, claimable', refused'), Reports(ch[n], told, told'),
           NEW s, Casual(s), s = <<>> \/ ~ch[n].disc,
           net'[m] = net[m] \o s,
           \/ net'[n] = net[n]
           \/ net[n] # <<>> /\ Head(net[n]).t \in Aside /\ net'[n] = Tail(net[n])
    PROVE  StillInStep
  <1> DEFINE c == ch[n]
             d == ch[m]
             u == net'[n]
  <1>1. Sound(n, I) /\ Linked(n, m)
    BY Facts
  <1>2. Orderly(n, c) /\ Forgot(c)
    BY <1>1 DEF Sound
  <1>3. f.disc <=> c.disc
    BY DEF Steady
  <1>4. SameHtlcs(c, f) /\ f.pendAdds \subseteq c.pendAdds /\ f.pendFails \subseteq c.pendFails
    OBVIOUS
  <1>5. Fares(c, f, started, {}) /\ SameView(c, f)
    <2> HIDE DEF c
    <2> QED
      BY <1>2, <1>3, <1>4, SameFares
  <1>6. /\ net[m] \in Seq(Messages) /\ net[n] \in Seq(Messages)
        /\ Agreed(c, d, net[m], net[n], Wire, From(n), From(m)) /\ From(n) \subseteq Payments /\ From(m) \subseteq Payments
    BY <1>1 DEF Linked, Fits
  <1>7. \/ u = net[n]
        \/ net[n] # <<>> /\ Head(net[n]).t \in Aside /\ u = Tail(net[n])
    OBVIOUS
  <1>8. s \in Seq(Messages) /\ \A T : Has(s, T) => T \cap Aside # {}
    BY DEF Casual
  <1>9. Steady(c, f) /\ (s = <<>> \/ ~c.disc)
    OBVIOUS
  <1>10. Agreed(f, d, net[m] \o s, u, Wire, From(n), From(m))
    <2> HIDE DEF c, d, u
    <2> QED
      BY <1>5, <1>6, <1>7, <1>8, <1>9, AgreedSteady
  <1> QED
    BY <1>5, <1>10, MoveStep

\* check_free_holding_cells
LEMMA FreeInStep ==
    ASSUME NEW I, Before(I), InStep, NEW J, Then(J), NEW n \in Nodes, FreeHoldingCells(n)
    PROVE  StillInStep
  <1> DEFINE c == ch[n]
             m == Peer(n)
             d == ch[m]
  <1>1. m \in Nodes /\ m = Peer(n)
    BY PeerFacts
  <1>2. Sound(n, I) /\ Linked(n, m)
    BY <1>1, Facts
  <1>3. can_generate_new_commitment(c) /\ UNCHANGED <<net, conn, drops, started, claimable, claimed, refused>>
    BY DEF FreeHoldingCells
  <1>4. PICK tight : LET freed == maybe_free_holding_cell_htlcs(n, c, tight)
                     IN Becomes(n, freed.c) /\ Tells(freed.failed, "failed")
    BY DEF FreeHoldingCells
  <1> DEFINE e == maybe_free_holding_cell_htlcs(n, c, tight)
             f == e.c
  <1>5. e = maybe_free_holding_cell_htlcs(n, c, tight) /\ e = free_holding_cell_htlcs(n, c, tight) /\ f = e.c
    BY <1>3 DEF maybe_free_holding_cell_htlcs
  <1>6. Becomes(n, f) /\ Tells(e.failed, "failed")
    BY <1>4
  <1> HIDE DEF e, f
  <1>7. \A p \in e.failed : p \in AddsIn(c)
    <2>1. Decision(I, ch, net, started, claimable, claimed, refused, told)
      BY DEF Before
    <2>2. NodeOK(n, c, I, started, claimable, claimed, refused) /\ c.nextId = ch[n].nextId
      BY <1>2 DEF Sound
    <2> HIDE DEF c
    <2> QED
      BY <1>5, <2>1, <2>2, FreeFails
  <1>8. Orderly(n, c) /\ CellReady(c) /\ Queued(c) /\ Forgot(c)
    BY <1>2 DEF Sound
  <1>9. Retains(c, f, AddsIn(c))
    <2> HIDE DEF c
    <2> QED
      BY <1>3, <1>5, <1>8, FreeEffect
  <1>10. \/ Builds(c, f) /\ BuildView(c, f)
         \/ SameTurn(c, f) /\ SameHtlcs(c, f)
    <2> HIDE DEF c
    <2> QED
      BY <1>3, <1>5, <1>8, FreeEffect
  <1>11. Orderly(n, f) /\ f.nextId \in Nat
    BY <1>6, AfterOrderly
  <1>12. HandsOn(c, claimable, refused, claimable', refused') /\ net' = net
    BY <1>3 DEF HandsOn
  <1>13. Reports(c, told, told')
    BY <1>6, <1>7 DEF Reports, Tells
  <1>14. ~c.disc
    BY <1>3 DEF can_generate_new_commitment
  <1>15. ~f.disc
    BY <1>10, <1>14 DEF Builds, SameTurn
  <1>16. Fares(c, f, started, AddsIn(c))
    <2>1. Placeable(c, started, AddsIn(c))
      BY DEF Placeable
    <2>2. Forgot(f)
      BY <1>15 DEF Forgot
    <2> HIDE DEF c
    <2> QED
      BY <2>1, <2>2, <1>8, <1>9, <1>11, RetainsFares
  <1>17. Agreed(f, d, net[m], net[n], Wire, From(n), From(m))
    <2>0. /\ net[m] \in Seq(Messages) /\ net[n] \in Seq(Messages)
          /\ Agreed(c, d, net[m], net[n], Wire, From(n), From(m)) /\ Fits(c, d, From(n), From(m))
          /\ From(n) \subseteq Payments /\ From(m) \subseteq Payments
      BY <1>2 DEF Linked, Fits
    <2> HIDE DEF c, d, m
    <2>1. CASE Builds(c, f) /\ BuildView(c, f)
      BY <2>0, <2>1, <1>11, AgreedBuilds
    <2>2. CASE SameTurn(c, f) /\ SameHtlcs(c, f)
      <3>1. Steady(c, f)
        BY <2>2 DEF SameTurn, Steady
      <3>2. SameView(c, f)
        BY <2>2, <1>8, SameHtlcsView DEF Orderly, Channel
      <3>3. <<>> \in Seq(Messages) /\ \A T : Has(<<>>, T) => T \cap Aside # {}
        BY CasualOnes DEF Casual
      <3>4. net[m] \o <<>> = net[m]
        BY <2>0
      <3>5. Agreed(f, d, net[m] \o <<>>, net[n], Wire, From(n), From(m))
        BY <2>0, <3>1, <3>2, <3>3, AgreedSteady
      <3> QED
        BY <3>4, <3>5
    <2> QED
      BY <2>1, <2>2, <1>10
  <1>18. net'[m] = net[m] /\ net'[n] = net[n]
    BY <1>12
  <1> HIDE DEF c, d, m
  <1>19. StillInStep
    BY <1>1, <1>6, <1>12, <1>13, <1>16, <1>17, <1>18, MoveStep DEF c, d
  <1> QED
    BY <1>19

-----------------------------------------------------------------------------
(* monitor_updating_restored and send_payment.                             *)

\* monitor_updating_restored
LEMMA RestoredInStep ==
    ASSUME NEW I, Before(I), InStep, NEW J, Then(J), NEW n \in Nodes, MonitorRestored(n)
    PROVE  StillInStep
  <1> DEFINE c == ch[n]
             m == Peer(n)
             d == ch[m]
             e == [c EXCEPT !.monBusy = FALSE, !.pendRaa = FALSE, !.pendCs = FALSE]
             f == [c EXCEPT !.monBusy = FALSE, !.pendRaa = FALSE,
                            !.pendCs = FALSE, !.pendAdds = {}, !.pendFails = {}]
             s == IF c.disc THEN <<>> ELSE Resumption(n, c, c.pendRaa, c.pendCs)
  <1>1. m \in Nodes /\ m = Peer(n)
    BY PeerFacts
  <1>2. Sound(n, I) /\ Linked(n, m)
    BY <1>1, Facts
  <1>3. /\ Becomes(n, f) /\ Sends(n, s) /\ claimable' = claimable \cup c.pendAdds
        /\ Tells(c.pendFails, "failed") /\ refused' = refused
    BY DEF MonitorRestored
  <1>4. Orderly(n, c) /\ Queued(c) /\ Forgot(c) /\ c \in Channel
    BY <1>2 DEF Sound
  <1>5. /\ SameHtlcs(c, f) /\ Restores(c, f) /\ (f.disc <=> c.disc) /\ f.cell = c.cell /\ f.inb = c.inb
        /\ f.pendAdds \subseteq c.pendAdds /\ f.pendFails \subseteq c.pendFails
    BY <1>4 DEF Channel, SameHtlcs, Restores
  <1>6. LateSent(n, c, s)
    <2>1. c.pendRaa \in BOOLEAN /\ c.pendCs \in BOOLEAN
      BY <1>4 DEF Channel
    <2>2. Resent(n, c, c.pendRaa, c.pendCs, Resumption(n, c, c.pendRaa, c.pendCs))
      <3>1. /\ NodeOK(n, c, I, started, claimable, claimed, refused)
            /\ I \in [Payments -> Int] /\ IdsUnique(I)
            /\ claimable \in SUBSET Payments /\ claimed \in SUBSET Payments /\ refused \in SUBSET Payments
        BY <1>2 DEF Sound
      <3> DEFINE raa == c.pendRaa
                 cs == c.pendCs
      <3>2. raa \in BOOLEAN /\ cs \in BOOLEAN
        BY <2>1
      <3> HIDE DEF c, raa, cs
      <3>3. Resent(n, c, raa, cs, Resumption(n, c, raa, cs))
        BY <3>1, <3>2, ResumptionResent
      <3> QED
        BY <3>3 DEF raa, cs
    <2> QED
      BY <2>1, <2>2 DEF LateSent
  <1> HIDE DEF f, s
  <1>7. Queued(f)
    <2> HIDE DEF c
    <2> QED
      BY <1>4, <1>5, QueuedSame
  <1>8. Fares(c, f, started, {})
    <2> HIDE DEF c
    <2> QED
      BY <1>4, <1>5, <1>7, SameFares
  <1>9. net'[m] = net[m] \o s /\ net'[n] = net[n]
    BY <1>1, <1>3, LinksAfter
  <1>10. Agreed(f, d, net[m] \o s, net[n], Wire, From(n), From(m))
    <2>0. /\ net[m] \in Seq(Messages) /\ net[n] \in Seq(Messages)
          /\ Agreed(c, d, net[m], net[n], Wire, From(n), From(m)) /\ Fits(c, d, From(n), From(m))
      BY <1>2 DEF Linked
    <2>1. Held(c)
      BY <1>4 DEF Orderly
    <2> HIDE DEF c, d, m
    <2> QED
      BY <2>0, <2>1, <1>5, <1>6, AgreedRestores
  <1>11. HandsOn(c, claimable, refused, claimable', refused')
    BY <1>3 DEF HandsOn
  <1>12. Reports(c, told, told')
    BY <1>3 DEF Reports, Tells
  <1> HIDE DEF c, d, m
  <1>13. StillInStep
    BY <1>1, <1>3, <1>8, <1>9, <1>10, <1>11, <1>12, MoveStep DEF c, d
  <1> QED
    BY <1>13

\* A payment not yet started is not under way.
LEMMA UnsentIsNone ==
    ASSUME NEW I, Before(I), NEW n \in Nodes, NEW p \in Payments, p \notin started
    PROVE  OutSt(ch[n], p) = "none" /\ I[p] = -1
  <1>1. /\ NodeOK(n, ch[n], I, started, claimable, claimed, refused)
        /\ I \in [Payments -> Int] /\ IdsUnique(I)
        /\ claimable \in SUBSET Payments /\ claimed \in SUBSET Payments /\ refused \in SUBSET Payments
        /\ \A o \in Payments : I[o] # -1 => o \in started
    BY NodeFacts DEF Before
  <1>2. OutsAre(n, ch[n], I)
    BY <1>1, NodeSides
  <1>3. I[p] = -1
    BY <1>1
  <1> QED
    BY <1>2, <1>3 DEF OutsAre

\* send_payment: placed at once.
LEMMA SendBuildInStep ==
    ASSUME NEW I, Before(I), InStep, NEW J, Then(J), NEW n \in Nodes, NEW p \in Payments, SendPayment(n, p),
           can_generate_new_commitment(ch[n])
    PROVE  StillInStep
  <1> DEFINE c == ch[n]
             m == Peer(n)
             d == ch[m]
             e == PlaceHtlc(c, p)
             f == BuildAndPause(n, e)
  <1>1. m \in Nodes /\ m = Peer(n)
    BY PeerFacts
  <1>2. Sound(n, I) /\ Linked(n, m)
    BY <1>1, Facts
  <1>3. /\ Becomes(n, f) /\ p \notin started /\ net' = net /\ claimable' = claimable /\ told' = told /\ refused' = refused
    BY DEF SendPayment
  <1>4. Orderly(n, c) /\ Queued(c) /\ Forgot(c) /\ c \in Channel
    BY <1>2 DEF Sound
  <1>5. OutSt(c, p) = "none" /\ Held(c) /\ c.nextId \in Nat /\ can_generate_new_commitment(c)
    BY <1>3, <1>4, UnsentIsNone DEF Orderly, Channel
  <1>6. e = PlaceHtlc(c, p) /\ f = BuildAndPause(n, e)
    OBVIOUS
  <1> HIDE DEF e, f
  <1>7. /\ e \in Channel /\ Held(e) /\ SetOff(c, e, {p}) /\ SameTurn(c, e)
        /\ e.cell = c.cell /\ e.fate = c.fate /\ e.inb = c.inb
    <2> HIDE DEF c
    <2> QED
      BY <1>4, <1>5, <1>6, PlaceSetsOff
  <1>8. Builds(c, f) /\ BuildView(c, f)
    <2> HIDE DEF c
    <2> QED
      BY <1>5, <1>6, <1>7, BuildsAfter
  <1>9. Retains(c, f, {p})
    <2>1. e.cell = c.cell /\ \A o \in Payments : InSt(c, o) = "Committed" => InSt(e, o) = "Committed"
      BY <1>7 DEF InSt
    <2> HIDE DEF c
    <2> QED
      BY <2>1, <1>6, <1>7, BuildRetains
  <1>10. Orderly(n, f) /\ f.nextId \in Nat
    BY <1>3, AfterOrderly
  <1>11. Fares(c, f, started, {p})
    <2>1. Placeable(c, started, {p})
      BY <1>3 DEF Placeable
    <2>2. Forgot(f)
      BY <1>8 DEF Forgot, Builds
    <2> HIDE DEF c
    <2> QED
      BY <2>1, <2>2, <1>4, <1>9, <1>10, RetainsFares
  <1>12. Agreed(f, d, net[m], net[n], Wire, From(n), From(m))
    <2>0. Agreed(c, d, net[m], net[n], Wire, From(n), From(m)) /\ Fits(c, d, From(n), From(m))
      BY <1>2 DEF Linked
    <2> HIDE DEF c, d, m
    <2> QED
      BY <2>0, <1>8, <1>10, AgreedBuilds
  <1>13. HandsOn(c, claimable, refused, claimable', refused') /\ Reports(c, told, told')
    BY <1>3 DEF HandsOn, Reports
  <1>14. net'[m] = net[m] /\ net'[n] = net[n]
    BY <1>3
  <1> HIDE DEF c, d, m
  <1>15. StillInStep
    BY <1>1, <1>3, <1>11, <1>12, <1>13, <1>14, MoveStep DEF c, d
  <1> QED
    BY <1>15

\* A step that only puts an update into the holding cell, and may start a monitor update.
LEMMA AppendStep ==
    ASSUME NEW I, Before(I), InStep, NEW J, Then(J), NEW n \in Nodes, NEW u \in Updates,
           u.op # "add" => /\ \E h \in ch[n].inb : h.id = u.id /\ h.st = "Committed"
                           /\ \A i \in 1 .. Len(ch[n].cell) : ch[n].cell[i].op # "add" => ch[n].cell[i].id # u.id,
           NEW e, e = [ch[n] EXCEPT !.cell = Append(@, u)],
           NEW f, f = e \/ f = monitor_updating_paused(e, FALSE, FALSE), Becomes(n, f), net' = net,
           HandsOn(ch[n], claimable, refused, claimable', refused'), Reports(ch[n], told, told')
    PROVE  StillInStep
  <1> DEFINE c == ch[n]
             m == Peer(n)
  <1>1. m \in Nodes /\ m = Peer(n)
    BY PeerFacts
  <1>2. Sound(n, I) /\ Linked(n, m)
    BY <1>1, Facts
  <1>3. Orderly(n, c) /\ Queued(c) /\ Forgot(c) /\ c \in Channel
    BY <1>2 DEF Sound
  <1>4. c.cell \in Seq(Updates)
    BY <1>3 DEF Channel
  <1>5. /\ e.cell = Append(c.cell, u) /\ e.inb = c.inb /\ e.out = c.out /\ e.nextId = c.nextId /\ e.nextCpId = c.nextCpId
        /\ e.txs = c.txs /\ e.pendAdds = c.pendAdds /\ e.pendFails = c.pendFails
        /\ SameTurn(c, e)
    BY <1>3 DEF Channel, SameTurn
  <1>6. /\ f.cell = e.cell /\ f.inb = e.inb /\ f.out = e.out /\ f.nextId = e.nextId /\ f.nextCpId = e.nextCpId
        /\ f.txs = e.txs /\ f.pendAdds = e.pendAdds /\ f.pendFails = e.pendFails
        /\ Steady(e, f)
    <2>1. CASE f = e
      BY <2>1 DEF Steady
    <2>2. CASE f = monitor_updating_paused(e, FALSE, FALSE)
      BY <2>2, <1>3 DEF Steady, monitor_updating_paused, Channel
    <2> QED
      BY <2>1, <2>2
  <1>7. Steady(c, f) /\ SameHtlcs(c, f) /\ f.pendAdds = c.pendAdds /\ f.pendFails = c.pendFails
    BY <1>5, <1>6 DEF SameTurn, Steady, SameHtlcs
  <1>8. Queued(f)
    <2>1. f.inb = c.inb /\ f.cell = Append(c.cell, u)
      BY <1>5, <1>6
    <2>2. u.op # "add" => /\ \E h \in c.inb : h.id = u.id /\ h.st = "Committed"
                          /\ \A i \in 1 .. Len(c.cell) : c.cell[i].op # "add" => c.cell[i].id # u.id
      OBVIOUS
    <2> HIDE DEF c
    <2> QED
      BY <2>1, <2>2, <1>3, <1>4, QueuedAppends
  <1>9. net'[m] = net[m] \o <<>> /\ net'[n] = net[n] /\ Casual(<<>>)
    BY <1>2, CasualOnes DEF Linked
  <1> HIDE DEF m
  <1> QED
    BY <1>1, <1>7, <1>8, <1>9, SteadyStep

\* send_payment
LEMMA SendInStep ==
    ASSUME NEW I, Before(I), InStep, NEW J, Then(J), NEW n \in Nodes, NEW p \in Payments, SendPayment(n, p)
    PROVE  StillInStep
  <1>1. CASE can_generate_new_commitment(ch[n])
    BY <1>1, SendBuildInStep
  <1>2. CASE ~can_generate_new_commitment(ch[n])
    <2> DEFINE u == [op |-> "add", pay |-> p]
               e == [ch[n] EXCEPT !.cell = Append(@, u)]
    <2>1. u \in Updates /\ u.op = "add"
      BY DEF Updates
    <2>2. /\ Becomes(n, e) /\ net' = net /\ claimable' = claimable /\ told' = told /\ refused' = refused
      BY <1>2 DEF SendPayment, PlaceHtlc
    <2>3. HandsOn(ch[n], claimable, refused, claimable', refused') /\ Reports(ch[n], told, told')
      BY <2>2 DEF HandsOn, Reports
    <2>4. e = [ch[n] EXCEPT !.cell = Append(@, u)]
      OBVIOUS
    <2> HIDE DEF u, e
    <2> QED
      BY <2>1, <2>2, <2>3, <2>4, AppendStep
  <1> QED
    BY <1>1, <1>2

-----------------------------------------------------------------------------
(* claim_funds and fail_htlc_backwards.                                    *)

\* What is still to be decided is committed, and no decision on it waits.
LEMMA UndecidedIs ==
    ASSUME NEW I, Before(I), InStep, NEW n \in Nodes, NEW p \in claimable, PayTo(p) = n,
           NEW h \in ch[n].inb, h.pay = p
    PROVE  /\ h.st = "Committed" /\ h.id \in Nat
           /\ \A i \in 1 .. Len(ch[n].cell) : ch[n].cell[i].op # "add" => ch[n].cell[i].id # h.id
  <1> DEFINE c == ch[n]
  <1>1. /\ NodeOK(n, c, I, started, claimable, claimed, refused)
        /\ I \in [Payments -> Int] /\ IdsUnique(I)
        /\ claimable \in SUBSET Payments /\ claimed \in SUBSET Payments /\ refused \in SUBSET Payments
    BY NodeFacts DEF Before
  <1>2. InsAre(n, c, I)
    BY <1>1, NodeSides
  <1>3. HandedOn(n, c, claimable)
    BY DEF InStep, Danced, Known
  <1>4. InSt(c, p) = "Committed"
    BY <1>3 DEF HandedOn
  <1>5. h.st = "Committed" /\ h.id = I[p] /\ h.id \in Nat
    BY <1>1, <1>2, <1>4 DEF InsAre
  <1>6. p \notin claimed \cup refused
    BY DEF Before, Decision, DecidedOK
  <1>7. \A q \in claimed \cup refused : PayTo(q) = n => I[q] # I[p]
    <2>1. SUFFICES ASSUME NEW q \in claimed \cup refused, PayTo(q) = n, I[q] = I[p] PROVE FALSE
      OBVIOUS
    <2>2. PayFrom[q] = PayFrom[p] /\ q \in Payments /\ p \in Payments
      BY <1>1, <2>1, PeerFacts
    <2>3. I[p] # -1
      BY <1>5
    <2> QED
      BY <1>1, <1>6, <2>1, <2>2, <2>3 DEF IdsUnique
  <1>8. c.cell \in Seq(Waiting(n, I, started, claimed, refused))
    BY <1>1 DEF NodeOK, CellOK
  <1>9. ASSUME NEW i \in 1 .. Len(c.cell), c.cell[i].op # "add" PROVE c.cell[i].id # h.id
    <2> DEFINE u == c.cell[i]
    <2>1. u \in Waiting(n, I, started, claimed, refused) /\ u.op # "add"
      BY <1>8, <1>9
    <2> HIDE DEF u
    <2>2. u.op \in {"claim", "fail"}
      BY <2>1 DEF Waiting, Updates
    <2>3. \E q \in claimed \cup refused : PayTo(q) = n /\ I[q] = u.id
      BY <2>1, <2>2 DEF Waiting
    <2>4. u.id # h.id
      BY <2>3, <1>5, <1>7
    <2> QED
      BY <2>4 DEF u
  <1> QED
    BY <1>5, <1>9

\* A commitment is built: what the user knows stays.
LEMMA BuiltKnown ==
    ASSUME NEW c, NEW e, NEW A, SetOff(c, e, A), NEW f, Promoted(e, f)
    PROVE  Keeps(c, f, A)
  <1>1. \A p \in Payments : p \notin A /\ OutSt(c, p) = "none" => OutSt(f, p) = "none"
    BY DEF SetOff, Promoted, OutBuilt
  <1>2. \A p \in Payments : InSt(c, p) = "Committed" => InSt(f, p) \in {"Committed", "LocalRemoved"}
    BY DEF SetOff, Promoted, InBuilt
  <1>3. f.pendAdds = c.pendAdds /\ f.pendFails = c.pendFails
    BY DEF SetOff, Promoted
  <1> QED
    BY <1>1, <1>2, <1>3 DEF Keeps

\* claim_funds: the commitment is built at once.
LEMMA ClaimBuildInStep ==
    ASSUME NEW I, Before(I), InStep, NEW J, Then(J), NEW n \in Nodes, NEW p \in claimable, PayTo(p) = n,
           NEW h \in ch[n].inb, h.pay = p, can_generate_new_commitment(ch[n]),
           Becomes(n, BuildAndPause(n, LocalRemove(ch[n], h.id, "fulfil"))), net' = net, told' = told,
           claimable' = claimable \ {p}, refused' = refused
    PROVE  StillInStep
  <1> DEFINE c == ch[n]
             m == Peer(n)
             d == ch[m]
             e == LocalRemove(c, h.id, "fulfil")
             f == BuildAndPause(n, e)
  <1>1. m \in Nodes /\ m = Peer(n)
    BY PeerFacts
  <1>2. Sound(n, I) /\ Linked(n, m)
    BY <1>1, Facts
  <1>3. Becomes(n, f) /\ can_generate_new_commitment(c) /\ h \in c.inb
    OBVIOUS
  <1>4. Orderly(n, c) /\ Queued(c) /\ Forgot(c) /\ c \in Channel
    BY <1>2 DEF Sound
  <1>5. h.st = "Committed" /\ \A i \in 1 .. Len(c.cell) : c.cell[i].op # "add" => c.cell[i].id # h.id
    BY UndecidedIs
  <1>6. e = LocalRemove(c, h.id, "fulfil") /\ f = BuildAndPause(n, e)
    OBVIOUS
  <1>7. Held(c) /\ IdsOnce(c.inb) /\ c.nextId \in Nat
    BY <1>4 DEF Orderly, Channel
  <1> HIDE DEF e, f
  <1>8. /\ e \in Channel /\ Held(e) /\ SetOff(c, e, {}) /\ SameTurn(c, e)
        /\ e.cell = c.cell /\ e.fate = c.fate
    <2> HIDE DEF c
    <2> QED
      BY <1>3, <1>4, <1>5, <1>6, <1>7, ResolveSetsOff
  <1>8a. \A g \in c.inb : g # h => g \in e.inb
    <2> HIDE DEF c
    <2> QED
      BY <1>3, <1>4, <1>5, <1>6, <1>7, ResolveSetsOff
  <1>9. Builds(c, f) /\ BuildView(c, f) /\ Promoted(e, f)
    <2> HIDE DEF c
    <2>1. Builds(c, f) /\ BuildView(c, f)
      BY <1>3, <1>6, <1>7, <1>8, BuildsAfter
    <2>2. Promoted(e, f)
      BY <1>3, <1>6, <1>7, <1>8, BuildsAfter
    <2> QED
      BY <2>1, <2>2
  <1>10. Orderly(n, f) /\ f.nextId \in Nat
    BY <1>3, AfterOrderly
  <1>11. Keeps(c, f, {})
    <2> HIDE DEF c
    <2> QED
      BY <1>8, <1>9, BuiltKnown
  <1>12. Queued(f)
    <2>1. BuiltFrom(e, f)
      BY <1>6, <1>8, BuiltFields
    <2>2. /\ f.cell = c.cell
          /\ f.inb = Promote(e.inb, "AwaitingRemoteRevokeToAnnounce", "AwaitingAnnouncedRemoteRevoke")
      BY <2>1, <1>8 DEF BuiltFrom
    <2>3. ASSUME NEW i \in 1 .. Len(c.cell), c.cell[i].op # "add"
          PROVE  \E g \in f.inb : g.id = c.cell[i].id /\ g.st = "Committed"
      <3>1. PICK g \in c.inb : g.id = c.cell[i].id /\ g.st = "Committed"
        BY <1>4, <2>3 DEF Queued
      <3>2. g \in e.inb
        BY <3>1, <1>5, <1>8a, <2>3
      <3>3. g \in f.inb
        BY <2>2, <3>1, <3>2 DEF Promote
      <3> QED
        BY <3>1, <3>3
    <2> QED
      BY <2>2, <2>3, <1>4 DEF Queued
  <1>13. Fares(c, f, started, {})
    <2>1. Placeable(c, started, {})
      BY DEF Placeable
    <2>2. Forgot(f)
      BY <1>9 DEF Forgot, Builds
    <2> QED
      BY <2>1, <2>2, <1>11, <1>12 DEF Fares
  <1>14. Agreed(f, d, net[m], net[n], Wire, From(n), From(m))
    <2>0. Agreed(c, d, net[m], net[n], Wire, From(n), From(m)) /\ Fits(c, d, From(n), From(m))
      BY <1>2 DEF Linked
    <2> HIDE DEF c, d, m
    <2> QED
      BY <2>0, <1>9, <1>10, AgreedBuilds
  <1>15. HandsOn(c, claimable, refused, claimable', refused') /\ Reports(c, told, told')
    BY DEF HandsOn, Reports
  <1>16. net'[m] = net[m] /\ net'[n] = net[n]
    OBVIOUS
  <1> HIDE DEF c, d, m
  <1>17. StillInStep
    BY <1>1, <1>3, <1>13, <1>14, <1>15, <1>16, MoveStep DEF c, d
  <1> QED
    BY <1>17

\* claim_funds
LEMMA ClaimInStep ==
    ASSUME NEW I, Before(I), InStep, NEW J, Then(J), NEW n \in Nodes, NEW p \in Payments, ClaimFunds(n, p)
    PROVE  StillInStep
  <1>1. /\ PayTo(p) = n /\ p \in claimable /\ net' = net /\ told' = told
        /\ claimable' = claimable \ {p} /\ refused' = refused
    BY DEF ClaimFunds
  <1>2. PICK h \in ch[n].inb : h.pay = p /\
            IF can_generate_new_commitment(ch[n])
            THEN Becomes(n, BuildAndPause(n, LocalRemove(ch[n], h.id, "fulfil")))
            ELSE Becomes(n, monitor_updating_paused(
                    [ch[n] EXCEPT !.cell = Append(@, [op |-> "claim", id |-> h.id])],
                    FALSE, FALSE))
    BY DEF ClaimFunds
  <1>3. CASE can_generate_new_commitment(ch[n])
    BY <1>1, <1>2, <1>3, ClaimBuildInStep
  <1>4. CASE ~can_generate_new_commitment(ch[n])
    <2> DEFINE u == [op |-> "claim", id |-> h.id]
               e == [ch[n] EXCEPT !.cell = Append(@, u)]
               f == monitor_updating_paused(e, FALSE, FALSE)
    <2>1. /\ h.st = "Committed" /\ h.id \in Nat
          /\ \A i \in 1 .. Len(ch[n].cell) : ch[n].cell[i].op # "add" => ch[n].cell[i].id # h.id
      BY <1>1, <1>2, UndecidedIs
    <2>2. u \in Updates /\ u.id = h.id
      BY <2>1 DEF Updates
    <2>3. /\ \E g \in ch[n].inb : g.id = u.id /\ g.st = "Committed"
          /\ \A i \in 1 .. Len(ch[n].cell) : ch[n].cell[i].op # "add" => ch[n].cell[i].id # u.id
      BY <2>1, <2>2
    <2>4. Becomes(n, f)
      BY <1>2, <1>4
    <2>5. HandsOn(ch[n], claimable, refused, claimable', refused') /\ Reports(ch[n], told, told')
      BY <1>1 DEF HandsOn, Reports
    <2>6. e = [ch[n] EXCEPT !.cell = Append(@, u)] /\ f = monitor_updating_paused(e, FALSE, FALSE)
      OBVIOUS
    <2> HIDE DEF u, e, f
    <2> QED
      BY <1>1, <2>2, <2>3, <2>4, <2>5, <2>6, AppendStep
  <1> QED
    BY <1>3, <1>4

\* fail_htlc_backwards
LEMMA RefuseInStep ==
    ASSUME NEW I, Before(I), InStep, NEW J, Then(J), NEW n \in Nodes, NEW p \in Payments, FailBackwards(n, p)
    PROVE  StillInStep
  <1>1. /\ PayTo(p) = n /\ p \in claimable /\ net' = net /\ told' = told
        /\ claimable' = claimable \ {p} /\ refused' = refused \cup {p}
    BY DEF FailBackwards
  <1>2. PICK h \in ch[n].inb : h.pay = p /\
            Becomes(n, IF h.st # "Committed" \/ CellResolves(ch[n], h.id) THEN ch[n]
                       ELSE [ch[n] EXCEPT !.cell = Append(@, [op |-> "fail", id |-> h.id])])
    BY DEF FailBackwards
  <1> DEFINE u == [op |-> "fail", id |-> h.id]
             e == [ch[n] EXCEPT !.cell = Append(@, u)]
  <1>3. /\ h.st = "Committed" /\ h.id \in Nat
        /\ \A i \in 1 .. Len(ch[n].cell) : ch[n].cell[i].op # "add" => ch[n].cell[i].id # h.id
    BY <1>1, <1>2, UndecidedIs
  <1>4. ~CellResolves(ch[n], h.id)
    <2>1. ch[n].cell \in Seq(Updates)
      BY NodeFacts DEF Before, Channel
    <2> QED
      BY <1>3, <2>1 DEF CellResolves, ToSet
  <1>5. u \in Updates /\ u.id = h.id
    BY <1>3 DEF Updates
  <1>6. /\ \E g \in ch[n].inb : g.id = u.id /\ g.st = "Committed"
        /\ \A i \in 1 .. Len(ch[n].cell) : ch[n].cell[i].op # "add" => ch[n].cell[i].id # u.id
    BY <1>3, <1>5
  <1>7. Becomes(n, e)
    BY <1>2, <1>3, <1>4
  <1>8. HandsOn(ch[n], claimable, refused, claimable', refused') /\ Reports(ch[n], told, told')
    BY <1>1 DEF HandsOn, Reports
  <1>9. e = [ch[n] EXCEPT !.cell = Append(@, u)]
    OBVIOUS
  <1> HIDE DEF u, e
  <1> QED
    BY <1>1, <1>5, <1>6, <1>7, <1>8, <1>9, AppendStep

-----------------------------------------------------------------------------
(* close_channel and shutdown.                                             *)

\* Shutdown and closing change neither HTLCs nor turns.
Quiet(c, f) ==
    /\ Steady(c, f) /\ SameHtlcs(c, f) /\ f.pendAdds = c.pendAdds /\ f.pendFails = c.pendFails

\* The changes that shutdown and closing make.
LEMMA QuietOnes ==
    ASSUME NEW c \in Channel
    PROVE  /\ \A x : Quiet(c, [c EXCEPT !.localShut = TRUE, !.cell = x])
           /\ \A x : Quiet(c, [c EXCEPT !.remoteShut = TRUE, !.localShut = TRUE, !.cell = x])
           /\ \A x : Quiet(c, [c EXCEPT !.feeSent = x]) /\ Quiet(c, [c EXCEPT !.pendClosing = x])
           /\ \A x : Quiet(c, Ends(c, x))
           /\ \A x, y : Quiet(c, [c EXCEPT !.feeSent = x, !.fate = y])
  BY DEF Quiet, Steady, SameHtlcs, Channel, Ends

\* Two quiet changes in a row.
LEMMA QuietAgain ==
    ASSUME NEW c, NEW e, NEW f, Quiet(c, e), Quiet(e, f)
    PROVE  Quiet(c, f)
  BY DEF Quiet, Steady, SameHtlcs

\* A quiet step keeps the nodes in step.
LEMMA QuietInStep ==
    ASSUME NEW I, Before(I), InStep, NEW J, Then(J), NEW n \in Nodes,
           NEW f, Becomes(n, f), Quiet(ch[n], f), Queued(f),
           claimable' = claimable, refused' = refused, Reports(ch[n], told, told'),
           NEW s, Casual(s), s = <<>> \/ ~ch[n].disc,
           \/ Sends(n, s)
           \/ net[n] # <<>> /\ Head(net[n]).t \in Aside /\ Replies(n, s)
    PROVE  StillInStep
  <1> DEFINE m == Peer(n)
  <1>1. m \in Nodes /\ m = Peer(n)
    BY PeerFacts
  <1>2. /\ net'[m] = net[m] \o s
        /\ \/ net'[n] = net[n]
           \/ net[n] # <<>> /\ Head(net[n]).t \in Aside /\ net'[n] = Tail(net[n])
    BY <1>1, LinksAfter
  <1>3. HandsOn(ch[n], claimable, refused, claimable', refused')
    BY DEF HandsOn
  <1>4. Steady(ch[n], f) /\ SameHtlcs(ch[n], f) /\ f.pendAdds = ch[n].pendAdds /\ f.pendFails = ch[n].pendFails
    BY DEF Quiet
  <1> HIDE DEF m
  <1> QED
    BY <1>1, <1>2, <1>3, <1>4, SteadyStep

\* A channel that keeps its holding cell.
LEMMA QuietQueued ==
    ASSUME NEW c, NEW f, Queued(c), Quiet(c, f), f.cell = c.cell
    PROVE  Queued(f)
  <1>1. f.inb = c.inb
    BY DEF Quiet, SameHtlcs
  <1> QED
    BY <1>1, QueuedSame

\* close_channel
LEMMA CloseInStep ==
    ASSUME NEW I, Before(I), InStep, NEW J, Then(J), NEW n \in Nodes, CloseChannel(n)
    PROVE  StillInStep
  <1> DEFINE c == ch[n]
             f == [c EXCEPT !.localShut = TRUE, !.cell = WithoutAdds(c.cell)]
             s == <<[t |-> "shutdown"]>>
  <1>1. Sound(n, I)
    BY PeerFacts, Facts
  <1>2. c \in Channel /\ Queued(c)
    BY <1>1 DEF Sound
  <1>3. ~c.disc /\ Sends(n, s) /\ Tells(AddsIn(c), "failed") /\ claimable' = claimable /\ refused' = refused
    BY DEF CloseChannel
  <1>4. Becomes(n, f)
    BY <1>2 DEF CloseChannel, Channel
  <1>5. Quiet(c, f) /\ f.cell = WithoutAdds(c.cell) /\ f.inb = c.inb
    BY <1>2, QuietOnes DEF Channel
  <1>6. Queued(f)
    <2> HIDE DEF c, f
    <2> QED
      BY <1>2, <1>5, QueuedWithout
  <1>7. Reports(c, told, told')
    BY <1>3 DEF Reports, Tells
  <1>8. Casual(s)
    BY CasualOnes
  <1> HIDE DEF f, s
  <1> QED
    BY <1>3, <1>4, <1>5, <1>6, <1>7, <1>8, QuietInStep

\* shutdown
LEMMA ShutdownInStep ==
    ASSUME NEW I, Before(I), InStep, NEW J, Then(J), NEW n \in Nodes, ShutdownReceived(n)
    PROVE  StillInStep \/ Lost(n)
  <1> DEFINE c == ch[n]
             m == Peer(n)
             r == net[n]
             f == [c EXCEPT !.remoteShut = TRUE, !.localShut = TRUE, !.cell = WithoutAdds(c.cell)]
             s == IF c.localShut THEN <<>> ELSE <<[t |-> "shutdown"]>>
  <1>1. m \in Nodes /\ m = Peer(n)
    BY PeerFacts
  <1>2. Sound(n, I) /\ Linked(n, m)
    BY <1>1, Facts
  <1>3. c \in Channel /\ Queued(c)
    BY <1>2 DEF Sound
  <1>4. Incoming(n, "shutdown") /\ claimable' = claimable /\ refused' = refused
    BY DEF ShutdownReceived
  <1>5. r # <<>> /\ Head(r).t = "shutdown"
    BY <1>4, IncomingFacts
  <1>6. ~c.disc
    <2>1. Link(ch[m], c, r, Wire) /\ r \in Seq(Messages)
      BY <1>2 DEF Linked, Agreed
    <2> HIDE DEF c, r
    <2> QED
      BY <2>1, <1>5, LinkHead
  <1>7. CASE \E h \in c.inb : h.st = "RemoteAnnounced"
    <2>1. Becomes(n, Ends(c, "shutdown_with_adds")) /\ told' = told
      BY <1>6, <1>7 DEF ShutdownReceived
    <2> QED
      BY <2>1, <1>4 DEF Lost, Causes
  <1>8. CASE ~\E h \in c.inb : h.st = "RemoteAnnounced"
    <2>1. Replies(n, s) /\ Tells(AddsIn(c), "failed")
      BY <1>6, <1>8 DEF ShutdownReceived
    <2>2. Becomes(n, f)
      BY <1>3, <1>6, <1>8 DEF ShutdownReceived, Channel
    <2>3. Quiet(c, f) /\ f.cell = WithoutAdds(c.cell) /\ f.inb = c.inb
      BY <1>3, QuietOnes DEF Channel
    <2>4. Queued(f)
      <3> HIDE DEF c, f
      <3> QED
        BY <1>3, <2>3, QueuedWithout
    <2>5. Reports(c, told, told')
      BY <2>1 DEF Reports, Tells
    <2>6. Casual(s)
      BY CasualOnes
    <2>7. r # <<>> /\ Head(r).t \in Aside
      BY <1>5 DEF Aside
    <2> HIDE DEF f, s
    <2>8. StillInStep
      BY <1>4, <1>6, <2>1, <2>2, <2>3, <2>4, <2>5, <2>6, <2>7, QuietInStep
    <2> QED
      BY <2>8
  <1> QED
    BY <1>7, <1>8

-----------------------------------------------------------------------------
(* closing_signed.                                                         *)

\* A closing message is well formed.
LEMMA ClosingCasual ==
    ASSUME NEW n \in Nodes, NEW c \in Channel, NEW fee \in Nat
    PROVE  Casual(<<ClosingMsg(n, c, fee)>>)
  <1>1. c.toSelf \in Int /\ Funding \in Nat
    BY ChannelAssumption DEF Channel
  <1>2. Split(n, c) \in [Nodes -> Int]
    BY <1>1 DEF Split
  <1>3. ClosingMsg(n, c, fee) \in Closings
    BY <1>2 DEF ClosingMsg, Closings
  <1> QED
    BY <1>3, CasualOnes

\* What the answer to a closing fee does.
LEMMA AnswerQuiet ==
    ASSUME NEW n \in Nodes, NEW c \in Channel, NEW m, NEW fee \in Nat,
           NEW a, a = AnswerClosing(n, c, m, fee)
    PROVE  \/ a.c = Ends(c, "closing_signature") /\ a.out = <<>>
           \/ Quiet(c, a.c) /\ a.c.cell = c.cell /\ Casual(a.out)
  <1>1. CASE m.split # Split(n, c)
    BY <1>1 DEF AnswerClosing
  <1>2. CASE m.split = Split(n, c) /\ c.feeSent = m.fee
    <2>1. a.c = Ends(c, "closed") /\ a.out = <<>>
      BY <1>2 DEF AnswerClosing
    <2>2. a.c.cell = c.cell
      BY <2>1 DEF Ends, Channel
    <2>3. Quiet(c, Ends(c, "closed"))
      BY QuietOnes
    <2> QED
      BY <2>1, <2>2, <2>3, CasualOnes
  <1>3. CASE m.split = Split(n, c) /\ c.feeSent # m.fee
    <2> DEFINE y == IF fee = m.fee THEN "closed" ELSE "open"
               f == [c EXCEPT !.feeSent = fee, !.fate = y]
    <2>1. a.c = f /\ a.out = <<ClosingMsg(n, c, fee)>>
      BY <1>3 DEF AnswerClosing
    <2>2. f.cell = c.cell
      BY DEF Channel
    <2>3. Quiet(c, f)
      <3> HIDE DEF y
      <3> QED
        BY QuietOnes
    <2>4. Casual(<<ClosingMsg(n, c, fee)>>)
      BY ClosingCasual
    <2> HIDE DEF f
    <2> QED
      BY <2>1, <2>2, <2>3, <2>4
  <1> QED
    BY <1>1, <1>2, <1>3

\* The fees that may be answered with.
LEMMA FeesAre ==
    ASSUME NEW n, NEW m, m.fee \in Nat
    PROVE  \A fee \in ClosingFees(n, m) : fee \in Nat
  BY ChannelAssumption DEF ClosingFees

\* maybe_propose_closing_signed
LEMMA ProposeInStep ==
    ASSUME NEW I, Before(I), InStep, NEW J, Then(J), NEW n \in Nodes, ProposeClosing(n)
    PROVE  StillInStep
  <1> DEFINE c == ch[n]
             f == [c EXCEPT !.feeSent = 1]
             s == <<ClosingMsg(n, c, 1)>>
  <1>1. Sound(n, I)
    BY PeerFacts, Facts
  <1>2. c \in Channel /\ Queued(c)
    BY <1>1 DEF Sound
  <1>3. ~c.disc /\ Becomes(n, f) /\ Sends(n, s) /\ UNCHANGED payVars
    BY DEF ProposeClosing, closing_negotiation_ready
  <1>4. Quiet(c, f) /\ f.cell = c.cell
    BY <1>2, QuietOnes DEF Channel
  <1>5. Casual(s)
    BY <1>2, ClosingCasual
  <1> HIDE DEF f, s
  <1>6. Queued(f)
    BY <1>2, <1>4, QuietQueued
  <1>7. Reports(c, told, told') /\ claimable' = claimable /\ refused' = refused
    BY <1>3 DEF Reports, payVars
  <1> QED
    BY <1>3, <1>4, <1>5, <1>6, <1>7, QuietInStep

\* A closing fee is answered.
LEMMA AnswerInStep ==
    ASSUME NEW I, Before(I), InStep, NEW J, Then(J), NEW n \in Nodes, ~ch[n].disc,
           NEW e \in Channel, Quiet(ch[n], e), e.cell = ch[n].cell, NEW m, NEW fee \in Nat,
           NEW a, a = AnswerClosing(n, e, m, fee), a.c # Ends(e, "closing_signature"),
           Becomes(n, a.c), UNCHANGED payVars,
           \/ Sends(n, a.out)
           \/ net[n] # <<>> /\ Head(net[n]).t \in Aside /\ Replies(n, a.out)
    PROVE  StillInStep
  <1> DEFINE f == a.c
             s == a.out
  <1>1. Sound(n, I)
    BY PeerFacts, Facts
  <1>2. Queued(ch[n])
    BY <1>1 DEF Sound
  <1>3. Quiet(e, f) /\ f.cell = e.cell /\ Casual(s)
    BY AnswerQuiet
  <1>3a. /\ Becomes(n, f)
         /\ \/ Sends(n, s)
            \/ net[n] # <<>> /\ Head(net[n]).t \in Aside /\ Replies(n, s)
    OBVIOUS
  <1> HIDE DEF f, s
  <1>4. Quiet(ch[n], f)
    BY <1>3, QuietAgain
  <1>5. Queued(f)
    BY <1>2, <1>3, <1>4, QuietQueued
  <1>6. Reports(ch[n], told, told') /\ claimable' = claimable /\ refused' = refused
    BY DEF Reports, payVars
  <1> QED
    BY <1>3, <1>3a, <1>4, <1>5, <1>6, QuietInStep

\* closing_signed
LEMMA ClosingInStep ==
    ASSUME NEW I, Before(I), InStep, NEW J, Then(J), NEW n \in Nodes, ClosingSigned(n)
    PROVE  StillInStep \/ Lost(n)
  <1> DEFINE c == ch[n]
             m == Peer(n)
             r == net[n]
             x == Head(r)
  <1>1. m \in Nodes /\ m = Peer(n)
    BY PeerFacts
  <1>2. Sound(n, I) /\ Linked(n, m)
    BY <1>1, Facts
  <1>3. c \in Channel /\ Queued(c)
    BY <1>2 DEF Sound
  <1>4. Incoming(n, "closing") /\ UNCHANGED payVars
    BY DEF ClosingSigned
  <1>5. r # <<>> /\ Head(r).t = "closing" /\ Head(r) \in Deliverable(n, I, claimed, refused)
    BY <1>4, IncomingFacts
  <1>6. ~c.disc
    <2>1. Link(ch[m], c, r, Wire) /\ r \in Seq(Messages)
      BY <1>2 DEF Linked, Agreed
    <2> HIDE DEF c, r
    <2> QED
      BY <2>1, <1>5, LinkHead
  <1>7. r # <<>> /\ Head(r).t \in Aside
    BY <1>5 DEF Aside
  <1>8. claimable' = claimable /\ refused' = refused /\ told' = told /\ Reports(c, told, told')
    BY <1>4 DEF payVars, Reports
  <1>9. CASE ClosingError(n, c)
    <2>1. Becomes(n, Ends(c, "closing_order"))
      BY <1>9 DEF ClosingSigned
    <2> QED
      BY <2>1, <1>8 DEF Lost, Causes
  <1>10. CASE ~ClosingError(n, c) /\ c.monBusy
    <2> DEFINE f == [c EXCEPT !.pendClosing = x]
    <2>1. Becomes(n, f) /\ Replies(n, <<>>)
      BY <1>10 DEF ClosingSigned
    <2>2. Quiet(c, f) /\ f.cell = c.cell
      BY <1>3, QuietOnes DEF Channel
    <2> HIDE DEF f
    <2>3. Queued(f)
      BY <1>3, <2>2, QuietQueued
    <2>4. Casual(<<>>)
      BY CasualOnes
    <2>5. StillInStep
      BY <1>7, <1>8, <2>1, <2>2, <2>3, <2>4, QuietInStep
    <2> QED
      BY <2>5
  <1>11. CASE ~ClosingError(n, c) /\ ~c.monBusy
    <2>1. PICK fee \in ClosingFees(n, x) : Becomes(n, AnswerClosing(n, c, x, fee).c) /\ Replies(n, AnswerClosing(n, c, x, fee).out)
      BY <1>11 DEF ClosingSigned
    <2>2. fee \in Nat
      BY <1>5, MessageFacts, FeesAre
    <2> DEFINE a == AnswerClosing(n, c, x, fee)
    <2>3. CASE a.c = Ends(c, "closing_signature")
      <3>1. Becomes(n, Ends(c, "closing_signature"))
        BY <2>1, <2>3
      <3> QED
        BY <3>1, <1>8 DEF Lost, Causes
    <2>4. CASE a.c # Ends(c, "closing_signature")
      <3>1. Quiet(c, c)
        BY DEF Quiet, Steady, SameHtlcs
      <3>2. a = AnswerClosing(n, c, x, fee) /\ Becomes(n, a.c) /\ Replies(n, a.out)
        BY <2>1
      <3> HIDE DEF a, x
      <3>3. StillInStep
        BY <1>3, <1>4, <1>6, <1>7, <2>2, <2>4, <3>1, <3>2, AnswerInStep
      <3> QED
        BY <3>3
    <2> QED
      BY <2>3, <2>4
  <1> QED
    BY <1>9, <1>10, <1>11

\* A deferred closing_signed is answered.
LEMMA DeferredInStep ==
    ASSUME NEW I, Before(I), InStep, NEW J, Then(J), NEW n \in Nodes, AnswerDeferredClosing(n)
    PROVE  StillInStep \/ \E e : /\ Quiet(ch[n], e) /\ e.fate = "closing_signature" /\ Becomes(n, e)
                                 /\ UNCHANGED payVars
  <1> DEFINE e == [ch[n] EXCEPT !.pendClosing = NoClosing]
             x == ch[n].pendClosing
  <1>1. Sound(n, I)
    BY PeerFacts, Facts
  <1>2. ch[n] \in Channel
    BY <1>1 DEF Sound
  <1>3. /\ x # NoClosing /\ closing_negotiation_ready(e) /\ UNCHANGED payVars
        /\ \E fee \in ClosingFees(n, x) : /\ Becomes(n, AnswerClosing(n, e, x, fee).c)
                                          /\ Sends(n, AnswerClosing(n, e, x, fee).out)
    BY DEF AnswerDeferredClosing
  <1>4. ~ch[n].disc
    <2>1. ~e.disc
      BY <1>3 DEF closing_negotiation_ready
    <2> QED
      BY <2>1, <1>2 DEF Channel
  <1>5. x \in Closings
    BY <1>2, <1>3 DEF Channel
  <1>6. PICK fee \in ClosingFees(n, x) : /\ Becomes(n, AnswerClosing(n, e, x, fee).c)
                                         /\ Sends(n, AnswerClosing(n, e, x, fee).out)
    BY <1>3
  <1>7. fee \in Nat
    <2>1. x.fee \in Nat
      BY <1>5 DEF Closings
    <2> QED
      BY <2>1, FeesAre
  <1>8. e \in Channel
    BY <1>2 DEF Channel
  <1>9. Quiet(ch[n], e) /\ e.cell = ch[n].cell
    BY <1>2, QuietOnes DEF Channel
  <1> DEFINE a == AnswerClosing(n, e, x, fee)
  <1>10. a = AnswerClosing(n, e, x, fee) /\ Becomes(n, a.c) /\ Sends(n, a.out)
    BY <1>6
  <1> HIDE DEF a, x, e
  <1>11. CASE a.c = Ends(e, "closing_signature")
    <2>1. Quiet(e, a.c) /\ a.c.fate = "closing_signature"
      <3>1. Quiet(e, Ends(e, "closing_signature"))
        BY <1>8, QuietOnes
      <3>2. Ends(e, "closing_signature").fate = "closing_signature"
        BY <1>8 DEF Ends, Channel
      <3> QED
        BY <1>11, <3>1, <3>2
    <2>2. Quiet(ch[n], a.c)
      BY <1>9, <2>1, QuietAgain
    <2> QED
      BY <1>3, <1>10, <2>1, <2>2
  <1>12. CASE a.c # Ends(e, "closing_signature")
    <2>1. StillInStep
      BY <1>3, <1>4, <1>7, <1>8, <1>9, <1>10, <1>12, AnswerInStep
    <2> QED
      BY <2>1
  <1> QED
    BY <1>11, <1>12

-----------------------------------------------------------------------------
(* channel_reestablish.                                                    *)

\* A commitment was made at least once.
LEMMA HasHolder ==
    ASSUME NEW c \in Channel, NEW d, Numbers(c, d)
    PROVE  c.holderNum >= 1
  <1>1. c.holderNum \in Nat /\ c.txs.cur.num \in Nat
    BY DEF Channel, Txs
  <1> QED
    BY <1>1 DEF Numbers

\* What taking the channel up again leaves as it was.
Resumed(c, f, raa, cs) ==
    f = [c EXCEPT !.disc = FALSE, !.pendRaa = @ \/ (raa /\ c.monBusy), !.pendCs = @ \/ (cs /\ c.monBusy)]

\* What taking the channel up again changes.
LEMMA TakenUp ==
    ASSUME NEW c \in Channel, c.disc, NEW raa \in BOOLEAN, NEW cs \in BOOLEAN,
           NEW f, Resumed(c, f, raa, cs)
    PROVE  /\ TakesUp(c, f, raa, cs) /\ SameHtlcs(c, f) /\ f.cell = c.cell
           /\ f.pendAdds = c.pendAdds /\ f.pendFails = c.pendFails
  BY DEF Channel, TakesUp, SameHtlcs, Resumed

\* channel_reestablish
LEMMA ReestablishInStep ==
    ASSUME NEW I, Before(I), InStep, NEW J, Then(J), NEW n \in Nodes, ChannelReestablish(n)
    PROVE  StillInStep
  <1> DEFINE c == ch[n]
             m == Peer(n)
             d == ch[m]
             r == net[n]
             x == Head(r)
             raa == x.nextRemote + 1 = c.holderNum - 1
             cs == x.nextLocal + 1 = c.cpNum + (IF c.awaitRaa THEN 1 ELSE 0)
             f == [c EXCEPT !.disc = FALSE, !.pendRaa = @ \/ (raa /\ c.monBusy), !.pendCs = @ \/ (cs /\ c.monBusy)]
             s == get_outbound_shutdown(f)
             v == Resumption(n, f, raa /\ ~c.monBusy, cs /\ ~c.monBusy)
  <1>1. m \in Nodes /\ m = Peer(n)
    BY PeerFacts
  <1>2. Sound(n, I) /\ Linked(n, m)
    BY <1>1, Facts
  <1>3. Orderly(n, c) /\ c \in Channel /\ Queued(c) /\ d \in Channel
    BY <1>1, <1>2, NodeFacts DEF Sound, Before
  <1>4. Incoming(n, "reestablish") /\ UNCHANGED <<conn, drops, payVars>>
    BY DEF ChannelReestablish
  <1>5. r # <<>> /\ Head(r).t = "reestablish"
    BY <1>4, IncomingFacts
  <1>6. /\ net[m] \in Seq(Messages) /\ r \in Seq(Messages)
        /\ Agreed(c, d, net[m], r, Wire, From(n), From(m)) /\ Fits(c, d, From(n), From(m))
    BY <1>2 DEF Linked
  <1>7. Link(c, d, net[m], Wire) /\ Link(d, c, r, Wire) /\ Numbers(d, c)
    BY <1>6 DEF Agreed, Half
  <1>8. c.disc /\ x = get_channel_reestablish(d)
    <2> HIDE DEF c, d, r
    <2> QED
      BY <1>5, <1>6, <1>7, LinkHead DEF x
  <1>9. raa <=> OwesRaa(c, d)
    <2>1. Turns(c, d) /\ Turns(d, c)
      BY <1>7 DEF Link
    <2>2. d.holderNum >= 1
      BY <1>3, <1>7, HasHolder
    <2> HIDE DEF c, d, x
    <2> QED
      BY <1>3, <1>8, <2>1, <2>2, ReestablishSays
  <1>10. (cs <=> OwesCs(c, d)) /\ ReestablishError(c, x) = "open"
    <2>1. Turns(c, d) /\ Turns(d, c)
      BY <1>7 DEF Link
    <2>2. d.holderNum >= 1
      BY <1>3, <1>7, HasHolder
    <2> HIDE DEF c, d, x
    <2> QED
      BY <1>3, <1>8, <2>1, <2>2, ReestablishSays
  <1>11. Becomes(n, f) /\ Replies(n, s \o v)
    BY <1>10 DEF ChannelReestablish
  <1>12. raa \in BOOLEAN /\ cs \in BOOLEAN
    OBVIOUS
  <1>13. Resumed(c, f, raa, cs)
    BY DEF Resumed
  <1>14. /\ TakesUp(c, f, raa, cs) /\ SameHtlcs(c, f) /\ f.cell = c.cell
         /\ f.pendAdds = c.pendAdds /\ f.pendFails = c.pendFails
    <2> HIDE DEF c, f, raa, cs
    <2> QED
      BY <1>3, <1>8, <1>12, <1>13, TakenUp
  <1>15. Casual(s)
    BY CasualOnes DEF get_outbound_shutdown
  <1>16. v = Resumption(n, f, raa /\ ~c.monBusy, cs /\ ~c.monBusy)
    OBVIOUS
  <1>17. Resent(n, f, raa /\ ~c.monBusy, cs /\ ~c.monBusy, v)
    <2>1. Decision(J, ch', net', started', claimable', claimed', refused', told') /\ ch'[n] = f
      BY <1>11, <1>3 DEF Then, Becomes, Before, Decision
    <2>2. /\ NodeOK(n, f, J, started', claimable', claimed', refused') /\ J \in [Payments -> Int] /\ IdsUnique(J)
          /\ claimable' \in SUBSET Payments /\ claimed' \in SUBSET Payments /\ refused' \in SUBSET Payments
      BY <2>1, NodeFacts
    <2> DEFINE y == raa /\ ~c.monBusy
               z == cs /\ ~c.monBusy
    <2>3. y \in BOOLEAN /\ z \in BOOLEAN
      OBVIOUS
    <2>4. Resent(n, f, y, z, Resumption(n, f, y, z))
      <3> HIDE DEF f, y, z
      <3> QED
        BY <2>2, <2>3, ResumptionResent
    <2> QED
      BY <2>4
  <1>18. c.monBusy \in BOOLEAN /\ Held(c)
    BY <1>3 DEF Channel, Orderly
  <1> HIDE DEF f, s, v
  <1>19. Agreed(f, d, net[m] \o (s \o v), Tail(r), Wire, From(n), From(m))
    <2>1. s \in Seq(Messages) /\ \A T : Has(s, T) => T \cap Aside # {}
      BY <1>15 DEF Casual
    <2> HIDE DEF c, d, r, m, raa, cs
    <2> QED
      BY <1>5, <1>6, <1>9, <1>10, <1>12, <1>14, <1>17, <1>18, <2>1, AgreedTakesUp
  <1>20. Fares(c, f, started, {})
    <2>1. f.inb = c.inb /\ f.out = c.out /\ f.pendAdds \subseteq c.pendAdds /\ f.pendFails \subseteq c.pendFails
      BY <1>14 DEF SameHtlcs
    <2>2. Keeps(c, f, {})
      BY <2>1, SameKeeps
    <2>3. Queued(f)
      BY <1>3, <1>14, <2>1, QueuedSame
    <2>4. Forgot(f)
      BY <1>14 DEF Forgot, TakesUp
    <2> QED
      BY <2>2, <2>3, <2>4 DEF Fares, Placeable
  <1>21. net'[m] = net[m] \o (s \o v) /\ net'[n] = Tail(r)
    BY <1>1, <1>11, LinksAfter
  <1>22. HandsOn(c, claimable, refused, claimable', refused') /\ Reports(c, told, told')
    BY <1>4 DEF HandsOn, Reports, payVars
  <1> HIDE DEF c, d, m, r
  <1>23. StillInStep
    BY <1>1, <1>11, <1>19, <1>20, <1>21, <1>22, MoveStep DEF c, d
  <1> QED
    BY <1>23

-----------------------------------------------------------------------------
(* Lost and restored connections, and the funded channel.                  *)

\* The connection is lost.
LEMMA DisconnectInStep ==
    ASSUME NEW I, Before(I), InStep, BothOpen, NEW J, Then(J), Disconnect
    PROVE  Danced(ch', net', "down", claimable', told')
  <1>1. /\ \A n \in Nodes : ch'[n] = remove_uncommitted_htlcs_and_mark_paused(ch[n]) /\ net'[n] = <<>>
        /\ claimable' = claimable /\ told' = told /\ refused' = refused
    BY DEF Disconnect, BothOpen, payVars
  <1>2. ASSUME NEW n \in Nodes
        PROVE  /\ Drops(ch[n], ch'[n]) /\ DropView(ch[n], ch'[n])
               /\ Known(n, ch'[n], claimable', told')
    <2> DEFINE c == ch[n]
               f == ch'[n]
    <2>1. Sound(n, I)
      BY PeerFacts, Facts
    <2>2. /\ NodeOK(n, c, I, started, claimable, claimed, refused) /\ c \in Channel
          /\ I \in [Payments -> Int] /\ IdsUnique(I)
          /\ claimable \in SUBSET Payments /\ claimed \in SUBSET Payments /\ refused \in SUBSET Payments
          /\ Orderly(n, c) /\ Queued(c) /\ Forgot(c)
      BY <2>1 DEF Sound
    <2>3. f = remove_uncommitted_htlcs_and_mark_paused(c)
      BY <1>1
    <2>3a. Then(J) /\ f = ch'[n] /\ c = ch[n]
      OBVIOUS
    <2>3b. HandedOn(n, c, claimable) /\ GivenUp(n, c, told)
      BY DEF InStep, Danced, Known
    <2> HIDE DEF c, f
    <2>4. Drops(c, f) /\ DropView(c, f)
      BY <2>2, <2>3, DropEffect
    <2>5. Retains(c, f, {}) /\ Forgot(f)
      BY <2>2, <2>3, DropEffect
    <2>6. /\ NodeOK(n, f, J, started', claimable', claimed', refused') /\ J \in [Payments -> Int] /\ IdsUnique(J)
          /\ claimable' \in SUBSET Payments /\ claimed' \in SUBSET Payments /\ refused' \in SUBSET Payments
      BY <2>3a, NodeFacts DEF Then
    <2>7. Orderly(n, f)
      BY <2>6, NodeOrderly
    <2>8. Queued(f)
      <3>1. Held(c) /\ Held(f)
        BY <2>2, <2>7 DEF Orderly
      <3> QED
        BY <3>1, <2>2, <2>5, QueuedRetained
    <2>9. Keeps(c, f, {}) /\ Placeable(c, started, {})
      BY <2>5, RetainsKeeps DEF Placeable
    <2>10. HandsOn(c, claimable, refused, claimable', refused') /\ Reports(c, told, told')
      BY <1>1 DEF HandsOn, Reports
    <2>11. HandedOn(n, f, claimable') /\ GivenUp(n, f, told')
      BY <2>3a, <2>3b, <2>9, <2>10, MoverKnown DEF Before, Then
    <2>12. Known(n, f, claimable', told')
      BY <2>5, <2>8, <2>11 DEF Known
    <2> QED
      BY <2>4, <2>12 DEF c, f
  <1>3. ASSUME NEW n \in Nodes
        PROVE  Agree(n, ch', net', "down")
    <2> DEFINE m == Peer(n)
    <2>1. m \in Nodes /\ m = Peer(n)
      BY PeerFacts
    <2>2. Linked(n, m)
      BY <2>1, Facts
    <2>3. Agreed(ch[n], ch[m], net[m], net[n], Wire, From(n), From(m)) /\ Fits(ch[n], ch[m], From(n), From(m))
      BY <2>2 DEF Linked
    <2>4. Drops(ch[n], ch'[n]) /\ DropView(ch[n], ch'[n]) /\ Drops(ch[m], ch'[m]) /\ DropView(ch[m], ch'[m])
      BY <1>2, <2>1
    <2>5. net'[m] = <<>> /\ net'[n] = <<>>
      BY <1>1, <2>1
    <2> DEFINE c == ch[n]
               d == ch[m]
               f == ch'[n]
               g == ch'[m]
    <2>6. Agreed(f, g, <<>>, <<>>, "down", From(n), From(m))
      <3>1. /\ Agreed(c, d, net[m], net[n], Wire, From(n), From(m)) /\ Fits(c, d, From(n), From(m))
            /\ Drops(c, f) /\ DropView(c, f) /\ Drops(d, g) /\ DropView(d, g)
        BY <2>3, <2>4
      <3>2. "down" # "up"
        OBVIOUS
      <3> HIDE DEF c, d, f, g, m
      <3> QED
        BY <3>1, <3>2, AgreedDrops
    <2> QED
      BY <2>5, <2>6 DEF Agree
  <1> QED
    BY <1>2, <1>3 DEF Danced

\* The connection is made again.
LEMMA ReconnectInStep ==
    ASSUME NEW I, Before(I), InStep, BothOpen, Reconnect
    PROVE  Danced(ch', net', "up", claimable', told')
  <1>1. /\ \A n \in Nodes : net'[n] = <<get_channel_reestablish(ch[Peer(n)])>>
        /\ ch' = ch /\ claimable' = claimable /\ told' = told
    BY PeerFacts DEF Reconnect, BothOpen, payVars
  <1>2. Wire # "up"
    BY DEF Wire, Reconnect
  <1>3. ASSUME NEW n \in Nodes
        PROVE  Agree(n, ch', net', "up")
    <2> DEFINE m == Peer(n)
               c == ch[n]
               d == ch[m]
    <2>1. m \in Nodes /\ m = Peer(n) /\ Peer(m) = n
      BY PeerFacts
    <2>2. Agreed(c, d, net[m], net[n], Wire, From(n), From(m))
      BY <2>1, Facts DEF Linked
    <2>3. c \in Channel /\ d \in Channel
      BY <2>1, NodeFacts DEF Before
    <2>4. Agreed(c, d, <<get_channel_reestablish(c)>>, <<get_channel_reestablish(d)>>, "up", From(n), From(m))
      <3> HIDE DEF c, d, m
      <3> QED
        BY <1>2, <2>2, <2>3, AgreedMet
    <2>5. net'[m] = <<get_channel_reestablish(c)>> /\ net'[n] = <<get_channel_reestablish(d)>>
      BY <1>1, <2>1
    <2> QED
      BY <1>1, <2>4, <2>5 DEF Agree
  <1>4. \A n \in Nodes : Known(n, ch'[n], claimable', told')
    BY <1>1 DEF InStep, Danced
  <1> QED
    BY <1>3, <1>4 DEF Danced

\* The funded channel.
LEMMA InitInStep == Init => InStep
  <1> SUFFICES ASSUME Init PROVE InStep
    OBVIOUS
  <1>1. conn /\ Wire = "up"
    BY DEF Init, Wire
  <1>2. ASSUME NEW n \in Nodes
        PROVE  /\ ch[n].inb = {} /\ ch[n].out = {} /\ ch[n].cell = <<>> /\ ~ch[n].awaitRaa /\ ~ch[n].monBusy /\ ~ch[n].disc
               /\ ~ch[n].pendRaa /\ ~ch[n].pendCs /\ ch[n].pendAdds = {} /\ ch[n].pendFails = {}
               /\ ch[n].nextId = 0 /\ ch[n].nextCpId = 0 /\ ch[n].holderNum = 1 /\ ch[n].cpNum = 1
               /\ ch[n].txs.prev.num = 0 /\ ch[n].txs.cur.num = 0 /\ ch[n].txs.prev = ch[n].txs.cur
               /\ ch[n].txs.cur.htlcs = {} /\ net[n] = <<>>
    BY DEF Init, InitialTx
  <1>3. ASSUME NEW n \in Nodes
        PROVE  Known(n, ch[n], claimable, told)
    <2>1. claimable = {} /\ told = [p \in Payments |-> {}]
      BY DEF Init
    <2>2. Queued(ch[n])
      BY <1>2 DEF Queued
    <2>3. HandedOn(n, ch[n], claimable)
      BY <1>2, <2>1 DEF HandedOn
    <2>4. GivenUp(n, ch[n], told)
      BY <1>2, <2>1 DEF GivenUp
    <2>5. Forgot(ch[n])
      BY <1>2 DEF Forgot
    <2> QED
      BY <2>2, <2>3, <2>4, <2>5 DEF Known
  <1>4. ASSUME NEW n \in Nodes, NEW m \in Nodes
        PROVE  Link(ch[n], ch[m], net[m], Wire) /\ Half(ch[n], ch[m], net[m], From(n))
    <2> DEFINE c == ch[n]
               d == ch[m]
    <2>1. \A p : OutSt(c, p) = "none" /\ InSt(c, p) = "none" /\ OutSt(d, p) = "none" /\ InSt(d, p) = "none"
      BY <1>2 DEF OutSt, InSt, StOf
    <2>2. net[m] = <<>> /\ Len(net[m]) = 0 /\ \A T : ~Has(net[m], T)
      BY <1>2 DEF Has
    <2>3. ~OwesCs(c, d) /\ ~OwesRaa(c, d) /\ ~OwesRaa(d, c) /\ Turns(c, d)
      BY <1>2 DEF OwesCs, OwesRaa, Turns
    <2>4. Pending(c, d, net[m])
      BY <1>2, <2>2, <2>3 DEF Pending
    <2>5. Connected(c, d, net[m], Wire)
      BY <1>1, <1>2, <2>2 DEF Connected, Resumes
    <2>6. Line(c, net[m])
      BY <1>2, <2>2 DEF Line, One, Precedes, Reveals
    <2>7. Adds(c, d, net[m])
      <3>1. d.nextCpId = 0 /\ c.nextId = 0
        BY <1>2
      <3>2. \A id : ~Carries(net[m], {"add"}, id)
        BY <2>2 DEF Carries
      <3>3. Rising(net[m])
        BY <2>2 DEF Rising
      <3>4. \A i \in d.nextCpId .. c.nextId - 1 : FALSE
        BY <3>1
      <3> QED
        BY <2>1, <2>2, <3>1, <3>2, <3>3, <3>4 DEF Adds
    <2>8. Rems(c, d, net[m])
      BY <2>1, <2>2 DEF Rems, Carries, Distinct
    <2>9. Numbers(c, d)
      BY <1>2, <2>3 DEF Numbers
    <2>10. \A p \in Payments : PairOf(c, d, p)
      BY <2>1 DEF PairOf, Pair
    <2>11. \A p \in From(n) : OutputsOf(c, d, p)
      <3>1. c.txs.cur.htlcs = {} /\ d.txs.cur.htlcs = {} /\ d.txs.prev.htlcs = {}
        BY <1>2
      <3> QED
        BY <3>1, <2>1 DEF OutputsOf
    <2> QED
      BY <2>3, <2>4, <2>5, <2>6, <2>7, <2>8, <2>9, <2>10, <2>11 DEF Link, Half
  <1>5. ASSUME NEW n \in Nodes
        PROVE  Agree(n, ch, net, Wire)
    <2>1. Peer(n) \in Nodes
      BY PeerFacts
    <2> QED
      BY <1>4, <2>1 DEF Agree, Agreed
  <1> QED
    BY <1>3, <1>5 DEF InStep, Danced

-----------------------------------------------------------------------------
(* What the dance says of the two safety properties.                       *)

\* What n may still broadcast, and what its peer may, in the state K of the channels.
LockedIn(K, L) ==
    \A p \in L : /\ p \in K[PayTo(p)].txs.cur.htlcs
                 /\ p \in K[PayFrom[p]].txs.cur.htlcs
                 /\ K[PayFrom[p]].txs.prev.num >= K[PayTo(p)].cpNum - 1 => p \in K[PayFrom[p]].txs.prev.htlcs

\* No commitment that can still confirm pays a payment reported as failed.
GoneFrom(K, T) ==
    \A p \in Payments : "failed" \in T[p] =>
        /\ p \notin K[PayFrom[p]].txs.cur.htlcs
        /\ p \notin K[PayTo(p)].txs.cur.htlcs
        /\ K[PayTo(p)].txs.prev.num >= K[PayFrom[p]].cpNum - 1 => p \notin K[PayTo(p)].txs.prev.htlcs

\* The invariant is the property, for payments handed to the payee.
LEMMA LockedIs ==
    ASSUME claimable \subseteq Payments, LockedIn(ch, claimable)
    PROVE  ClaimableIsLocked
  <1> SUFFICES ASSUME NEW p \in claimable
               PROVE  /\ p \in ch[PayTo(p)].txs.cur.htlcs
                      /\ \A tx \in Unrevoked(Peer(PayTo(p)), PayTo(p)) : p \in tx.htlcs
    BY DEF ClaimableIsLocked
  <1>1. Peer(PayTo(p)) = PayFrom[p]
    BY PeerFacts DEF PayTo
  <1> QED
    BY <1>1 DEF LockedIn, Unrevoked

\* The invariant is the property, for payments reported as failed.
LEMMA GoneIs ==
    ASSUME GoneFrom(ch, told)
    PROVE  FailedIsGone
  <1> SUFFICES ASSUME NEW p \in Payments, "failed" \in told[p]
               PROVE  /\ p \notin ch[PayFrom[p]].txs.cur.htlcs
                      /\ \A tx \in Unrevoked(Peer(PayFrom[p]), PayFrom[p]) : p \notin tx.htlcs
    BY DEF FailedIsGone
  <1>1. Peer(PayFrom[p]) = PayTo(p)
    BY DEF PayTo
  <1> QED
    BY <1>1 DEF GoneFrom, Unrevoked

\* The commitments of c's node that d's has not seen revoked.
LEMMA StillValid ==
    ASSUME NEW c, NEW d, Counted(c), Counted(d), Turns(d, c), Numbers(c, d), c.txs.prev.num >= d.cpNum - 1
    PROVE  c.txs.prev = c.txs.cur \/ OwesRaa(c, d)
  <1>1. CASE c.txs.prev.num = c.holderNum - 2
    BY <1>1 DEF Counted, Turns, OwesRaa
  <1> QED
    BY <1>1 DEF Numbers

\* In step, what was handed on is locked in and what has failed is gone.
LEMMA DancedIs ==
    ASSUME NEW I, NEW K, NEW N, NEW S, NEW L, NEW C, NEW R, NEW T,
           Decision(I, K, N, S, L, C, R, T), NEW k, Danced(K, N, k, L, T)
    PROVE  LockedIn(K, L) /\ GoneFrom(K, T)
  <1>1. L \subseteq Payments
    BY DEF Decision, DecidedOK
  <1>2. ASSUME NEW p \in Payments
        PROVE  LET c == K[PayFrom[p]]
                   d == K[PayTo(p)]
               IN /\ OutputsOf(c, d, p) /\ Counted(c) /\ Counted(d) /\ Turns(c, d) /\ Turns(d, c)
                  /\ Numbers(c, d) /\ Numbers(d, c)
                  /\ HandedOn(PayTo(p), d, L) /\ GivenUp(PayFrom[p], c, T)
    <2> DEFINE n == PayFrom[p]
               m == PayTo(p)
    <2>1. n \in Nodes /\ m \in Nodes /\ m = Peer(n) /\ p \in From(n)
      BY PeerFacts DEF PayTo, From
    <2>2. Agreed(K[n], K[m], N[m], N[n], k, From(n), From(m))
      BY <2>1 DEF Danced, Agree
    <2>3. Fits(K[n], K[m], From(n), From(m))
      BY <2>1, DecisionFits
    <2>4. HandedOn(m, K[m], L) /\ GivenUp(n, K[n], T)
      BY <2>1 DEF Danced, Known
    <2>5. Link(K[n], K[m], N[m], k) /\ Link(K[m], K[n], N[n], k) /\ Half(K[n], K[m], N[m], From(n)) /\ Half(K[m], K[n], N[n], From(m))
      BY <2>2 DEF Agreed
    <2>6. /\ OutputsOf(K[n], K[m], p) /\ Counted(K[n]) /\ Counted(K[m]) /\ Turns(K[n], K[m]) /\ Turns(K[m], K[n])
          /\ Numbers(K[n], K[m]) /\ Numbers(K[m], K[n])
      BY <2>1, <2>3, <2>5 DEF Link, Half, Fits
    <2> QED
      BY <2>4, <2>6
  <1>3. ASSUME NEW p \in L
        PROVE  /\ p \in K[PayTo(p)].txs.cur.htlcs
               /\ p \in K[PayFrom[p]].txs.cur.htlcs
               /\ K[PayFrom[p]].txs.prev.num >= K[PayTo(p)].cpNum - 1 => p \in K[PayFrom[p]].txs.prev.htlcs
    <2> DEFINE c == K[PayFrom[p]]
               d == K[PayTo(p)]
    <2>1. /\ OutputsOf(c, d, p) /\ Counted(c) /\ Counted(d) /\ Turns(d, c)
          /\ Numbers(c, d) /\ HandedOn(PayTo(p), d, L)
      BY <1>1, <1>2
    <2>2. InSt(d, p) = "Committed"
      BY <2>1 DEF HandedOn
    <2> HIDE DEF c, d
    <2>3. p \in d.txs.cur.htlcs /\ p \in c.txs.cur.htlcs
      BY <2>1, <2>2 DEF OutputsOf
    <2>4. ASSUME c.txs.prev.num >= d.cpNum - 1 PROVE p \in c.txs.prev.htlcs
      <3>1. c.txs.prev = c.txs.cur \/ OwesRaa(c, d)
        BY <2>1, <2>4, StillValid
      <3> QED
        BY <2>1, <2>2, <2>3, <3>1 DEF OutputsOf
    <2>5. p \in d.txs.cur.htlcs /\ p \in c.txs.cur.htlcs /\ (c.txs.prev.num >= d.cpNum - 1 => p \in c.txs.prev.htlcs)
      BY <2>3, <2>4
    <2> QED
      BY <2>5 DEF c, d
  <1>4. ASSUME NEW p \in Payments, "failed" \in T[p]
        PROVE  /\ p \notin K[PayFrom[p]].txs.cur.htlcs
               /\ p \notin K[PayTo(p)].txs.cur.htlcs
               /\ K[PayTo(p)].txs.prev.num >= K[PayFrom[p]].cpNum - 1 => p \notin K[PayTo(p)].txs.prev.htlcs
    <2> DEFINE c == K[PayFrom[p]]
               d == K[PayTo(p)]
    <2>1. /\ OutputsOf(c, d, p) /\ Counted(c) /\ Counted(d) /\ Turns(c, d)
          /\ Numbers(d, c) /\ GivenUp(PayFrom[p], c, T)
      BY <1>2
    <2>2. OutSt(c, p) = "none"
      BY <1>4, <2>1 DEF GivenUp
    <2> HIDE DEF c, d
    <2>3. p \notin d.txs.cur.htlcs /\ p \notin c.txs.cur.htlcs
      BY <2>1, <2>2 DEF OutputsOf
    <2>4. ASSUME d.txs.prev.num >= c.cpNum - 1 PROVE p \notin d.txs.prev.htlcs
      <3>1. d.txs.prev = d.txs.cur \/ OwesRaa(d, c)
        BY <2>1, <2>4, StillValid
      <3> QED
        BY <2>1, <2>2, <2>3, <3>1 DEF OutputsOf
    <2>5. p \notin c.txs.cur.htlcs /\ p \notin d.txs.cur.htlcs /\ (d.txs.prev.num >= c.cpNum - 1 => p \notin d.txs.prev.htlcs)
      BY <2>3, <2>4
    <2> QED
      BY <2>5 DEF c, d
  <1> QED
    BY <1>3, <1>4 DEF LockedIn, GoneFrom

-----------------------------------------------------------------------------
(* The theorem.                                                            *)

\* A node gives the channel up, in the state it was in.
GivesUp(n) ==
    /\ claimable' = claimable /\ told' = told
    /\ \E f : Quiet(ch[n], f) /\ f.fate \in Causes /\ Becomes(n, f)

\* The fate of a channel that ends.
LEMMA EndedQuiet ==
    ASSUME NEW e \in Channel, NEW why
    PROVE  Ends(e, why).fate = why
  BY DEF Ends, Channel

\* A channel that is lost is given up.
LEMMA LostGivesUp ==
    ASSUME NEW I, Before(I), NEW n \in Nodes, Lost(n)
    PROVE  GivesUp(n)
  <1>1. ch[n] \in Channel
    BY NodeFacts DEF Before
  <1>2. PICK why \in Causes : Becomes(n, Ends(ch[n], why))
    BY DEF Lost
  <1>3. Quiet(ch[n], Ends(ch[n], why))
    BY <1>1, QuietOnes
  <1>4. Ends(ch[n], why).fate = why
    BY <1>1, EndedQuiet
  <1> QED
    BY <1>2, <1>3, <1>4 DEF Lost, GivesUp

\* A node of an open channel takes a step.
LEMMA NodeInStep ==
    ASSUME NEW I, Before(I), InStep, NEW J, Then(J), NEW n \in Nodes, ch[n].fate = "open",
           Receive(n) \/ Manager(n) \/ User(n)
    PROVE  StillInStep \/ GivesUp(n)
  <1>1. CASE UpdateAddHtlc(n)
    BY <1>1, AddInStep, LostGivesUp
  <1>2. CASE UpdateFulfillHtlc(n)
    BY <1>2, FulfillInStep
  <1>3. CASE UpdateFailHtlc(n)
    BY <1>3, FailInStep
  <1>4. CASE CommitmentSigned(n)
    BY <1>4, SignedInStep, LostGivesUp
  <1>5. CASE RevokeAndAck(n)
    BY <1>5, RevokeInStep, LostGivesUp
  <1>6. CASE ChannelReestablish(n)
    BY <1>6, ReestablishInStep
  <1>7. CASE ShutdownReceived(n)
    BY <1>7, ShutdownInStep, LostGivesUp
  <1>8. CASE ClosingSigned(n)
    BY <1>8, ClosingInStep, LostGivesUp
  <1>9. CASE MessageAfterClose(n)
    BY <1>9 DEF MessageAfterClose
  <1>10. CASE MonitorRestored(n)
    BY <1>10, RestoredInStep
  <1>11. CASE FreeHoldingCells(n)
    BY <1>11, FreeInStep
  <1>12. CASE ProposeClosing(n)
    BY <1>12, ProposeInStep
  <1>13. CASE AnswerDeferredClosing(n)
    <2>1. StillInStep \/ \E e : /\ Quiet(ch[n], e) /\ e.fate = "closing_signature" /\ Becomes(n, e)
                                /\ UNCHANGED payVars
      BY <1>13, DeferredInStep
    <2> QED
      BY <2>1 DEF GivesUp, Causes, payVars
  <1>14. CASE \E p \in Payments : SendPayment(n, p)
    BY <1>14, SendInStep
  <1>15. CASE \E p \in Payments : ClaimFunds(n, p)
    BY <1>15, ClaimInStep
  <1>16. CASE \E p \in Payments : FailBackwards(n, p)
    BY <1>16, RefuseInStep
  <1>17. CASE CloseChannel(n)
    BY <1>17, CloseInStep
  <1> QED
    BY <1>1, <1>2, <1>3, <1>4, <1>5, <1>6, <1>7, <1>8, <1>9, <1>10, <1>11, <1>12, <1>13, <1>14, <1>15, <1>16, <1>17
       DEF Receive, Manager, User

\* Nobody acts once the channel is off to the chain.
LEMMA NextOffChain ==
    ASSUME Next
    PROVE  OffChain /\ (conn' = conn \/ Disconnect \/ Reconnect)
  <1>1. ASSUME NEW n \in Nodes, Receive(n) PROVE OffChain
    BY <1>1 DEF Receive, UpdateAddHtlc, UpdateFulfillHtlc, UpdateFailHtlc, CommitmentSigned, RevokeAndAck,
        ChannelReestablish, ShutdownReceived, ClosingSigned, MessageAfterClose, Incoming, Open
  <1>2. ASSUME NEW n \in Nodes, Manager(n) PROVE OffChain
    BY <1>2 DEF Manager, MonitorRestored, FreeHoldingCells, ProposeClosing, AnswerDeferredClosing, Open
  <1>3. ASSUME NEW n \in Nodes, User(n) PROVE OffChain
    BY <1>3 DEF User, SendPayment, ClaimFunds, FailBackwards, CloseChannel, Open
  <1>4. CASE Disconnect \/ Reconnect
    BY <1>4 DEF Disconnect, Reconnect
  <1>5. OffChain
    BY <1>1, <1>2, <1>3, <1>4 DEF Next
  <1> QED
    BY <1>5, ConnStep

\* No node has closed the channel by agreement.
NotClosed == \A n \in Nodes : ch[n].fate # "closed"

\* The inductive invariant.
DanceInv ==
    /\ DecisionInv
    /\ BothOpen => InStep
    /\ NotClosed => LockedIn(ch, claimable) /\ GoneFrom(ch, told)

\* A step of an open channel.
LEMMA OpenStep ==
    ASSUME NEW I, Before(I), InStep, BothOpen, conn \in BOOLEAN, Next
    PROVE  InStep' \/ \E n \in Nodes : GivesUp(n)
  <1>1. PICK J : Then(J)
    BY NextStep DEF Stepped, After, Then
  <1>2. CASE Disconnect
    <2>1. Danced(ch', net', "down", claimable', told')
      BY <1>1, <1>2, DisconnectInStep
    <2>2. conn' = FALSE
      BY <1>2 DEF Disconnect
    <2> QED
      BY <2>1, <2>2 DEF InStep, Wire
  <1>3. CASE Reconnect
    <2>1. Danced(ch', net', "up", claimable', told')
      BY <1>1, <1>3, ReconnectInStep
    <2>2. conn' = TRUE
      BY <1>3 DEF Reconnect
    <2> QED
      BY <2>1, <2>2 DEF InStep, Wire
  <1>4. CASE ~Disconnect /\ ~Reconnect
    <2>1. PICK n \in Nodes : Receive(n) \/ Manager(n) \/ User(n)
      BY <1>4 DEF Next
    <2>2. conn' = conn
      BY <1>4, NextOffChain
    <2>3. StillInStep \/ GivesUp(n)
      BY <1>1, <2>1, NodeInStep DEF BothOpen
    <2>4. CASE StillInStep
      BY <2>2, <2>4 DEF StillInStep, InStep, Wire
    <2> QED
      BY <2>3, <2>4
  <1> QED
    BY <1>2, <1>3, <1>4

\* A node that gives up leaves the commitments as they were.
LEMMA GivenUpLocked ==
    ASSUME NEW I, Before(I), NEW n \in Nodes, GivesUp(n), NEW L, L \subseteq Payments, NEW T
    PROVE  /\ LockedIn(ch, L) => LockedIn(ch', L)
           /\ GoneFrom(ch, T) => GoneFrom(ch', T)
           /\ ch'[n].fate \in Causes
  <1>1. PICK f : Quiet(ch[n], f) /\ f.fate \in Causes /\ Becomes(n, f)
    BY DEF GivesUp
  <1>2. ch = [m \in Nodes |-> ch[m]]
    BY DEF Before, Decision
  <1>3. /\ ch'[n] = f /\ \A m \in Nodes : m # n => ch'[m] = ch[m]
    BY <1>1, <1>2 DEF Becomes
  <1>4. ch'[n].txs = ch[n].txs /\ ch'[n].cpNum = ch[n].cpNum
    BY <1>1, <1>3 DEF Quiet, Steady, SameHtlcs
  <1>5. \A m \in Nodes : ch'[m].txs = ch[m].txs /\ ch'[m].cpNum = ch[m].cpNum
    BY <1>3, <1>4
  <1>6. \A p \in Payments : PayFrom[p] \in Nodes /\ PayTo(p) \in Nodes
    BY PeerFacts
  <1>7. LockedIn(ch, L) => LockedIn(ch', L)
    <2> SUFFICES ASSUME LockedIn(ch, L), NEW p \in L
                 PROVE  /\ p \in ch'[PayTo(p)].txs.cur.htlcs
                        /\ p \in ch'[PayFrom[p]].txs.cur.htlcs
                        /\ ch'[PayFrom[p]].txs.prev.num >= ch'[PayTo(p)].cpNum - 1 => p \in ch'[PayFrom[p]].txs.prev.htlcs
      BY DEF LockedIn
    <2>1. PayFrom[p] \in Nodes /\ PayTo(p) \in Nodes
      BY <1>6
    <2>2. /\ ch'[PayTo(p)].txs = ch[PayTo(p)].txs /\ ch'[PayTo(p)].cpNum = ch[PayTo(p)].cpNum
          /\ ch'[PayFrom[p]].txs = ch[PayFrom[p]].txs
      BY <1>5, <2>1
    <2> QED
      BY <2>2 DEF LockedIn
  <1>8. GoneFrom(ch, T) => GoneFrom(ch', T)
    BY <1>5, <1>6 DEF GoneFrom
  <1> QED
    BY <1>1, <1>3, <1>7, <1>8

\* The invariant holds at the start.
LEMMA InitDance == Init => DanceInv
  <1> SUFFICES ASSUME Init PROVE DanceInv
    OBVIOUS
  <1>1. DecisionInv
    BY InitDecision
  <1>2. InStep
    BY InitInStep
  <1>3. PICK I : Before(I)
    BY <1>1 DEF DecisionInv, Before
  <1>4. LockedIn(ch, claimable) /\ GoneFrom(ch, told)
    BY <1>2, <1>3, DancedIs DEF Before, InStep
  <1> QED
    BY <1>1, <1>2, <1>4 DEF DanceInv

\* A node that closed stays closed.
LEMMA ClosedStays ==
    ASSUME NEW I, Before(I), Next, NotClosed'
    PROVE  NotClosed
  <1> SUFFICES ASSUME NEW x \in Nodes, ch[x].fate = "closed"
               PROVE  ch'[x].fate = "closed"
    BY DEF NotClosed
  <1>1. ch = [m \in Nodes |-> ch[m]]
    BY DEF Before, Decision
  <1>2. ASSUME NEW n \in Nodes, ch[n].fate = "open" \/ ch' = ch, NEW f, Becomes(n, f) \/ ch' = ch
        PROVE  ch'[x].fate = "closed"
    BY <1>1, <1>2 DEF Becomes
  <1>3. CASE Disconnect
    BY <1>3 DEF Disconnect
  <1>4. CASE Reconnect
    BY <1>4 DEF Reconnect
  <1>5. ASSUME NEW n \in Nodes, Receive(n) \/ Manager(n) \/ User(n) PROVE ch'[x].fate = "closed"
    <2>1. CASE MessageAfterClose(n)
      BY <2>1, <1>2 DEF MessageAfterClose
    <2>2. CASE ~MessageAfterClose(n)
      <3>1. (ch[n].fate = "open") /\ ch' = [ch EXCEPT ![n] = ch'[n]]
        <4> USE <1>1 DEF Open, Incoming, Becomes
        <4>1. CASE UpdateAddHtlc(n)
          BY <4>1 DEF UpdateAddHtlc
        <4>2. CASE UpdateFulfillHtlc(n)
          BY <4>2 DEF UpdateFulfillHtlc
        <4>3. CASE UpdateFailHtlc(n)
          BY <4>3 DEF UpdateFailHtlc
        <4>4. CASE CommitmentSigned(n)
          BY <4>4 DEF CommitmentSigned
        <4>5. CASE RevokeAndAck(n)
          BY <4>5 DEF RevokeAndAck
        <4>6. CASE ChannelReestablish(n)
          BY <4>6 DEF ChannelReestablish
        <4>7. CASE ShutdownReceived(n)
          BY <4>7 DEF ShutdownReceived
        <4>8. CASE ClosingSigned(n)
          BY <4>8 DEF ClosingSigned
        <4>10. CASE MonitorRestored(n)
          BY <4>10 DEF MonitorRestored
        <4>11. CASE FreeHoldingCells(n)
          BY <4>11 DEF FreeHoldingCells
        <4>12. CASE ProposeClosing(n)
          BY <4>12 DEF ProposeClosing
        <4>13. CASE AnswerDeferredClosing(n)
          BY <4>13 DEF AnswerDeferredClosing
        <4>14. CASE \E p \in Payments : SendPayment(n, p)
          BY <4>14 DEF SendPayment
        <4>15. CASE \E p \in Payments : ClaimFunds(n, p)
          BY <4>15 DEF ClaimFunds
        <4>16. CASE \E p \in Payments : FailBackwards(n, p)
          BY <4>16 DEF FailBackwards
        <4>17. CASE CloseChannel(n)
          BY <4>17 DEF CloseChannel
        <4> QED
          BY <1>5, <2>2, <4>1, <4>2, <4>3, <4>4, <4>5, <4>6, <4>7, <4>8, <4>10, <4>11, <4>12, <4>13, <4>14, <4>15, <4>16, <4>17
             DEF Receive, Manager, User
      <3> QED
        BY <1>1, <3>1
    <2> QED
      BY <2>1, <2>2
  <1> QED
    BY <1>3, <1>4, <1>5 DEF Next

\* A step keeps the invariant.
LEMMA NextDance ==
    ASSUME DanceInv, Next
    PROVE  DanceInv'
  <1>1. PICK I : Before(I)
    BY DEF DanceInv, DecisionInv, Before
  <1>2. DecisionInv'
    BY NextDecision DEF DanceInv
  <1>3. PICK J : Then(J)
    BY <1>2 DEF DecisionInv, Then
  <1>4. conn \in BOOLEAN /\ claimable \subseteq Payments
    <2>1. claimable \subseteq Payments
      BY <1>1 DEF Before, Decision, DecidedOK
    <2> QED
      BY <2>1 DEF DanceInv, DecisionInv
  <1>5. OffChain
    BY NextOffChain
  <1>6. ASSUME InStep'
        PROVE  LockedIn(ch, claimable)' /\ GoneFrom(ch, told)'
    <2>1. \E k : Danced(ch', net', k, claimable', told')
      BY <1>6 DEF InStep
    <2>2. LockedIn(ch', claimable') /\ GoneFrom(ch', told')
      BY <2>1, <1>3, DancedIs DEF Then
    <2> QED
      BY <2>2 DEF LockedIn, GoneFrom
  <1>7. CASE BothOpen
    <2>1. InStep' \/ \E n \in Nodes : GivesUp(n)
      BY <1>1, <1>4, <1>7, OpenStep DEF DanceInv
    <2>2. CASE InStep'
      BY <1>2, <1>6, <2>2 DEF DanceInv
    <2>3. ASSUME NEW n \in Nodes, GivesUp(n) PROVE DanceInv'
      <3>1. NotClosed
        BY <1>7 DEF NotClosed, BothOpen
      <3>2. LockedIn(ch, claimable) /\ GoneFrom(ch, told)
        BY <3>1 DEF DanceInv
      <3>3. LockedIn(ch', claimable) /\ GoneFrom(ch', told)
        BY <1>1, <1>4, <2>3, <3>2, GivenUpLocked
      <3>4. claimable' = claimable /\ told' = told
        BY <2>3 DEF GivesUp
      <3>5. LockedIn(ch, claimable)' /\ GoneFrom(ch, told)'
        BY <3>3, <3>4 DEF LockedIn, GoneFrom
      <3>6. ~BothOpen'
        <4>1. ch'[n].fate \in Causes
          BY <1>1, <2>3, GivenUpLocked
        <4> QED
          BY <4>1 DEF BothOpen, Causes
      <3> QED
        BY <1>2, <3>5, <3>6 DEF DanceInv
    <2> QED
      BY <2>1, <2>2, <2>3
  <1>8. CASE ~BothOpen
    <2>1. ~NotClosed
      BY <1>5, <1>8 DEF OffChain, BothOpen, NotClosed
    <2>2. ~NotClosed'
      BY <1>1, <2>1, ClosedStays
    <2>3. ~BothOpen'
      BY <2>2 DEF BothOpen, NotClosed
    <2> QED
      BY <1>2, <2>2, <2>3 DEF DanceInv
  <1> QED
    BY <1>7, <1>8

\* While no node has signed the channel away, a payment handed to the payee is an
\* output of every commitment that can still confirm, and one reported to the payer as
\* failed is an output of none: monitor_updating_restored hands HTLCs on, and
\* revoke_and_ack gives them up, late enough, through lost connections, monitor
\* updates in flight and everything resent.
THEOREM OpenChannelIsSafe == Spec => [](NotClosed => ClaimableIsLocked /\ FailedIsGone)
  <1>1. ASSUME DanceInv, UNCHANGED vars PROVE DanceInv'
    <2>1. DecisionInv'
      BY <1>1, NextDecision DEF DanceInv
    <2>2. ch' = ch /\ claimable' = claimable /\ told' = told /\ net' = net /\ conn' = conn
      BY <1>1 DEF vars
    <2>3. /\ InStep' <=> InStep
          /\ BothOpen' <=> BothOpen
          /\ NotClosed' <=> NotClosed
      BY <2>2 DEF InStep, Wire, BothOpen, NotClosed
    <2>4. LockedIn(ch, claimable)' <=> LockedIn(ch, claimable)
      BY <2>2 DEF LockedIn
    <2>5. GoneFrom(ch, told)' <=> GoneFrom(ch, told)
      BY <2>2 DEF GoneFrom
    <2> QED
      BY <1>1, <2>1, <2>3, <2>4, <2>5 DEF DanceInv
  <1>2. DanceInv /\ [Next]_vars => DanceInv'
    BY <1>1, NextDance
  <1>3. DanceInv => (NotClosed => ClaimableIsLocked /\ FailedIsGone)
    <2> SUFFICES ASSUME DanceInv, NotClosed PROVE ClaimableIsLocked /\ FailedIsGone
      OBVIOUS
    <2>1. claimable \subseteq Payments
      BY DEF DanceInv, DecisionInv, Decision, DecidedOK
    <2>2. LockedIn(ch, claimable) /\ GoneFrom(ch, told)
      BY DEF DanceInv
    <2> QED
      BY <2>1, <2>2, LockedIs, GoneIs
  <1> QED
    BY <1>2, <1>3, InitDance, PTL DEF Spec

===============================================================================
