----------------------- MODULE BrowserPublicationProofs -----------------------
(***************************************************************************)
(* The publish panel in any number of tabs, reloaded, closed and duplicated  *)
(* at any moment, with requests and replies lost or late: what may have been *)
(* published is still saved, and the credentials shown are those of what is. *)
(***************************************************************************)
EXTENDS BrowserPublication, RoomServiceProofs

-----------------------------------------------------------------------------
(* The inductive invariant.                                                  *)

Page == [pc : {"loading", "ready", "reading", "sending"}, attempt : Attempt \cup {Nothing},
         saved : BOOLEAN, result : (Keys \X Ids) \cup {Nothing}]

PageTyped ==
    /\ storage \in [Tabs -> Attempt \cup {Nothing}]
    /\ page \in [Tabs -> Page]
    /\ net \subseteq [from : Tabs \cup {Nowhere}, cap : Caps, payload : Payloads]
    /\ forgotten \subseteq Caps

\* A request whose sender is known is the one its tab waits for.
Awaited ==
    \A m \in net : m.from # Nowhere =>
        At(m.from, "sending") /\ page[m.from].attempt = [cap |-> m.cap, payload |-> m.payload]

\* What the component holds is what its tab has saved; it says that nothing is
\* saved only if nothing is; and without a reload it asks only for one result.
PageSound(t) ==
    /\ At(t, "loading") => page[t] = Loading
    /\ page[t].attempt # Nothing => storage[t] = page[t].attempt
    /\ ~At(t, "loading") /\ ~page[t].saved => storage[t] = Nothing
    /\ At(t, "reading") => ~page[t].saved
    /\ At(t, "reading") \/ At(t, "sending") => page[t].result = Nothing

\* A capability is saved in a tab, or was explicitly given up.
Saved(h) == h \in forgotten \/ \E t \in Tabs : storage[t] # Nothing /\ storage[t].cap = h

AllSaved == \A h \in Caps : publication[h] # NoRoom \/ (\E m \in net : m.cap = h) => Saved(h)

PanelInv == /\ PageTyped /\ Awaited /\ (\A t \in Tabs : PageSound(t))
            /\ AllSaved /\ ShownOwn

PageInv == IInv /\ PanelInv

-----------------------------------------------------------------------------
(* The pieces of a step.                                                     *)

\* For the service, whatever happens is one of its operations or none.
LEMMA PageOperation == IInv /\ PageTyped /\ PageNext => [Next]_vars
<1> SUFFICES ASSUME IInv, PageTyped, PageNext PROVE [Next]_vars
  OBVIOUS
<1>1. now \in 0..now
  BY DataAssumption DEF IInv, TypeOK
<1>2. CASE UNCHANGED service
  BY <1>2 DEF service, vars
<1>3. CASE \E m \in net : Serve(m)
  <2> SUFFICES ASSUME NEW m \in net, Serve(m) PROVE Next
    BY <1>3
  <2>1. m.cap \in Caps /\ m.payload \in Payloads
    BY DEF PageTyped
  <2>2. CASE \E i \in Ids, k \in Keys : Publish(m.cap, i, k, m.payload, now)
    BY <1>1, <2>1, <2>2 DEF Next
  <2>3. CASE Replay(m.cap, m.payload)
    BY <1>1, <2>1, <2>3 DEF Next
  <2> QED
    BY <2>2, <2>3 DEF Serve
<1>4. CASE ServiceStep
  <2>1. CASE Tick
    BY <2>1 DEF Next
  <2>2. CASE PostRoom
    BY <1>1, <2>2 DEF PostRoom, Next
  <2>3. CASE PostClaim
    BY <1>1, <2>3 DEF PostClaim, Next
  <2>4. CASE PostRepublish
    BY <1>1, <2>4 DEF PostRepublish, Next
  <2>5. CASE DeleteRoom
    <3>1. PICK i \in Ids : Remove({i})
      BY <2>5 DEF DeleteRoom
    <3>2. {i} \in SUBSET Ids
      OBVIOUS
    <3> QED
      BY <3>1, <3>2 DEF Next
  <2>6. CASE PurgeRooms
    <3>1. PICK S \in SUBSET Ids : Remove({i \in S : i \in DOMAIN rooms /\ rooms[i].expires <= now})
      BY <2>6 DEF PurgeRooms
    <3>2. {i \in S : i \in DOMAIN rooms /\ rooms[i].expires <= now} \in SUBSET Ids
      OBVIOUS
    <3> QED
      BY <3>1, <3>2 DEF Next
  <2> QED
    BY <1>4, <2>1, <2>2, <2>3, <2>4, <2>5, <2>6 DEF ServiceStep
<1>5. CASE \E t \in Tabs : \/ Load(t) \/ Choose(t) \/ SaveAndSend(t) \/ Recover(t) \/ GiveUp(t)
                           \/ ForgetPublication(t) \/ Reload(t) \/ Close(t)
                           \/ \E u \in Tabs \ {t} : Duplicate(t, u)
  BY <1>2, <1>5 DEF Load, Choose, SaveAndSend, Recover, GiveUp, ForgetPublication, Reload, Close, Duplicate
<1>6. CASE \E m \in net : Drop(m)
  BY <1>2, <1>6 DEF Drop
<1> QED
  BY <1>3, <1>4, <1>5, <1>6 DEF PageNext

\* A tab's page in full.
LEMMA PageFields ==
    ASSUME PageTyped, NEW t \in Tabs
    PROVE  /\ page[t] \in Page
           /\ page[t] = [pc |-> page[t].pc, attempt |-> page[t].attempt,
                         saved |-> page[t].saved, result |-> page[t].result]
BY DEF PageTyped, Page

\* One tab moves, its storage with it; the other tabs, the service and the
\* capabilities under way stay.
LEMMA TabMoves ==
    ASSUME PanelInv, NEW t \in Tabs, NEW r \in Page, page' = [page EXCEPT ![t] = r],
           NEW s \in Attempt \cup {Nothing}, storage' = [storage EXCEPT ![t] = s],
           publication' = publication, forgotten \subseteq forgotten', forgotten' \subseteq Caps,
           storage[t] # Nothing /\ s # storage[t] => storage[t].cap \in forgotten',
           net' \subseteq [from : Tabs \cup {Nowhere}, cap : Caps, payload : Payloads],
           \A m \in net' : m.from # Nowhere =>
              \/ m.from # t /\ m \in net
              \/ m.from = t /\ r.pc = "sending" /\ r.attempt = [cap |-> m.cap, payload |-> m.payload],
           \A m \in net' : \/ \E n \in net : n.cap = m.cap
                           \/ s # Nothing /\ s.cap = m.cap,
           r.pc = "loading" => r = Loading,
           r.attempt # Nothing => s = r.attempt,
           r.pc # "loading" /\ ~r.saved => s = Nothing,
           r.pc = "reading" => ~r.saved,
           r.pc \in {"reading", "sending"} => r.result = Nothing,
           r.result # Nothing /\ s # Nothing => r.result = page[t].result /\ s = storage[t]
    PROVE  PanelInv'
<1>1. /\ page' \in [Tabs -> Page] /\ page'[t] = r /\ storage'[t] = s
      /\ \A u \in Tabs : u # t => page'[u] = page[u] /\ storage'[u] = storage[u]
      /\ storage' \in [Tabs -> Attempt \cup {Nothing}]
  BY DEF PanelInv, PageTyped
<1>2. PageTyped'
  BY <1>1 DEF PageTyped
<1>3. Awaited'
  BY <1>1 DEF PanelInv, Awaited, At, PageTyped
<1>4. (\A u \in Tabs : PageSound(u))'
  BY <1>1 DEF PanelInv, PageSound, At
<1>5. \A h \in Caps : Saved(h) => Saved(h)'
  BY <1>1 DEF Saved
<1>6. AllSaved'
  <2>1. \A h \in Caps : publication[h] # NoRoom \/ (\E m \in net : m.cap = h) => Saved(h)'
    BY <1>5 DEF PanelInv, AllSaved
  <2>2. s # Nothing => Saved(s.cap)'
    BY <1>1 DEF Saved
  <2> QED
    BY <2>1, <2>2 DEF AllSaved, PanelInv, PageTyped, Saved
<1>7. ShownOwn'
  BY <1>1 DEF PanelInv, ShownOwn
<1> QED
  BY <1>2, <1>3, <1>4, <1>6, <1>7 DEF PanelInv

\* A tab that does not wait has no request of its own under way.
LEMMA NoneAwaited ==
    ASSUME PanelInv, NEW t \in Tabs, ~At(t, "sending"), net' = net
    PROVE  /\ net' \subseteq [from : Tabs \cup {Nowhere}, cap : Caps, payload : Payloads]
           /\ \A m \in net' : m.from # Nowhere => m.from # t /\ m \in net
           /\ \A m \in net' : \E n \in net : n.cap = m.cap
BY DEF PanelInv, Awaited, PageTyped

\* Once it no longer waits, its request is nobody's.
LEMMA NoneOrphaned ==
    ASSUME PanelInv, NEW t \in Tabs, net' = Orphaned(t)
    PROVE  /\ net' \subseteq [from : Tabs \cup {Nowhere}, cap : Caps, payload : Payloads]
           /\ \A m \in net' : m.from # Nowhere => m.from # t /\ m \in net
           /\ \A m \in net' : \E n \in net : n.cap = m.cap
<1>1. \A n \in net : n \in [from : Tabs \cup {Nowhere}, cap : Caps, payload : Payloads]
  BY DEF PanelInv, PageTyped
<1>2. \A n \in net :
         /\ [n EXCEPT !.from = Nowhere] \in [from : Tabs \cup {Nowhere}, cap : Caps, payload : Payloads]
         /\ [n EXCEPT !.from = Nowhere].from = Nowhere
         /\ [n EXCEPT !.from = Nowhere].cap = n.cap
  BY <1>1
<1>3. \A m \in net' : \E n \in net :
         \/ n.from = t /\ m = [n EXCEPT !.from = Nowhere]
         \/ n.from # t /\ m = n
  BY DEF Orphaned
<1> QED
  BY <1>1, <1>2, <1>3

-----------------------------------------------------------------------------
(* Each step of a tab.                                                       *)

LEMMA PageInitInv == PageInit => PageInv
<1> SUFFICES ASSUME PageInit PROVE PageInv
  OBVIOUS
<1>1. IInv
  BY InitInv DEF PageInit
<1>2. Loading \in Page /\ Loading.pc = "loading" /\ Loading.attempt = Nothing /\ Loading.result = Nothing
  BY DEF Loading, Page
<1>3. PageTyped /\ Awaited
  BY <1>2 DEF PageInit, PageTyped, Awaited
<1>4. \A t \in Tabs : PageSound(t)
  BY <1>2 DEF PageInit, PageSound, At
<1>5. AllSaved /\ ShownOwn
  BY <1>2 DEF PageInit, Init, AllSaved, ShownOwn
<1> QED
  BY <1>1, <1>3, <1>4, <1>5 DEF PageInv, PanelInv

\* A step of the page alone.
LEMMA PageMoves ==
    ASSUME PanelInv, NEW t \in Tabs, NEW r \in Page, page' = [page EXCEPT ![t] = r],
           UNCHANGED <<service, storage, forgotten>>,
           \/ ~At(t, "sending") /\ net' = net
           \/ net' = Orphaned(t),
           r.pc = "loading" => r = Loading,
           r.attempt # Nothing => storage[t] = r.attempt,
           r.pc # "loading" /\ ~r.saved => storage[t] = Nothing,
           r.pc = "reading" => ~r.saved,
           r.pc \in {"reading", "sending"} => r.result = Nothing,
           r.result # Nothing => r.result = page[t].result
    PROVE  PanelInv'
<1>1. PICK s \in Attempt \cup {Nothing} : s = storage[t] /\ storage' = [storage EXCEPT ![t] = s]
  BY DEF PanelInv, PageTyped
<1>2. publication' = publication /\ forgotten \subseteq forgotten' /\ forgotten' \subseteq Caps
  BY DEF service, PanelInv, PageTyped
<1>3. /\ net' \subseteq [from : Tabs \cup {Nowhere}, cap : Caps, payload : Payloads]
      /\ \A m \in net' : m.from # Nowhere => m.from # t /\ m \in net
      /\ \A m \in net' : \E n \in net : n.cap = m.cap
  BY NoneAwaited, NoneOrphaned
<1>4. /\ r.attempt # Nothing => s = r.attempt
      /\ r.pc # "loading" /\ ~r.saved => s = Nothing
      /\ r.result # Nothing /\ s # Nothing => r.result = page[t].result /\ s = storage[t]
  BY <1>1
<1> QED
  <2>1. \A m \in net' : m.from # Nowhere =>
           \/ m.from # t /\ m \in net
           \/ m.from = t /\ r.pc = "sending" /\ r.attempt = [cap |-> m.cap, payload |-> m.payload]
    BY <1>3
  <2>2. \A m \in net' : (\E n \in net : n.cap = m.cap) \/ (s # Nothing /\ s.cap = m.cap)
    BY <1>3
  <2>3. storage[t] # Nothing /\ s # storage[t] => storage[t].cap \in forgotten'
    BY <1>1
  <2> QED
    BY <1>1, <1>2, <1>3, <1>4, <2>1, <2>2, <2>3, TabMoves

LEMMA LoadInv == ASSUME PanelInv, NEW t \in Tabs, Load(t) PROVE PanelInv'
<1>1. ~At(t, "sending") /\ net' = net /\ UNCHANGED <<service, storage, forgotten>>
  BY DEF Load, At
<1>2. page[t] = Loading /\ storage[t] \in Attempt \cup {Nothing}
  <2>1. At(t, "loading") /\ PageSound(t) /\ PageTyped
    BY DEF Load, PanelInv
  <2> QED
    BY <2>1 DEF PageTyped, PageSound
<1>3. page[t] \in Page /\ page[t].attempt = Nothing /\ page[t].result = Nothing
  BY <1>2, PageFields DEF PanelInv, Loading
<1>4. CASE page' = [page EXCEPT ![t] = [page[t] EXCEPT !.pc = "ready", !.attempt = storage[t],
                                                       !.saved = storage[t] # Nothing]]
  <2> DEFINE r == [page[t] EXCEPT !.pc = "ready", !.attempt = storage[t], !.saved = storage[t] # Nothing]
  <2>1. /\ r \in Page /\ r.pc = "ready" /\ r.attempt = storage[t]
        /\ r.saved = (storage[t] # Nothing) /\ r.result = Nothing
    BY <1>2, <1>3 DEF Page
  <2> HIDE DEF r
  <2>2. page' = [page EXCEPT ![t] = r]
    BY <1>4 DEF r
  <2> QED
    BY <1>1, <2>1, <2>2, PageMoves
<1>5. CASE page' = [page EXCEPT ![t] = [page[t] EXCEPT !.pc = "ready", !.saved = TRUE]]
  <2> DEFINE r == [page[t] EXCEPT !.pc = "ready", !.saved = TRUE]
  <2>1. r \in Page /\ r.pc = "ready" /\ r.attempt = Nothing /\ r.saved = TRUE /\ r.result = Nothing
    BY <1>2, <1>3 DEF Page
  <2> HIDE DEF r
  <2>2. page' = [page EXCEPT ![t] = r]
    BY <1>5 DEF r
  <2> QED
    BY <1>1, <2>1, <2>2, PageMoves
<1> QED
  BY <1>4, <1>5 DEF Load

LEMMA ReloadInv == ASSUME PanelInv, NEW t \in Tabs, Reload(t) PROVE PanelInv'
<1>1. Loading \in Page /\ Loading.pc = "loading" /\ Loading.attempt = Nothing /\ Loading.result = Nothing
  BY DEF Loading, Page
<1> QED
  BY <1>1, PageMoves DEF Reload

\* A page at its next step, otherwise as it is.
Onward(t, pc) == [page[t] EXCEPT !.pc = pc]

LEMMA PageProceeds ==
    ASSUME PageTyped, NEW t \in Tabs, NEW pc \in {"loading", "ready", "reading", "sending"}
    PROVE  /\ Onward(t, pc) \in Page /\ Onward(t, pc).pc = pc
           /\ Onward(t, pc).attempt = page[t].attempt
           /\ Onward(t, pc).saved = page[t].saved /\ Onward(t, pc).result = page[t].result
<1>1. page[t] \in Page
  BY PageFields
<1> QED
  BY <1>1 DEF Onward, Page

LEMMA ChooseInv == ASSUME PanelInv, NEW t \in Tabs, Choose(t) PROVE PanelInv'
<1> DEFINE r == Onward(t, "reading")
<1>1. /\ r \in Page /\ r.pc = "reading" /\ r.attempt = page[t].attempt
      /\ r.saved = page[t].saved /\ r.result = page[t].result
  BY PageProceeds DEF PanelInv
<1>2. page' = [page EXCEPT ![t] = r]
  BY DEF Choose, Onward
<1> HIDE DEF r
<1>3. ~At(t, "sending") /\ net' = net /\ UNCHANGED <<service, storage, forgotten>>
  BY DEF Choose, At
<1>4. ~page[t].saved /\ page[t].result = Nothing /\ At(t, "ready")
  BY DEF Choose
<1>5. page[t].attempt # Nothing => storage[t] = page[t].attempt
  BY DEF PanelInv, PageSound
<1>6. storage[t] = Nothing
  BY <1>4 DEF PanelInv, PageSound, At
<1> QED
  BY <1>1, <1>2, <1>3, <1>4, <1>5, <1>6, PageMoves

LEMMA GiveUpInv == ASSUME PanelInv, NEW t \in Tabs, GiveUp(t) PROVE PanelInv'
<1> DEFINE r == Onward(t, "ready")
<1>1. /\ r \in Page /\ r.pc = "ready" /\ r.attempt = page[t].attempt
      /\ r.saved = page[t].saved /\ r.result = page[t].result
  BY PageProceeds DEF PanelInv
<1>2. page' = [page EXCEPT ![t] = r]
  BY DEF GiveUp, Onward
<1> HIDE DEF r
<1>3. net' = Orphaned(t) /\ UNCHANGED <<service, storage, forgotten>> /\ At(t, "sending")
  BY DEF GiveUp
<1>4. /\ page[t].attempt # Nothing => storage[t] = page[t].attempt
      /\ ~page[t].saved => storage[t] = Nothing
      /\ page[t].result = Nothing
  BY <1>3 DEF PanelInv, PageSound, At
<1> QED
  BY <1>1, <1>2, <1>3, <1>4, PageMoves

LEMMA SaveAndSendInv == ASSUME PanelInv, NEW t \in Tabs, SaveAndSend(t) PROVE PanelInv'
<1>1. /\ At(t, "reading") /\ ~At(t, "sending") /\ ~page[t].saved /\ page[t].result = Nothing
      /\ storage[t] = Nothing /\ page[t].attempt = Nothing
  BY PageAssumption DEF SaveAndSend, At, PanelInv, PageSound
<1>2. CASE page' = [page EXCEPT ![t].pc = "ready"] /\ UNCHANGED <<storage, net>>
  <2> DEFINE r == Onward(t, "ready")
  <2>1. /\ r \in Page /\ r.pc = "ready" /\ r.attempt = page[t].attempt
        /\ r.saved = page[t].saved /\ r.result = page[t].result
    BY PageProceeds DEF PanelInv
  <2>2. page' = [page EXCEPT ![t] = r]
    BY <1>2 DEF Onward
  <2> HIDE DEF r
  <2>3. net' = net /\ UNCHANGED <<service, storage, forgotten>>
    BY <1>2 DEF SaveAndSend
  <2> QED
    BY <1>1, <2>1, <2>2, <2>3, PageMoves
<1>3. ASSUME NEW h \in Caps, NEW p \in Payloads,
             storage' = [storage EXCEPT ![t] = [cap |-> h, payload |-> p]],
             page' = [page EXCEPT ![t] = [page[t] EXCEPT !.pc = "sending", !.attempt = [cap |-> h, payload |-> p],
                                                         !.saved = TRUE]],
             net' = Sent(t, [cap |-> h, payload |-> p]), UNCHANGED <<service, forgotten>>
      PROVE  PanelInv'
  <2> DEFINE a == [cap |-> h, payload |-> p]
             r == [page[t] EXCEPT !.pc = "sending", !.attempt = a, !.saved = TRUE]
             m == [from |-> t, cap |-> h, payload |-> p]
  <2>1. a \in Attempt /\ a.cap = h /\ a.payload = p
    BY DEF Attempt
  <2>2. /\ m \in [from : Tabs \cup {Nowhere}, cap : Caps, payload : Payloads]
        /\ m.from = t /\ m.cap = h /\ a = [cap |-> m.cap, payload |-> m.payload]
    OBVIOUS
  <2>3. net' = net \cup {m}
    BY <1>3 DEF Sent
  <2>4. storage' = [storage EXCEPT ![t] = a] /\ page' = [page EXCEPT ![t] = r]
    BY <1>3
  <2> HIDE DEF a, m
  <2>5. r \in Page /\ r.pc = "sending" /\ r.attempt = a /\ r.saved = TRUE /\ r.result = page[t].result
    BY <2>1, PageFields DEF PanelInv, Page
  <2> HIDE DEF r
  <2>6. /\ net' \subseteq [from : Tabs \cup {Nowhere}, cap : Caps, payload : Payloads]
        /\ \A n \in net' : n.from # Nowhere => (n.from # t /\ n \in net) \/ n = m
        /\ \A n \in net' : n \in net \/ n = m
    BY <1>1, <2>2, <2>3 DEF PanelInv, Awaited, PageTyped
  <2>7. UNCHANGED <<publication, forgotten>> /\ forgotten \subseteq Caps
    BY <1>3 DEF service, PanelInv, PageTyped
  <2>8. a # Nothing
    BY <2>1, PageAssumption
  <2>9. \A n \in net' : n.from # Nowhere =>
           \/ n.from # t /\ n \in net
           \/ n.from = t /\ r.pc = "sending" /\ r.attempt = [cap |-> n.cap, payload |-> n.payload]
    BY <2>2, <2>5, <2>6
  <2>10. \A n \in net' : (\E k \in net : k.cap = n.cap) \/ (a # Nothing /\ a.cap = n.cap)
    BY <2>1, <2>2, <2>6, <2>8
  <2>11. a \in Attempt \cup {Nothing} /\ (storage[t] # Nothing /\ a # storage[t] => storage[t].cap \in forgotten')
         /\ forgotten \subseteq forgotten' /\ forgotten' \subseteq Caps /\ publication' = publication
    BY <1>1, <2>1, <2>7
  <2> QED
    BY <1>1, <2>4, <2>5, <2>6, <2>9, <2>10, <2>11, TabMoves
<1> QED
  BY <1>2, <1>3 DEF SaveAndSend

LEMMA RecoverInv == ASSUME PanelInv, NEW t \in Tabs, Recover(t) PROVE PanelInv'
<1> DEFINE a == page[t].attempt
           r == Onward(t, "sending")
           m == [from |-> t, cap |-> a.cap, payload |-> a.payload]
<1>1. /\ At(t, "ready") /\ ~At(t, "sending") /\ a # Nothing /\ page[t].result = Nothing
      /\ page' = [page EXCEPT ![t] = r] /\ net' = net \cup {m}
      /\ UNCHANGED <<publication, storage, forgotten>>
  BY DEF Recover, At, Onward, Sent, service
<1>2. a \in Attempt /\ storage[t] = a /\ (~page[t].saved => storage[t] = Nothing)
  <2>1. a \in Attempt
    BY <1>1, PageFields DEF PanelInv, Page
  <2> QED
    BY <1>1, <2>1 DEF PanelInv, PageSound, At
<1>3. /\ r \in Page /\ r.pc = "sending" /\ r.attempt = a
      /\ r.saved = page[t].saved /\ r.result = page[t].result
  BY PageProceeds DEF PanelInv
<1>4. /\ m \in [from : Tabs \cup {Nowhere}, cap : Caps, payload : Payloads]
      /\ m.from = t /\ m.cap = a.cap /\ a = [cap |-> m.cap, payload |-> m.payload]
  BY <1>2 DEF Attempt
<1> HIDE DEF a, r, m
<1>5. storage' = [storage EXCEPT ![t] = a] /\ forgotten \subseteq Caps
  BY <1>1, <1>2 DEF PanelInv, PageTyped
<1>6. /\ net' \subseteq [from : Tabs \cup {Nowhere}, cap : Caps, payload : Payloads]
      /\ \A n \in net' : n.from # Nowhere => (n.from # t /\ n \in net) \/ n = m
      /\ \A n \in net' : n \in net \/ n = m
  BY <1>1, <1>4 DEF PanelInv, Awaited, PageTyped
<1>7. \A n \in net' : n.from # Nowhere =>
         \/ n.from # t /\ n \in net
         \/ n.from = t /\ r.pc = "sending" /\ r.attempt = [cap |-> n.cap, payload |-> n.payload]
  BY <1>3, <1>4, <1>6
<1>8. \A n \in net' : (\E k \in net : k.cap = n.cap) \/ (a # Nothing /\ a.cap = n.cap)
  BY <1>1, <1>4, <1>6
<1>9. /\ a \in Attempt \cup {Nothing} /\ (storage[t] # Nothing /\ a # storage[t] => storage[t].cap \in forgotten')
      /\ forgotten \subseteq forgotten' /\ forgotten' \subseteq Caps /\ publication' = publication
  BY <1>1, <1>2, <1>5
<1> QED
  <2>1. /\ r \in Page /\ page' = [page EXCEPT ![t] = r] /\ storage' = [storage EXCEPT ![t] = a]
        /\ r.pc = "sending" /\ r.result = Nothing /\ a = r.attempt /\ r.saved
    BY <1>1, <1>2, <1>3, <1>5
  <2>2. net' \subseteq [from : Tabs \cup {Nowhere}, cap : Caps, payload : Payloads]
    BY <1>6
  <2> QED
    BY <2>1, <2>2, <1>7, <1>8, <1>9, TabMoves

LEMMA ForgetInv == ASSUME PanelInv, NEW t \in Tabs, ForgetPublication(t) PROVE PanelInv'
<1> DEFINE r == [page[t] EXCEPT !.attempt = Nothing, !.saved = FALSE]
<1>1. /\ At(t, "ready") /\ ~At(t, "sending") /\ page' = [page EXCEPT ![t] = r] /\ net' = net
      /\ storage' = [storage EXCEPT ![t] = Nothing]
      /\ forgotten' = forgotten \cup Stored(t) /\ UNCHANGED publication
  BY DEF ForgetPublication, At, service
<1>2. r \in Page /\ r.pc = page[t].pc /\ r.attempt = Nothing /\ r.saved = FALSE /\ r.result = page[t].result
  BY PageFields DEF PanelInv, Page
<1> HIDE DEF r
<1>3. /\ forgotten \subseteq forgotten' /\ forgotten' \subseteq Caps
      /\ storage[t] # Nothing => storage[t].cap \in forgotten'
  BY <1>1 DEF PanelInv, PageTyped, Stored, Attempt
<1>4. /\ net' \subseteq [from : Tabs \cup {Nowhere}, cap : Caps, payload : Payloads]
      /\ \A m \in net' : m.from # Nowhere => m.from # t /\ m \in net
      /\ \A m \in net' : \E n \in net : n.cap = m.cap
  BY <1>1, NoneAwaited
<1>5. Nothing \in Attempt \cup {Nothing}
  OBVIOUS
<1> QED
  BY <1>1, <1>2, <1>3, <1>4, <1>5, TabMoves DEF At

LEMMA CloseInv == ASSUME PanelInv, NEW t \in Tabs, Close(t) PROVE PanelInv'
<1>1. /\ page' = [page EXCEPT ![t] = Loading] /\ net' = Orphaned(t)
      /\ storage' = [storage EXCEPT ![t] = Nothing]
      /\ forgotten' = forgotten \cup Stored(t) /\ UNCHANGED publication
  BY DEF Close, service
<1>2. Loading \in Page /\ Loading.pc = "loading" /\ Loading.attempt = Nothing /\ Loading.result = Nothing
  BY DEF Loading, Page
<1>3. /\ forgotten \subseteq forgotten' /\ forgotten' \subseteq Caps
      /\ storage[t] # Nothing => storage[t].cap \in forgotten'
  BY <1>1 DEF PanelInv, PageTyped, Stored, Attempt
<1>4. /\ net' \subseteq [from : Tabs \cup {Nowhere}, cap : Caps, payload : Payloads]
      /\ \A m \in net' : m.from # Nowhere => m.from # t /\ m \in net
      /\ \A m \in net' : \E n \in net : n.cap = m.cap
  BY <1>1, NoneOrphaned
<1>5. Nothing \in Attempt \cup {Nothing}
  OBVIOUS
<1> QED
  BY <1>1, <1>2, <1>3, <1>4, <1>5, TabMoves

LEMMA DuplicateInv ==
    ASSUME PanelInv, NEW t \in Tabs, NEW u \in Tabs, Duplicate(t, u) PROVE PanelInv'
<1>1. /\ At(u, "loading") /\ ~At(u, "sending") /\ storage[u] = Nothing
      /\ storage' = [storage EXCEPT ![u] = storage[t]]
      /\ UNCHANGED <<publication, page, net, forgotten>>
  BY DEF Duplicate, At, service
<1>2. page[u] = Loading /\ Loading \in Page /\ page' = [page EXCEPT ![u] = Loading]
  BY <1>1 DEF PanelInv, PageSound, PageTyped
<1>3. Loading.pc = "loading" /\ Loading.attempt = Nothing /\ Loading.result = Nothing
  BY DEF Loading
<1>4. /\ net' \subseteq [from : Tabs \cup {Nowhere}, cap : Caps, payload : Payloads]
      /\ \A m \in net' : m.from # Nowhere => m.from # u /\ m \in net
      /\ \A m \in net' : \E n \in net : n.cap = m.cap
  BY <1>1, NoneAwaited
<1>5. storage[t] \in Attempt \cup {Nothing} /\ forgotten \subseteq Caps
  BY DEF PanelInv, PageTyped
<1> QED
  BY <1>1, <1>2, <1>3, <1>4, <1>5, TabMoves

-----------------------------------------------------------------------------
(* The steps of the network and of the service.                              *)

LEMMA DropInv == ASSUME PanelInv, NEW m \in net, Drop(m) PROVE PanelInv'
<1>1. net' \subseteq net /\ UNCHANGED <<publication, storage, page, forgotten>>
  BY DEF Drop, service
<1> QED
  BY <1>1 DEF PanelInv, PageTyped, Awaited, At, PageSound, AllSaved, Saved, ShownOwn

\* The others who use the service use no capability.
LEMMA ServiceStepInv == ASSUME PanelInv, ServiceStep PROVE PanelInv'
<1>1. UNCHANGED <<publication, storage, page, net, forgotten>>
  BY DEF ServiceStep, Tick, PostRoom, Create, PostClaim, Claim, PostRepublish, Republish, Change,
         DeleteRoom, PurgeRooms, Remove
<1> QED
  BY <1>1 DEF PanelInv, PageTyped, Awaited, At, PageSound, AllSaved, Saved, ShownOwn

\* A capability gets its room from a request that its tab has saved, and the
\* tab that waits for it is shown the credentials of that room.
LEMMA ServeInv == ASSUME IInv, PanelInv, NEW m \in net, Serve(m) PROVE PanelInv'
<1>1. m \in [from : Tabs \cup {Nowhere}, cap : Caps, payload : Payloads] /\ m.cap \in Caps
  BY DEF PanelInv, PageTyped
<1>2. net' = net \ {m} /\ UNCHANGED <<storage, forgotten>>
  BY DEF Serve
<1>3. /\ \A h \in Caps : h # m.cap => publication'[h] = publication[h]
      /\ publication'[m.cap] # NoRoom
      /\ publication[m.cap] # NoRoom => publication'[m.cap] = publication[m.cap]
      /\ \E creds \in Keys \X Ids : Reply(m, creds) /\ creds[2] = publication'[m.cap].room
  <2>1. CASE \E i \in Ids, k \in Keys :
               Publish(m.cap, i, k, m.payload, now) /\ Reply(m, <<k, i>>)
    <3>1. PICK i \in Ids, k \in Keys : Publish(m.cap, i, k, m.payload, now) /\ Reply(m, <<k, i>>)
      BY <2>1
    <3> DEFINE h == m.cap
               a == [room |-> i, payload |-> m.payload]
    <3>2. publication' = [publication EXCEPT ![h] = a] /\ publication[h] = NoRoom
      BY <3>1 DEF Publish
    <3>3. h \in Caps /\ <<k, i>> \in Keys \X Ids /\ a \in Publication /\ a.room = i
      BY <1>1 DEF Publication
    <3> HIDE DEF h, a
    <3>4. publication'[h] = a /\ \A g \in Caps : g # h => publication'[g] = publication[g]
      BY <3>2, <3>3 DEF IInv, TypeOK
    <3>5. a # NoRoom
      BY <3>3, DataAssumption
    <3> QED
      BY <3>1, <3>2, <3>3, <3>4, <3>5 DEF h
  <2>2. CASE /\ Replay(m.cap, m.payload)
             /\ LET i == publication[m.cap].room IN Reply(m, <<rooms[i].key, i>>)
    <3> DEFINE h == m.cap
               i == publication[h].room
               a == <<rooms[i].key, i>>
    <3>1. publication' = publication /\ publication[h] # NoRoom /\ i \in DOMAIN rooms /\ Reply(m, a)
      BY <2>2 DEF Replay, MayAnswer
    <3>2. rooms[i].key \in Keys /\ i \in Ids
      BY <3>1 DEF IInv, TypeOK, Row
    <3>3. a \in Keys \X Ids /\ a[2] = publication'[h].room
      BY <3>1, <3>2
    <3> QED
      BY <3>1, <3>3
  <2> QED
    BY <2>1, <2>2 DEF Serve
<1>4. AllSaved'
  BY <1>1, <1>2, <1>3 DEF PanelInv, AllSaved, Saved
<1>5. \A h \in Caps : publication[h] # NoRoom => publication'[h] = publication[h]
  BY <1>3
<1>6. CASE UNCHANGED page
  <2>1. PageTyped' /\ Awaited' /\ (\A t \in Tabs : PageSound(t))'
    BY <1>2, <1>6 DEF PanelInv, PageTyped, Awaited, PageSound, At
  <2>2. ShownOwn'
    <3>1. \A t \in Tabs : storage[t] # Nothing => storage[t].cap \in Caps
      BY DEF PanelInv, PageTyped, Attempt
    <3> QED
      BY <1>2, <1>5, <1>6, <3>1 DEF PanelInv, ShownOwn
  <2> QED
    BY <1>4, <2>1, <2>2 DEF PanelInv
<1>7. CASE m.from # Nowhere /\ \E creds \in Keys \X Ids :
             /\ page' = [page EXCEPT ![m.from] = [page[m.from] EXCEPT !.pc = "ready", !.result = creds]]
             /\ creds[2] = publication'[m.cap].room
  <2>1. PICK creds \in Keys \X Ids :
           /\ page' = [page EXCEPT ![m.from] = [page[m.from] EXCEPT !.pc = "ready", !.result = creds]]
           /\ creds[2] = publication'[m.cap].room
    BY <1>7
  <2>2. PICK t \in Tabs : t = m.from
    BY <1>1, <1>7
  <2> DEFINE r == [page[t] EXCEPT !.pc = "ready", !.result = creds]
  <2>3. /\ r \in Page /\ r.pc = "ready" /\ r.attempt = page[t].attempt
        /\ r.saved = page[t].saved /\ r.result = creds
    BY PageFields DEF PanelInv, Page
  <2> HIDE DEF r
  <2>4. page' = [page EXCEPT ![t] = r]
    BY <2>1, <2>2 DEF r
  <2>5. /\ page' \in [Tabs -> Page] /\ page'[t] = r
        /\ \A u \in Tabs : u # t => page'[u] = page[u]
    BY <2>3, <2>4 DEF PanelInv, PageTyped
  <2>6. At(t, "sending") /\ t # Nowhere /\ page[t].attempt = [cap |-> m.cap, payload |-> m.payload]
    BY <1>7, <2>2 DEF PanelInv, Awaited
  <2>7. page[t].attempt # Nothing /\ page[t].attempt.cap = m.cap
    BY <1>1, <2>6, PageAssumption DEF Attempt
  <2>8. PageTyped'
    BY <1>2, <2>5 DEF PanelInv, PageTyped
  <2>9. Awaited'
    <3>1. ASSUME NEW n \in net, n.from = t PROVE n = m
      <4>1. n \in [from : Tabs \cup {Nowhere}, cap : Caps, payload : Payloads]
        BY DEF PanelInv, PageTyped
      <4>2. [cap |-> n.cap, payload |-> n.payload] = [cap |-> m.cap, payload |-> m.payload]
        BY <2>6, <3>1 DEF PanelInv, Awaited
      <4>3. n.cap = m.cap /\ n.payload = m.payload
        BY <4>2
      <4> QED
        BY <1>1, <2>2, <3>1, <4>1, <4>3
    <3> QED
      BY <1>2, <2>2, <2>5, <3>1 DEF PanelInv, Awaited, At, PageTyped
  <2>10. (\A u \in Tabs : PageSound(u))'
    <3>1. PageSound(t)'
      BY <1>2, <2>3, <2>5, <2>6, <2>7 DEF PanelInv, PageSound, At
    <3>2. \A u \in Tabs : u # t => PageSound(u)'
      BY <1>2, <2>5 DEF PanelInv, PageSound, At
    <3> QED
      BY <3>1, <3>2
  <2>11. ShownOwn'
    <3>1. \A u \in Tabs : storage[u] # Nothing => storage[u].cap \in Caps
      BY DEF PanelInv, PageTyped, Attempt
    <3>2. storage[t].cap = m.cap
      BY <2>7 DEF PanelInv, PageSound
    <3>3. \A u \in Tabs : u # t /\ page[u].result # Nothing /\ storage[u] # Nothing =>
             publication'[storage[u].cap] # NoRoom /\ page[u].result[2] = publication'[storage[u].cap].room
      BY <1>5, <3>1 DEF PanelInv, ShownOwn
    <3> QED
      BY <1>2, <1>3, <2>1, <2>3, <2>5, <3>2, <3>3 DEF ShownOwn
  <2> QED
    BY <1>4, <2>8, <2>9, <2>10, <2>11 DEF PanelInv
<1> QED
  BY <1>3, <1>6, <1>7 DEF Reply

LEMMA PageNextInv == PageInv /\ [PageNext]_allVars => PageInv' /\ [Next]_vars
<1> SUFFICES ASSUME PageInv, [PageNext]_allVars PROVE PageInv' /\ [Next]_vars
  OBVIOUS
<1>1. IInv /\ PanelInv
  BY DEF PageInv
<1>2. [Next]_vars
  <2>1. CASE UNCHANGED allVars
    BY <2>1 DEF allVars, service, vars
  <2> QED
    BY <1>1, <2>1, PageOperation DEF PanelInv
<1>3. IInv'
  BY <1>1, <1>2, NextInv
<1>4. PanelInv'
  <2>1. CASE UNCHANGED allVars
    BY <1>1, <2>1 DEF allVars, service, PanelInv, PageTyped, Awaited, At, PageSound, AllSaved, Saved, ShownOwn
  <2>2. ASSUME NEW t \in Tabs, Load(t) \/ Choose(t) \/ SaveAndSend(t) \/ Recover(t) \/ GiveUp(t)
        PROVE  PanelInv'
    BY <1>1, <2>2, LoadInv, ChooseInv, SaveAndSendInv, RecoverInv, GiveUpInv
  <2>3. ASSUME NEW t \in Tabs,
               ForgetPublication(t) \/ Reload(t) \/ Close(t) \/ \E u \in Tabs \ {t} : Duplicate(t, u)
        PROVE  PanelInv'
    BY <1>1, <2>3, ForgetInv, ReloadInv, CloseInv, DuplicateInv
  <2>4. ASSUME NEW m \in net, Serve(m) \/ Drop(m) PROVE PanelInv'
    BY <1>1, <2>4, ServeInv, DropInv
  <2>5. CASE ServiceStep
    BY <1>1, <2>5, ServiceStepInv
  <2> QED
    BY <2>1, <2>2, <2>3, <2>4, <2>5 DEF PageNext
<1> QED
  BY <1>2, <1>3, <1>4 DEF PageInv

-----------------------------------------------------------------------------
\* The invariant that carries the theorems below.
THEOREM PageInvariance == PageSpec => []PageInv
<1> QED
  BY PageInitInv, PageNextInv, PTL DEF PageSpec

\* Types; and what may have been published is still saved in a tab, until the
\* host discards it or closes the tab.
THEOREM PageKeepsAttempts == PageSpec => []AttemptKept
<1>1. PageInv => AttemptKept
  <2> SUFFICES ASSUME PageInv PROVE AttemptKept
    OBVIOUS
  <2>1. PageTypeOK
    BY PageFields DEF PageInv, PanelInv, PageTypeOK, PageTyped, Awaited, Page
  <2> QED
    BY <2>1 DEF PageInv, PanelInv, AttemptKept, AllSaved, Saved
<1> QED
  BY PageInvariance, <1>1, PTL

\* The token a tab shows is that of the publication it has saved.
THEOREM PageShowsOwn == PageSpec => []ShownOwn
<1>1. PageInv => ShownOwn
  BY DEF PageInv, PanelInv
<1> QED
  BY PageInvariance, <1>1, PTL

\* Whatever the tabs do, the service they share with everyone else is the one
\* RoomService describes, ...
THEOREM PageUsesService == PageSpec => Spec
<1>1. PageInit => Init
  BY DEF PageInit
<1>2. PageInv /\ [PageNext]_allVars => [Next]_vars
  BY PageNextInv
<1> QED
  BY PageInvariance, <1>1, <1>2, PTL DEF PageSpec, Spec

\* ... so that it keeps what it promises while many pages retry: each
\* capability gets one room, rooms are sound and nothing removed returns.
THEOREM PageServicePromises ==
    PageSpec => [](RoomsSound /\ OneRoomPerCapability) /\ NothingReturns
<1> QED
  BY PageUsesService, ServiceRoomsSound, ServiceOneRoom, ServiceEvolves, PTL
=============================================================================
