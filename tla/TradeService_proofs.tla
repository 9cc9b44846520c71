------------------------- MODULE TradeService_proofs -------------------------
(***************************************************************************)
(* Proofs about TradeService, for any characters, items, wallets and       *)
(* offers: no item is lost in a container, items change hands only in a    *)
(* trade, trades are made and paid only as agreed, a trade that goes       *)
(* through makes no money, and m_activeSessions holds open sessions only.  *)
(***************************************************************************)
EXTENDS TradeService, SumTheorems

\* A party of a trade that was made no longer points to its session, so that
\* only outsiders can still reach it.
PartyNotTraded ==
    \A c \in Chars :
      ts[c] # 0 /\ c \in Parties(ts[c]) => session[ts[c]].status # "traded"

\* HeldIsListed, with the session being one that exists.
Held ==
    \A i \in Items :
      server = "up" /\ location[i] # 0 =>
        /\ location[i] \in Created
        /\ session[location[i]].status = "open"
        /\ i \in Listed(location[i])

\* The states of a session and the history of who accepted.  A character that
\* trades with itself is only ever "my".
AcceptedIn(s) ==
    /\ agreed[s] \subseteq Parties(s)
    /\ session[s].status = "open" =>
         /\ session[s].myState => session[s].my \in agreed[s]
         /\ session[s].herState /\ session[s].my # session[s].her =>
              session[s].her \in agreed[s]
    /\ session[s].status = "traded" => agreed[s] = Parties(s)

Accepted == \A s \in Created : AcceptedIn(s)

\* Everything but the types, and what of it does not look at the items.
Books == ActiveIsOpen /\ PartyNotTraded /\ Accepted

Inv == TypeOK /\ Books /\ Held

-----------------------------------------------------------------------------
(* One session changes, the parties and the other sessions stay.           *)

Edited(s, new) ==
    /\ DOMAIN session' = DOMAIN session
    /\ session'[s] = new
    /\ new \in Session
    /\ new.my = session[s].my
    /\ new.her = session[s].her
    /\ \A r \in Created \ {s} : session'[r] = session[r]

LEMMA EditedSessions ==
    ASSUME TypeOK, NEW s \in Created, NEW new, Edited(s, new)
    PROVE  /\ Created' = Created
           /\ \A r \in Created : session'[r] \in Session
           /\ \A r \in Created : Parties(r)' = Parties(r)
  BY DEF TypeOK, Edited, Created, Parties

\* The types of the sessions in a step that edits one.
LEMMA EditedTypes ==
    ASSUME TypeOK, NEW s \in Created, NEW new, Edited(s, new)
    PROVE  Created' \subseteq Ids /\ \A r \in Created' : session'[r] \in Session
  BY EditedSessions DEF TypeOK

LEMMA FieldTypes ==
    ASSUME TypeOK, NEW s \in Created
    PROVE  /\ session[s].my \in Chars /\ session[s].her \in Chars
           /\ session[s].status \in {"open", "traded", "deleted"}
           /\ session[s].myState \in BOOLEAN /\ session[s].herState \in BOOLEAN
           /\ session[s].myMoney \in Amounts \cup {0}
           /\ session[s].herMoney \in Amounts \cup {0}
           /\ session[s].tradelist \subseteq Items \X Chars
           /\ Parties(s) \subseteq Chars
           /\ s \in Ids
  BY DEF TypeOK, Session, Parties

\* The session a call is about, and what is known of it.
LEMMA CallOfParty ==
    ASSUME Inv, NEW c \in Chars, Party(c)
    PROVE  /\ ts[c] \in Created
           /\ session[ts[c]].status = "open"
           /\ c = session[ts[c]].my \/ c = session[ts[c]].her
  <1>1. Usable(c) /\ c \in Parties(ts[c])
    BY DEF Party, AnyMissing
  <1>2. ts[c] \in Created /\ session[ts[c]].status # "deleted"
    BY <1>1 DEF Usable, Inv, TypeOK
  <1>3. session[ts[c]].status # "traded"
    BY <1>1 DEF Inv, Books, PartyNotTraded, Usable
  <1> QED
    BY <1>1, <1>2, <1>3, FieldTypes DEF Inv, Parties

\* Nothing is claimed after undefined behaviour but the types.
LEMMA UndefinedInv == Inv /\ Undefined => Inv'
  <1> SUFFICES ASSUME Inv, Undefined PROVE Inv'
    OBVIOUS
  <1>1. Created' = {}
    BY DEF Undefined, Created
  <1>2. TypeOK'
    <2>1. server' = "undefined" /\ pending' = {} /\ bound' = {}
      BY DEF Undefined
    <2>2. place' \in [Chars -> Place]
      BY DEF Undefined, Place
    <2>3. ts' \in [Chars -> {0}] /\ active' \in [Chars -> {0}]
      BY DEF Undefined
    <2>4. agreed' \in [Ids -> SUBSET Chars] /\ taken' \in [Ids -> BOOLEAN]
      BY DEF Undefined
    <2>5. UNCHANGED <<owner, location, wallet>>
      BY DEF Undefined
    <2> QED
      BY <1>1, <2>1, <2>2, <2>3, <2>4, <2>5 DEF Inv, TypeOK
  <1>3. ActiveIsOpen' /\ PartyNotTraded' /\ Accepted'
    BY <1>1 DEF Undefined, ActiveIsOpen, PartyNotTraded, Accepted
  <1>4. Held'
    BY DEF Undefined, Held
  <1> QED
    BY <1>2, <1>3, <1>4 DEF Inv, Books

-----------------------------------------------------------------------------
(* What the ways to change a session do to the books and the containers.   *)

\* The session stays open.
LEMMA BooksEdited ==
    ASSUME Inv, NEW s \in Created, session[s].status = "open",
           NEW new, Edited(s, new), new.status = "open",
           UNCHANGED <<ts, active>>,
           \A r \in Created \ {s} : agreed'[r] = agreed[r],
           AcceptedIn(s)'
    PROVE  Books'
  <1>1. /\ Created' = Created
        /\ \A r \in Created : Parties(r)' = Parties(r)
    BY EditedSessions DEF Inv
  <1>2. \A r \in Created : session'[r].status = session[r].status
    BY DEF Edited
  <1>3. ActiveIsOpen'
    BY <1>1, <1>2 DEF Inv, Books, ActiveIsOpen, TypeOK
  <1>4. PartyNotTraded'
    BY <1>1, <1>2 DEF Inv, Books, PartyNotTraded, TypeOK
  <1>5. \A r \in Created \ {s} : AcceptedIn(r)'
    BY <1>1 DEF Inv, Books, Accepted, AcceptedIn, Edited
  <1> QED
    BY <1>1, <1>3, <1>4, <1>5 DEF Books, Accepted

\* The session is traded or deleted, and taken out of the books.
LEMMA BooksClosed ==
    ASSUME Inv, NEW s \in Created,
           NEW new, Edited(s, new), new.status \in {"traded", "deleted"},
           NEW clients,
           new.status = "traded" => Parties(s) \subseteq clients,
           ts' = NoneOf(ts, clients),
           active' = NoneOf(active, Parties(s)),
           \A r \in Created \ {s} : agreed'[r] = agreed[r],
           AcceptedIn(s)'
    PROVE  Books'
  <1>1. /\ Created' = Created
        /\ \A r \in Created : Parties(r)' = Parties(r)
    BY EditedSessions DEF Inv
  <1>2. \A r \in Created \ {s} : session'[r] = session[r]
    BY DEF Edited
  <1>3. ActiveIsOpen'
    <2> SUFFICES ASSUME NEW c \in Chars, active'[c] # 0
                 PROVE  /\ c \in Parties(active[c])'
                        /\ session'[active'[c]].status = "open"
      BY DEF ActiveIsOpen
    <2>1. active'[c] = active[c] /\ c \notin Parties(s)
      BY DEF NoneOf
    <2>2. c \in Parties(active[c]) /\ session[active[c]].status = "open"
      BY <2>1 DEF Inv, Books, ActiveIsOpen
    <2>3. active[c] \in Created \ {s}
      BY <2>1, <2>2 DEF Inv, TypeOK
    <2> QED
      BY <1>1, <1>2, <2>1, <2>2, <2>3
  <1>4. PartyNotTraded'
    <2> SUFFICES ASSUME NEW c \in Chars, ts'[c] # 0, c \in Parties(ts[c])'
                 PROVE  session'[ts'[c]].status # "traded"
      BY DEF PartyNotTraded, Parties
    <2>1. ts'[c] = ts[c] /\ c \notin clients
      BY DEF NoneOf
    <2>2. ts[c] \in Created
      BY <2>1 DEF Inv, TypeOK
    <2>3. c \in Parties(ts[c])
      BY <1>1, <2>1, <2>2 DEF Parties
    <2>4. CASE ts[c] = s
      BY <2>1, <2>3, <2>4 DEF Edited
    <2>5. CASE ts[c] # s
      BY <1>2, <2>1, <2>2, <2>3, <2>5 DEF Inv, Books, PartyNotTraded
    <2> QED
      BY <2>4, <2>5
  <1>5. \A r \in Created \ {s} : AcceptedIn(r)'
    BY <1>1 DEF Inv, Books, Accepted, AcceptedIn, Edited
  <1> QED
    BY <1>1, <1>3, <1>4, <1>5 DEF Books, Accepted

\* No item moves, and the list of the edited session only grows.
LEMMA HeldEdited ==
    ASSUME Inv, NEW s \in Created, NEW new, Edited(s, new),
           new.status = "open",
           session[s].tradelist \subseteq new.tradelist,
           UNCHANGED <<server, owner, location>>
    PROVE  Held'
  <1>1. Created' = Created
    BY EditedSessions DEF Inv
  <1>2. \A r \in Created : Listed(r) \subseteq Listed(r)'
    BY DEF Listed, Edited
  <1>3. \A r \in Created : session[r].status = "open" => session'[r].status = "open"
    BY DEF Edited
  <1> QED
    BY <1>1, <1>2, <1>3 DEF Inv, Held

\* The listed items leave the container of a session that ends.
LEMMA HeldClosed ==
    ASSUME Inv, NEW s \in Created, NEW new, Edited(s, new),
           location' = [i \in Items |-> IF i \in Listed(s) THEN 0 ELSE location[i]],
           UNCHANGED server
    PROVE  Held'
  <1>1. Created' = Created
    BY EditedSessions DEF Inv
  <1> SUFFICES ASSUME NEW i \in Items, server' = "up", location'[i] # 0
               PROVE  /\ location'[i] \in Created
                      /\ session'[location'[i]].status = "open"
                      /\ i \in Listed(location[i])'
    BY <1>1 DEF Held
  <1>2. i \notin Listed(s) /\ location'[i] = location[i]
    OBVIOUS
  <1>3. /\ location[i] \in Created
        /\ session[location[i]].status = "open"
        /\ i \in Listed(location[i])
    BY <1>2 DEF Inv, Held
  <1>4. location[i] # s
    BY <1>2, <1>3
  <1>5. session'[location[i]] = session[location[i]]
    BY <1>3, <1>4 DEF Edited
  <1> QED
    BY <1>2, <1>3, <1>5 DEF Listed

-----------------------------------------------------------------------------
(* Opening a trade, and moving about without one.                          *)

\* Steps that leave sessions, items and money alone.
LEMMA QuietInv ==
    ASSUME Inv,
           UNCHANGED <<server, session, ts, active, owner, location, wallet,
                       agreed, taken>>,
           place' \in [Chars -> Place],
           pending' \subseteq Chars \X Chars \X Chars,
           bound' \subseteq Chars
    PROVE  Inv'
  <1>1. TypeOK'
    BY DEF Inv, TypeOK, Created
  <1>2. ActiveIsOpen' /\ PartyNotTraded'
    BY DEF Inv, Books, ActiveIsOpen, PartyNotTraded, Parties
  <1>3. Accepted'
    BY DEF Inv, Books, Accepted, AcceptedIn, Parties, Created
  <1>4. Held'
    BY DEF Inv, Held, Created, Listed
  <1> QED
    BY <1>1, <1>2, <1>3, <1>4 DEF Inv, Books

LEMMA InitiateTradeInv ==
    ASSUME Inv, NEW c \in Chars, NEW target \in Chars, InitiateTrade(c, target)
    PROVE  Inv'
  <1>1. CASE Undefined
    BY <1>1, UndefinedInv
  <1>2. CASE /\ pending' = pending \cup {<<c, target, c>>, <<c, target, target>>}
             /\ UNCHANGED <<server, place, bound, session, ts, active, owner,
                            location, wallet, agreed, taken>>
    BY <1>2, QuietInv DEF Inv, TypeOK
  <1> QED
    BY <1>1, <1>2 DEF InitiateTrade

LEMMA ArriveInv ==
    ASSUME Inv, NEW c \in Chars, Arrive(c)
    PROVE  Inv'
  <1>1. place' \in [Chars -> Place]
    BY DEF Arrive, Inv, TypeOK, Place
  <1> QED
    BY <1>1, QuietInv DEF Arrive, Inv, TypeOK

\* The client is given the session of `my', which is open, or a new one.
LEMMA CreateBoundObjectInv ==
    ASSUME Inv, NEW c \in Chars, NEW my \in Chars, NEW her \in Chars,
           NEW myMoney \in Amounts, NEW herMoney \in Amounts,
           CreateBoundObject(c, my, her, myMoney, herMoney)
    PROVE  Inv'
  <1>1. /\ UNCHANGED <<server, place, owner, location, wallet>>
        /\ pending' \subseteq pending
        /\ bound' = bound \cup {c}
    BY DEF CreateBoundObject
  <1>2. CASE /\ active[my] # 0
             /\ ts' = [ts EXCEPT ![c] = active[my]]
             /\ UNCHANGED <<session, active, agreed, taken>>
    <2>1. active[my] \in Created /\ session[active[my]].status = "open"
      BY <1>2 DEF Inv, TypeOK, Books, ActiveIsOpen
    <2>2. Created' = Created
      BY <1>2 DEF Created
    <2>3. TypeOK'
      BY <1>1, <1>2, <2>1, <2>2 DEF Inv, TypeOK
    <2>4. ActiveIsOpen'
      BY <1>2 DEF Inv, Books, ActiveIsOpen, Parties
    <2>5. PartyNotTraded'
      BY <1>2, <2>1 DEF Inv, TypeOK, Books, PartyNotTraded, Parties
    <2>6. Accepted'
      BY <1>2, <2>2 DEF Inv, Books, Accepted, AcceptedIn, Parties
    <2>7. Held'
      BY <1>1, <1>2, <2>2 DEF Inv, Held, Listed
    <2> QED
      BY <2>3, <2>4, <2>5, <2>6, <2>7 DEF Inv, Books
  <1>3. CASE active[my] = 0
    <2>1. PICK s \in Ids \ Created :
            /\ session' = [r \in Created \cup {s} |->
                             IF r = s THEN NewSession(my, her, myMoney, herMoney)
                                      ELSE session[r]]
            /\ ts' = [ts EXCEPT ![c] = s]
            /\ active' = [a \in Chars |->
                            IF a \in {my, her} /\ active[a] = 0 THEN s ELSE active[a]]
            /\ agreed' = [agreed EXCEPT ![s] = {}]
            /\ taken' = [taken EXCEPT ![s] = FALSE]
      BY <1>3 DEF CreateBoundObject
    <2>2. Created' = Created \cup {s}
      BY <2>1 DEF Created
    <2>3. /\ session'[s] = NewSession(my, her, myMoney, herMoney)
          /\ \A r \in Created : session'[r] = session[r]
      BY <2>1
    <2>4. NewSession(my, her, myMoney, herMoney) \in Session
      BY DEF NewSession, Session
    <2>5. \A r \in Created : Parties(r)' = Parties(r) /\ agreed'[r] = agreed[r]
      BY <2>1, <2>3 DEF Parties, Inv, TypeOK
    <2>6. Parties(s)' = {my, her}
      BY <2>3 DEF Parties, NewSession
    <2>7. TypeOK'
      <3>1. Created' \subseteq Ids /\ \A r \in Created' : session'[r] \in Session
        BY <2>2, <2>3, <2>4 DEF Inv, TypeOK
      <3>2. ts' \in [Chars -> Created' \cup {0}] /\ active' \in [Chars -> Created' \cup {0}]
        BY <2>1, <2>2 DEF Inv, TypeOK
      <3>3. agreed' \in [Ids -> SUBSET Chars] /\ taken' \in [Ids -> BOOLEAN]
        BY <2>1 DEF Inv, TypeOK
      <3> QED
        BY <1>1, <3>1, <3>2, <3>3 DEF Inv, TypeOK
    <2>8. s # 0 /\ s \notin Created
      BY DEF Ids
    <2>9. ActiveIsOpen'
      <3> SUFFICES ASSUME NEW a \in Chars, active'[a] # 0
                   PROVE  /\ a \in Parties(active[a])'
                          /\ session'[active'[a]].status = "open"
        BY DEF ActiveIsOpen
      <3>1. CASE active'[a] = s /\ a \in {my, her}
        BY <2>3, <2>6, <3>1 DEF NewSession, Parties
      <3>2. CASE active'[a] = active[a]
        <4>1. a \in Parties(active[a]) /\ session[active[a]].status = "open"
          BY <3>2 DEF Inv, Books, ActiveIsOpen
        <4>2. active[a] \in Created
          BY <3>2 DEF Inv, TypeOK
        <4> QED
          BY <2>3, <3>2, <4>1, <4>2 DEF Parties
      <3> QED
        BY <2>1, <3>1, <3>2
    <2>10. PartyNotTraded'
      <3> SUFFICES ASSUME NEW a \in Chars, ts'[a] # 0, a \in Parties(ts[a])'
                   PROVE  session'[ts'[a]].status # "traded"
        BY DEF PartyNotTraded
      <3>1. CASE ts'[a] = s
        BY <2>3, <3>1 DEF NewSession
      <3>2. CASE ts'[a] = ts[a] /\ ts[a] # s
        <4>1. ts[a] \in Created
          BY <3>2 DEF Inv, TypeOK
        <4>2. a \in Parties(ts[a])
          BY <2>3, <3>2, <4>1 DEF Parties
        <4> QED
          BY <2>3, <3>2, <4>1, <4>2 DEF Inv, Books, PartyNotTraded
      <3> QED
        BY <2>1, <3>1, <3>2 DEF Inv, TypeOK
    <2>11. Accepted'
      <3>1. \A r \in Created : AcceptedIn(r)'
        BY <2>3, <2>5 DEF Inv, Books, Accepted, AcceptedIn
      <3>2. AcceptedIn(s)'
        BY <2>1, <2>3 DEF AcceptedIn, NewSession, Inv, TypeOK
      <3> QED
        BY <2>2, <3>1, <3>2 DEF Accepted
    <2>12. Held'
      <3>1. \A r \in Created : Listed(r)' = Listed(r)
        BY <2>3 DEF Listed
      <3> QED
        BY <1>1, <2>2, <2>3, <3>1 DEF Inv, Held
    <2> QED
      BY <2>7, <2>9, <2>10, <2>11, <2>12 DEF Inv, Books
  <1> QED
    BY <1>2, <1>3 DEF CreateBoundObject

-----------------------------------------------------------------------------
(* Changes of the offer.                                                   *)

\* The two updates of a session record, field by field.
LEMMA MoneyOffered ==
    ASSUME TypeOK, NEW s \in Created, NEW amount \in Amounts, NEW mine \in BOOLEAN,
           session' = [session EXCEPT
             ![s].myMoney = IF mine THEN amount ELSE @,
             ![s].herMoney = IF mine THEN @ ELSE amount,
             ![s].myState = FALSE,
             ![s].herState = FALSE]
    PROVE  /\ Edited(s, session'[s])
           /\ session'[s].status = session[s].status
           /\ session'[s].myState = FALSE /\ session'[s].herState = FALSE
           /\ session'[s].tradelist = session[s].tradelist
  <1> DEFINE new == [session[s] EXCEPT !.myMoney = IF mine THEN amount ELSE @,
                                       !.herMoney = IF mine THEN @ ELSE amount,
                                       !.myState = FALSE,
                                       !.herState = FALSE]
  <1>1. session'[s] = new
    BY DEF TypeOK, Created
  <1>2. /\ new \in Session /\ new.my = session[s].my /\ new.her = session[s].her
        /\ new.status = session[s].status
        /\ new.myState = FALSE /\ new.herState = FALSE
        /\ new.tradelist = session[s].tradelist
    BY ZenonT(40) DEF TypeOK, Session
  <1> QED
    BY <1>1, <1>2 DEF Edited, Created

LEMMA ItemsListed ==
    ASSUME TypeOK, NEW s \in Created, NEW entries \in SUBSET (Items \X Chars),
           session' = [session EXCEPT
             ![s].tradelist = entries,
             ![s].myState = FALSE,
             ![s].herState = FALSE]
    PROVE  /\ Edited(s, session'[s])
           /\ session'[s].status = session[s].status
           /\ session'[s].myState = FALSE /\ session'[s].herState = FALSE
           /\ session'[s].tradelist = entries
  <1> DEFINE new == [session[s] EXCEPT !.tradelist = entries,
                                       !.myState = FALSE,
                                       !.herState = FALSE]
  <1>1. session'[s] = new
    BY DEF TypeOK, Created
  <1>2. /\ new \in Session /\ new.my = session[s].my /\ new.her = session[s].her
        /\ new.status = session[s].status
        /\ new.myState = FALSE /\ new.herState = FALSE
        /\ new.tradelist = entries
    BY ZenonT(40) DEF TypeOK, Session
  <1> QED
    BY <1>1, <1>2 DEF Edited, Created

LEMMA OfferMoneyInv ==
    ASSUME Inv, NEW c \in Chars, NEW amount \in Amounts, OfferMoney(c, amount)
    PROVE  Inv'
  <1>1. CASE Undefined
    BY <1>1, UndefinedInv
  <1>2. CASE /\ Party(c)
             /\ session' = [session EXCEPT
                  ![ts[c]].myMoney = IF c = session[ts[c]].my THEN amount ELSE @,
                  ![ts[c]].herMoney = IF c = session[ts[c]].my THEN @ ELSE amount,
                  ![ts[c]].myState = FALSE,
                  ![ts[c]].herState = FALSE]
             /\ agreed' = [agreed EXCEPT ![ts[c]] = {}]
             /\ UNCHANGED <<server, place, pending, bound, ts, active, owner,
                            location, wallet, taken>>
    <2>1. PICK s \in Created : s = ts[c]
      BY <1>2, CallOfParty
    <2>2. session[s].status = "open"
      BY <1>2, <2>1, CallOfParty
    <2>3. /\ Edited(s, session'[s])
          /\ session'[s].status = "open"
          /\ session'[s].myState = FALSE /\ session'[s].herState = FALSE
          /\ session'[s].tradelist = session[s].tradelist
      <3>1. PICK mine \in BOOLEAN : mine = (c = session[s].my)
        OBVIOUS
      <3>2. session' = [session EXCEPT
              ![s].myMoney = IF mine THEN amount ELSE @,
              ![s].herMoney = IF mine THEN @ ELSE amount,
              ![s].myState = FALSE,
              ![s].herState = FALSE]
        BY <1>2, <2>1, <3>1
      <3> QED
        BY <2>2, <3>2, MoneyOffered DEF Inv
    <2>4. agreed'[s] = {} /\ \A r \in Created \ {s} : agreed'[r] = agreed[r]
      BY <1>2, <2>1 DEF Inv, TypeOK
    <2>5. AcceptedIn(s)'
      BY <2>3, <2>4 DEF AcceptedIn
    <2>6. Books'
      BY <1>2, <2>2, <2>3, <2>4, <2>5, BooksEdited
    <2>7. Held'
      BY <1>2, <2>3, HeldEdited
    <2>8. TypeOK'
      <3>1. Created' \subseteq Ids /\ \A r \in Created' : session'[r] \in Session
        BY <2>3, EditedTypes DEF Inv
      <3>2. Created' = Created
        BY <2>3, EditedSessions DEF Inv
      <3>3. agreed' \in [Ids -> SUBSET Chars]
        BY <1>2 DEF Inv, TypeOK
      <3> QED
        BY <1>2, <3>1, <3>2, <3>3 DEF Inv, TypeOK
    <2> QED
      BY <2>6, <2>7, <2>8 DEF Inv
  <1> QED
    BY <1>1, <1>2 DEF OfferMoney

\* What Add writes into session s: the list with the new entries, which holds
\* every item it held before and the new ones.
LEMMA AddEdits ==
    ASSUME TypeOK, NEW s \in Created, NEW c \in Chars, NEW items \in SUBSET Items,
           session' = [session EXCEPT
             ![s].tradelist = Appended(@, items, c),
             ![s].myState = FALSE,
             ![s].herState = FALSE]
    PROVE  /\ Edited(s, session'[s])
           /\ session'[s].status = session[s].status
           /\ session'[s].myState = FALSE /\ session'[s].herState = FALSE
           /\ Listed(s) \cup items \subseteq Listed(s)'
  <1> DEFINE entries == Appended(session[s].tradelist, items, c)
  <1>1. entries \in SUBSET (Items \X Chars)
    BY FieldTypes DEF Appended
  <1>2. session' = [session EXCEPT ![s].tradelist = entries,
                                   ![s].myState = FALSE,
                                   ![s].herState = FALSE]
    OBVIOUS
  <1>3. Listed(s) \cup items \subseteq {entry[1] : entry \in entries}
    <2>1. ASSUME NEW i \in items PROVE i \in {entry[1] : entry \in entries}
      <3>1. <<i, c>> \in entries /\ <<i, c>>[1] = i
        BY DEF Appended
      <3> QED
        BY <3>1
    <2>2. ASSUME NEW entry \in session[s].tradelist, entry[1] \notin items
          PROVE  entry \in entries
      BY <2>2 DEF Appended
    <2> QED
      BY <2>1, <2>2 DEF Listed
  <1> HIDE DEF entries
  <1>4. /\ Edited(s, session'[s])
        /\ session'[s].status = session[s].status
        /\ session'[s].myState = FALSE /\ session'[s].herState = FALSE
        /\ session'[s].tradelist = entries
    BY <1>1, <1>2, ItemsListed
  <1> QED
    BY <1>3, <1>4 DEF Listed

LEMMA AddInv ==
    ASSUME Inv, NEW c \in Chars, NEW items \in SUBSET Items, Add(c, items)
    PROVE  Inv'
  <1>1. CASE Undefined
    BY <1>1, UndefinedInv
  <1>2. CASE /\ Party(c)
             /\ location' = [i \in Items |->
                               IF i \in items THEN ts[c] ELSE location[i]]
             /\ session' = [session EXCEPT
                  ![ts[c]].tradelist = Appended(@, items, c),
                  ![ts[c]].myState = FALSE,
                  ![ts[c]].herState = FALSE]
             /\ agreed' = [agreed EXCEPT ![ts[c]] = {}]
             /\ UNCHANGED <<server, place, pending, bound, ts, active, owner,
                            wallet, taken>>
    <2>1. PICK s \in Created : s = ts[c]
      BY <1>2, CallOfParty
    <2>2. session[s].status = "open"
      BY <1>2, <2>1, CallOfParty
    <2>3. /\ Edited(s, session'[s])
          /\ session'[s].status = "open"
          /\ session'[s].myState = FALSE /\ session'[s].herState = FALSE
          /\ Listed(s) \cup items \subseteq Listed(s)'
      <3>1. session' = [session EXCEPT ![s].tradelist = Appended(@, items, c),
                                       ![s].myState = FALSE,
                                       ![s].herState = FALSE]
        BY <1>2, <2>1
      <3> QED
        BY <2>2, <3>1, AddEdits DEF Inv
    <2>4. agreed'[s] = {} /\ \A r \in Created \ {s} : agreed'[r] = agreed[r]
      BY <1>2, <2>1 DEF Inv, TypeOK
    <2>5. AcceptedIn(s)'
      BY <2>3, <2>4 DEF AcceptedIn
    <2>6. Books'
      BY <1>2, <2>2, <2>3, <2>4, <2>5, BooksEdited
    <2>7. Created' = Created
      BY <2>3, EditedSessions DEF Inv
    <2>8. Held'
      <3> SUFFICES ASSUME NEW i \in Items, server' = "up", location'[i] # 0
                   PROVE  /\ location'[i] \in Created
                          /\ session'[location'[i]].status = "open"
                          /\ i \in Listed(location[i])'
        BY <2>7 DEF Held
      <3>1. CASE i \in items
        <4>1. location'[i] = s
          BY <1>2, <2>1, <3>1
        <4> QED
          BY <2>3, <3>1, <4>1 DEF Listed
      <3>2. CASE i \notin items
        <4>1. location'[i] = location[i] /\ server = "up"
          BY <1>2, <3>2
        <4>2. /\ location[i] \in Created
              /\ session[location[i]].status = "open"
              /\ i \in Listed(location[i])
          BY <4>1 DEF Inv, Held
        <4>3. CASE location[i] = s
          BY <2>3, <4>1, <4>2, <4>3 DEF Listed
        <4>4. CASE location[i] # s
          <5>1. session'[location[i]] = session[location[i]]
            BY <2>3, <4>2, <4>4 DEF Edited
          <5> QED
            BY <4>1, <4>2, <5>1 DEF Listed
        <4> QED
          BY <4>3, <4>4
      <3> QED
        BY <3>1, <3>2
    <2>9. TypeOK'
      <3>1. Created' \subseteq Ids /\ \A r \in Created' : session'[r] \in Session
        BY <2>3, EditedTypes DEF Inv
      <3>2. location' \in [Items -> Ids \cup {0}]
        BY <1>2, <2>1 DEF Inv, TypeOK
      <3>3. agreed' \in [Ids -> SUBSET Chars]
        BY <1>2 DEF Inv, TypeOK
      <3> QED
        BY <1>2, <2>7, <3>1, <3>2, <3>3 DEF Inv, TypeOK
    <2> QED
      BY <2>6, <2>8, <2>9 DEF Inv
  <1> QED
    BY <1>1, <1>2 DEF Add

-----------------------------------------------------------------------------
(* A trade is called off.                                                  *)

LEMMA CancelInv ==
    ASSUME Inv, NEW s \in Created, NEW clients, Cancel(s, clients),
           UNCHANGED <<server, owner, wallet, taken>>,
           place' \in [Chars -> Place],
           pending' \subseteq Chars \X Chars \X Chars,
           bound' \subseteq Chars
    PROVE  Inv'
  <1> DEFINE new == [NewSession(session[s].my, session[s].her, 0, 0)
                       EXCEPT !.status = "deleted"]
  <1>1. new \in Session /\ new.my = session[s].my /\ new.her = session[s].her
        /\ new.status = "deleted"
    BY FieldTypes DEF Inv, NewSession, Session
  <1>2. Edited(s, new)
    BY <1>1 DEF Cancel, Edited, Created
  <1>3. agreed'[s] = {} /\ \A r \in Created \ {s} : agreed'[r] = agreed[r]
    BY DEF Cancel, Inv, TypeOK
  <1>4. AcceptedIn(s)'
    BY <1>1, <1>2, <1>3 DEF AcceptedIn, Edited
  <1> HIDE DEF new
  <1>5. Books'
    BY <1>1, <1>2, <1>3, <1>4, BooksClosed DEF Cancel
  <1>6. Held'
    BY <1>2, HeldClosed DEF Cancel
  <1>7. TypeOK'
    <2>1. Created' \subseteq Ids /\ \A r \in Created' : session'[r] \in Session
      BY <1>2, EditedTypes DEF Inv
    <2>2. Created' = Created
      BY <1>2, EditedSessions DEF Inv
    <2>3. location' \in [Items -> Ids \cup {0}]
      BY DEF Cancel, Inv, TypeOK
    <2>4. ts' \in [Chars -> Created' \cup {0}] /\ active' \in [Chars -> Created' \cup {0}]
      BY <2>2 DEF Cancel, NoneOf, Inv, TypeOK
    <2>5. agreed' \in [Ids -> SUBSET Chars]
      BY DEF Cancel, Inv, TypeOK
    <2> QED
      BY <2>1, <2>3, <2>4, <2>5 DEF Inv, TypeOK
  <1> QED
    BY <1>5, <1>6, <1>7 DEF Inv

LEMMA AbortInv ==
    ASSUME Inv, NEW c \in Chars, Abort(c)
    PROVE  Inv'
  <1>1. CASE Undefined
    BY <1>1, UndefinedInv
  <1>2. CASE /\ ~ AnyMissing(c)
             /\ Cancel(ts[c], Parties(ts[c]))
             /\ UNCHANGED <<server, place, pending, bound, owner, wallet, taken>>
    <2>1. ts[c] \in Created
      BY <1>2 DEF AnyMissing, Usable, Inv, TypeOK
    <2> QED
      BY <1>2, <2>1, CancelInv DEF Inv, TypeOK
  <1> QED
    BY <1>1, <1>2 DEF Abort

LEMMA LeaveInv ==
    ASSUME Inv, NEW c \in Chars, NEW newPlace \in Place, Leave(c, newPlace)
    PROVE  Inv'
  <1>1. CASE Undefined
    BY <1>1, UndefinedInv
  <1>2. CASE ~ Undefined
    <2>1. /\ place' = [place EXCEPT ![c] = newPlace]
          /\ bound' = IF newPlace = "offline" THEN bound \ {c} ELSE bound
          /\ pending' = {p \in pending : p[3] # c}
          /\ UNCHANGED <<server, owner, wallet, taken>>
      BY <1>2 DEF Leave
    <2>2. /\ place' \in [Chars -> Place]
          /\ pending' \subseteq Chars \X Chars \X Chars
          /\ bound' \subseteq Chars
      BY <2>1 DEF Inv, TypeOK
    <2>3. CASE ts[c] = 0
      BY <1>2, <2>1, <2>2, <2>3, QuietInv DEF Leave
    <2>4. CASE ts[c] # 0
      <3>1. ts[c] \in Created
        BY <2>4 DEF Inv, TypeOK
      <3>2. Cancel(ts[c], {c, session[ts[c]].her})
        BY <1>2, <2>4 DEF Leave
      <3> QED
        BY <2>1, <2>2, <3>1, <3>2, CancelInv
    <2> QED
      BY <2>3, <2>4
  <1> QED
    BY <1>1, <1>2

-----------------------------------------------------------------------------
(* A trade is accepted.                                                    *)

\* What states are written into the session, field by field, while it stays
\* open and when it is traded.
Stated(s, new, a, b) ==
    /\ new \in Session
    /\ new.my = session[s].my /\ new.her = session[s].her
    /\ new.myState = a /\ new.herState = b
    /\ new.tradelist = session[s].tradelist

LEMMA StatesSet ==
    ASSUME TypeOK, NEW s \in Created, NEW a \in BOOLEAN, NEW b \in BOOLEAN
    PROVE  LET open == [session[s] EXCEPT !.myState = a, !.herState = b]
           IN  /\ Stated(s, open, a, b) /\ open.status = session[s].status
               /\ Stated(s, [open EXCEPT !.status = "traded"], a, b)
               /\ [open EXCEPT !.status = "traded"].status = "traded"
  BY ZenonT(40) DEF TypeOK, Session, Stated

\* The history of acceptances follows the states the exchange is decided on.
LEMMA AgreedFollows ==
    ASSUME Inv, NEW s \in Created, session[s].status = "open",
           NEW c \in Parties(s), NEW accept \in BOOLEAN, NEW forceTrade \in BOOLEAN,
           NEW a \in BOOLEAN, NEW b \in BOOLEAN,
           a = IF c = session[s].my THEN accept ELSE session[s].myState,
           b = IF c = session[s].my THEN session[s].herState ELSE accept,
           NEW who,
           who = IF forceTrade THEN agreed[s] \cup Parties(s)
                 ELSE IF accept THEN agreed[s] \cup {c} ELSE agreed[s] \ {c}
    PROVE  /\ who \subseteq Parties(s)
           /\ a \/ forceTrade => session[s].my \in who
           /\ (b \/ forceTrade) /\ session[s].my # session[s].her =>
                session[s].her \in who
  <1>1. /\ agreed[s] \subseteq Parties(s)
        /\ session[s].myState => session[s].my \in agreed[s]
        /\ session[s].herState /\ session[s].my # session[s].her =>
             session[s].her \in agreed[s]
    BY DEF Inv, Books, Accepted, AcceptedIn
  <1>2. who \subseteq Parties(s)
    BY <1>1
  <1>3. CASE forceTrade
    BY <1>2, <1>3 DEF Parties
  <1>4. CASE ~ forceTrade /\ c = session[s].my
    BY <1>1, <1>2, <1>4
  <1>5. CASE ~ forceTrade /\ c # session[s].my
    BY <1>1, <1>2, <1>5 DEF Parties
  <1> QED
    BY <1>3, <1>4, <1>5

\* A balance that AlterBalance lets pass is one again.
LEMMA AlteredType ==
    ASSUME TradeAssumption, NEW balance \in [Chars -> 0..MaxBalance], NEW c \in Chars,
           NEW amount \in Int, CanAlter(balance, c, amount)
    PROVE  Altered(balance, c, amount) \in [Chars -> 0..MaxBalance]
  BY DEF Altered, CanAlter, TradeAssumption

LEMMA TransferType ==
    ASSUME TradeAssumption, NEW balance \in [Chars -> 0..MaxBalance],
           NEW from \in Chars, NEW to \in Chars, NEW amount \in Int
    PROVE  TransferFunds(balance, from, to, amount).balance \in [Chars -> 0..MaxBalance]
  <1> DEFINE charged == Altered(balance, from, -amount)
  <1>1. CASE ~ CanAlter(balance, from, -amount)
    BY <1>1 DEF TransferFunds
  <1>2. CASE CanAlter(balance, from, -amount) /\ ~ CanAlter(charged, to, amount)
    <2>1. charged \in [Chars -> 0..MaxBalance]
      BY <1>2, AlteredType
    <2> QED
      BY <1>2, <2>1 DEF TransferFunds
  <1>3. CASE CanAlter(balance, from, -amount) /\ CanAlter(charged, to, amount)
    <2>1. charged \in [Chars -> 0..MaxBalance]
      BY <1>3, AlteredType
    <2>2. Altered(charged, to, amount) \in [Chars -> 0..MaxBalance]
      BY <1>3, <2>1, AlteredType
    <2> QED
      BY <1>3, <2>2 DEF TransferFunds
  <1> QED
    BY <1>1, <1>2, <1>3

LEMMA MoneyParties ==
    ASSUME TradeAssumption, Inv, NEW s \in Created
    PROVE  /\ session[s].my \in Chars /\ session[s].her \in Chars
           /\ session[s].myMoney \in Int /\ session[s].herMoney \in Int
  <1>1. /\ session[s].my \in Chars /\ session[s].her \in Chars
        /\ session[s].myMoney \in Amounts \cup {0}
        /\ session[s].herMoney \in Amounts \cup {0}
    BY FieldTypes DEF Inv
  <1>2. \A n \in Amounts \cup {0} : n \in Int
    BY DEF TradeAssumption
  <1> QED
    BY <1>1, <1>2

\* Whatever payment throws, the balances stay between zero and the cap.
LEMMA PaymentsType ==
    ASSUME TradeAssumption, Inv, NEW s \in Created
    PROVE  Payments(s).balance \in [Chars -> 0..MaxBalance]
  <1> DEFINE my == session[s].my
             her == session[s].her
             first == TransferFunds(wallet, my, her, session[s].myMoney)
  <1>1. /\ my \in Chars /\ her \in Chars
        /\ session[s].myMoney \in Int /\ session[s].herMoney \in Int
    BY MoneyParties
  <1>2. wallet \in [Chars -> 0..MaxBalance]
    BY DEF Inv, TypeOK
  <1>3. first.balance \in [Chars -> 0..MaxBalance]
    BY <1>1, <1>2, TransferType
  <1>4. TransferFunds(first.balance, her, my, session[s].herMoney).balance
          \in [Chars -> 0..MaxBalance]
    <2> HIDE DEF my, her, first
    <2> QED
      BY <1>1, <1>3, TransferType
  <1>5. \/ Payments(s).balance = wallet
        \/ Payments(s) = first
        \/ Payments(s) = TransferFunds(first.balance, her, my, session[s].herMoney)
    <2> HIDE DEF first
    <2>1. Payments(s) =
            IF ~ (session[s].myMoney > 0 \/ session[s].herMoney > 0)
              THEN [balance |-> wallet, throws |-> FALSE]
            ELSE IF first.throws THEN first
            ELSE TransferFunds(first.balance, her, my, session[s].herMoney)
      BY DEF Payments, first
    <2> QED
      BY <2>1
  <1> QED
    BY <1>2, <1>3, <1>4, <1>5

\* The session with new states stays open, whatever is paid.
LEMMA StillOpenInv ==
    ASSUME Inv, NEW s \in Created, session[s].status = "open", NEW new,
           session' = [session EXCEPT ![s] = new],
           NEW a \in BOOLEAN, NEW b \in BOOLEAN, Stated(s, new, a, b),
           new.status = "open", NEW who \in SUBSET Chars,
           agreed' = [agreed EXCEPT ![s] = who],
           who \subseteq Parties(s),
           a => session[s].my \in who,
           b /\ session[s].my # session[s].her => session[s].her \in who,
           UNCHANGED <<server, place, pending, bound, ts, active, owner, location>>,
           wallet' \in [Chars -> 0..MaxBalance],
           taken' \in [Ids -> BOOLEAN]
    PROVE  Inv'
  <1>1. Edited(s, new)
    BY DEF Inv, TypeOK, Created, Edited, Stated
  <1>2. agreed'[s] = who /\ \A r \in Created \ {s} : agreed'[r] = agreed[r]
    BY DEF Inv, TypeOK
  <1>3. AcceptedIn(s)'
    BY <1>1, <1>2 DEF AcceptedIn, Edited, Stated, Parties
  <1>4. Books'
    BY <1>1, <1>2, <1>3, BooksEdited
  <1>5. Held'
    BY <1>1, HeldEdited DEF Stated
  <1>6. TypeOK'
    <2>1. Created' \subseteq Ids /\ \A r \in Created' : session'[r] \in Session
      BY <1>1, EditedTypes DEF Inv
    <2>2. Created' = Created
      BY <1>1, EditedSessions DEF Inv
    <2>3. agreed' \in [Ids -> SUBSET Chars]
      BY DEF Inv, TypeOK
    <2> QED
      BY <2>1, <2>2, <2>3 DEF Inv, TypeOK
  <1> QED
    BY <1>4, <1>5, <1>6 DEF Inv

LEMMA ExchangeInv ==
    ASSUME TradeAssumption, Inv, NEW s \in Created, session[s].status = "open",
           NEW states, Exchange(s, states), NEW new,
           new = [states EXCEPT !.status = "traded"],
           NEW a \in BOOLEAN, NEW b \in BOOLEAN, Stated(s, new, a, b),
           new.status = "traded", NEW who \in SUBSET Chars,
           agreed' = [agreed EXCEPT ![s] = who],
           who = Parties(s),
           wallet' \in [Chars -> 0..MaxBalance], taken' \in [Ids -> BOOLEAN],
           UNCHANGED <<server, place, pending, bound>>
    PROVE  Inv'
  <1>1. Edited(s, new)
    BY DEF Exchange, Inv, TypeOK, Created, Edited, Stated
  <1>2. agreed'[s] = who /\ \A r \in Created \ {s} : agreed'[r] = agreed[r]
    BY DEF Inv, TypeOK
  <1>3. AcceptedIn(s)'
    BY <1>1, <1>2 DEF AcceptedIn, Edited, Stated, Parties
  <1>4. ts' = NoneOf(ts, Parties(s)) /\ active' = NoneOf(active, Parties(s))
    BY DEF Exchange, Parties
  <1>5. Books'
    BY <1>1, <1>2, <1>3, <1>4, BooksClosed
  <1>6. Held'
    <2>1. location' = [i \in Items |-> IF i \in Listed(s) THEN 0 ELSE location[i]]
      BY DEF Exchange
    <2> QED
      BY <1>1, <2>1, HeldClosed
  <1>7. TypeOK'
    <2>1. Created' \subseteq Ids /\ \A r \in Created' : session'[r] \in Session
      BY <1>1, EditedTypes DEF Inv
    <2>2. Created' = Created
      BY <1>1, EditedSessions DEF Inv
    <2>3. owner' \in [Items -> Chars]
      <3>1. \A i \in Items : NewOwner(s, i) \in Chars
        BY FieldTypes DEF Inv, NewOwner
      <3> QED
        BY <3>1 DEF Exchange, Inv, TypeOK
    <2>4. location' \in [Items -> Ids \cup {0}]
      BY DEF Exchange, Inv, TypeOK
    <2>5. ts' \in [Chars -> Created' \cup {0}] /\ active' \in [Chars -> Created' \cup {0}]
      BY <1>4, <2>2 DEF NoneOf, Inv, TypeOK
    <2>6. agreed' \in [Ids -> SUBSET Chars]
      BY DEF Inv, TypeOK
    <2> QED
      BY <2>1, <2>3, <2>4, <2>5, <2>6 DEF Inv, TypeOK
  <1> QED
    BY <1>5, <1>6, <1>7 DEF Inv

LEMMA ToggleAcceptInv ==
    ASSUME TradeAssumption, Inv, NEW c \in Chars, NEW accept \in BOOLEAN,
           NEW forceTrade \in BOOLEAN, ToggleAccept(c, accept, forceTrade)
    PROVE  Inv'
  <1>1. CASE Undefined
    BY <1>1, UndefinedInv
  <1>2. CASE ~ Undefined
    <2>1. Party(c) /\ UNCHANGED <<server, place, pending, bound>>
      BY <1>2 DEF ToggleAccept
    <2>2. PICK s \in Created : s = ts[c]
      BY <2>1, CallOfParty
    <2>3. session[s].status = "open" /\ c \in Parties(s)
      BY <2>1, <2>2, CallOfParty DEF Parties
    <2>4. session[s].myState \in BOOLEAN /\ session[s].herState \in BOOLEAN
      BY FieldTypes DEF Inv
    <2>5. PICK a \in BOOLEAN : a = IF c = session[s].my THEN accept ELSE session[s].myState
      BY <2>4
    <2>6. PICK b \in BOOLEAN : b = IF c = session[s].my THEN session[s].herState ELSE accept
      BY <2>4
    <2>7. PICK who : who = IF forceTrade THEN agreed[s] \cup Parties(s)
                           ELSE IF accept THEN agreed[s] \cup {c} ELSE agreed[s] \ {c}
      OBVIOUS
    <2>8. PICK states : states = [session[s] EXCEPT !.myState = a \/ forceTrade,
                                                    !.herState = b \/ forceTrade]
      OBVIOUS
    <2>9. /\ agreed' = [agreed EXCEPT ![s] = who]
          /\ \/ /\ wallet' = Payments(s).balance
                /\ taken' = [taken EXCEPT ![s] = @ \/ wallet' # wallet]
                /\ \/ a /\ b /\ Exchange(s, states)
                   \/ ExchangeThrows(s, states)
             \/ /\ session' = [session EXCEPT ![s] = states]
                /\ UNCHANGED <<wallet, taken, owner, location, active, ts>>
      BY <1>2, <2>2, <2>5, <2>6, <2>7, <2>8 DEF ToggleAccept
    <2>10. /\ who \subseteq Parties(s)
           /\ a \/ forceTrade => session[s].my \in who
           /\ (b \/ forceTrade) /\ session[s].my # session[s].her =>
                session[s].her \in who
      BY <2>3, <2>5, <2>6, <2>7, AgreedFollows, SMTT(40)
    <2>11. who \in SUBSET Chars
      BY <2>10, FieldTypes DEF Inv
    <2>12. PICK x \in BOOLEAN, y \in BOOLEAN : x = (a \/ forceTrade) /\ y = (b \/ forceTrade)
      OBVIOUS
    <2>13. /\ Stated(s, states, x, y) /\ states.status = "open"
           /\ Stated(s, [states EXCEPT !.status = "traded"], x, y)
           /\ [states EXCEPT !.status = "traded"].status = "traded"
      <3>1. states = [session[s] EXCEPT !.myState = x, !.herState = y]
        BY <2>8, <2>12
      <3>2. TypeOK
        BY DEF Inv
      <3> QED
        BY <2>3, <3>1, <3>2, StatesSet, ZenonT(90)
    <2>14. ASSUME wallet' = Payments(s).balance,
                  taken' = [taken EXCEPT ![s] = @ \/ wallet' # wallet]
           PROVE  wallet' \in [Chars -> 0..MaxBalance] /\ taken' \in [Ids -> BOOLEAN]
      BY <2>14, PaymentsType DEF Inv, TypeOK
    <2>15. CASE /\ wallet' = Payments(s).balance
                /\ taken' = [taken EXCEPT ![s] = @ \/ wallet' # wallet]
                /\ a /\ b /\ Exchange(s, states)
      <3>1. who = Parties(s)
        BY <2>10, <2>15 DEF Parties
      <3>2. wallet' \in [Chars -> 0..MaxBalance] /\ taken' \in [Ids -> BOOLEAN]
        BY <2>14, <2>15
      <3>3. /\ Exchange(s, states)
            /\ agreed' = [agreed EXCEPT ![s] = who]
        BY <2>9, <2>15
      <3>4. PICK new : new = [states EXCEPT !.status = "traded"]
        OBVIOUS
      <3>5. Stated(s, new, x, y) /\ new.status = "traded"
        BY <2>13, <3>4
      <3> QED
        BY <2>1, <2>3, <2>11, <3>1, <3>2, <3>3, <3>4, <3>5, ExchangeInv
    <2>16. CASE /\ wallet' = Payments(s).balance
                /\ taken' = [taken EXCEPT ![s] = @ \/ wallet' # wallet]
                /\ ExchangeThrows(s, states)
      <3>1. wallet' \in [Chars -> 0..MaxBalance] /\ taken' \in [Ids -> BOOLEAN]
        BY <2>14, <2>16
      <3>2. /\ session' = [session EXCEPT ![s] = states]
            /\ UNCHANGED <<owner, location, active, ts>>
        BY <2>16 DEF ExchangeThrows
      <3> QED
        BY <2>1, <2>3, <2>9, <2>10, <2>11, <2>12, <2>13, <3>1, <3>2, StillOpenInv
    <2>17. CASE /\ session' = [session EXCEPT ![s] = states]
                /\ UNCHANGED <<wallet, taken, owner, location, active, ts>>
      <3>1. wallet' \in [Chars -> 0..MaxBalance] /\ taken' \in [Ids -> BOOLEAN]
        BY <2>17 DEF Inv, TypeOK
      <3> QED
        BY <2>1, <2>3, <2>9, <2>10, <2>11, <2>12, <2>13, <2>17, <3>1, StillOpenInv
    <2> QED
      BY <2>9, <2>15, <2>16, <2>17
  <1> QED
    BY <1>1, <1>2

-----------------------------------------------------------------------------
(* The invariant and the theorems.                                         *)

LEMMA InitInv == TradeAssumption /\ Init => Inv
  <1> SUFFICES ASSUME TradeAssumption, Init PROVE Inv
    OBVIOUS
  <1>1. Created = {}
    BY DEF Init, Created
  <1>2. TypeOK
    BY <1>1 DEF Init, TypeOK, Place, TradeAssumption
  <1>3. Books
    BY <1>1 DEF Init, Books, ActiveIsOpen, PartyNotTraded, Accepted
  <1>4. Held
    BY DEF Init, Held
  <1> QED
    BY <1>2, <1>3, <1>4 DEF Inv

LEMMA StepInv == TradeAssumption /\ Inv /\ [Next]_vars => Inv'
  <1> SUFFICES ASSUME TradeAssumption, Inv, [Next]_vars PROVE Inv'
    OBVIOUS
  <1>1. CASE UNCHANGED vars
    BY <1>1, QuietInv DEF vars, Inv, TypeOK
  <1>2. ASSUME NEW my \in Chars, NEW her \in Chars, InitiateTrade(my, her)
        PROVE  Inv'
    BY <1>2, InitiateTradeInv
  <1>3. ASSUME NEW my \in Chars, NEW her \in Chars, NEW c \in {my, her},
               NEW myMoney \in Amounts, NEW herMoney \in Amounts,
               CreateBoundObject(c, my, her, myMoney, herMoney)
        PROVE  Inv'
    BY <1>3, CreateBoundObjectInv
  <1>4. ASSUME NEW c \in bound, NEW amount \in Amounts, OfferMoney(c, amount)
        PROVE  Inv'
    BY <1>4, OfferMoneyInv DEF Inv, TypeOK
  <1>5. ASSUME NEW c \in bound, NEW items \in SUBSET Items, Add(c, items)
        PROVE  Inv'
    BY <1>5, AddInv DEF Inv, TypeOK
  <1>6. ASSUME NEW c \in bound, NEW accept \in BOOLEAN, NEW forceTrade \in BOOLEAN,
               ToggleAccept(c, accept, forceTrade)
        PROVE  Inv'
    BY <1>6, ToggleAcceptInv DEF Inv, TypeOK
  <1>7. ASSUME NEW c \in bound, Abort(c)
        PROVE  Inv'
    BY <1>7, AbortInv DEF Inv, TypeOK
  <1>8. ASSUME NEW c \in Chars, Undock(c) \/ Logout(c)
        PROVE  Inv'
    BY <1>8, LeaveInv DEF Undock, Logout, Place
  <1>9. ASSUME NEW c \in Chars, Arrive(c)
        PROVE  Inv'
    BY <1>9, ArriveInv
  <1>10. CASE Next
    <2>1. CASE Open
      BY <2>1, <1>2, <1>3 DEF Open
    <2>2. CASE Call
      BY <2>2, <1>4, <1>5, <1>6, <1>7 DEF Call
    <2>3. CASE Move
      BY <2>3, <1>8, <1>9 DEF Move, TradeAssumption
    <2> QED
      BY <1>10, <2>1, <2>2, <2>3 DEF Next
  <1> QED
    BY <1>1, <1>10

LEMMA Invariant == Spec => []Inv
  <1>1. Init => Inv
    BY InitInv, TradeAssumption
  <1>2. Inv /\ [Next]_vars => Inv'
    BY StepInv, TradeAssumption
  <1> QED
    BY <1>1, <1>2, PTL DEF Spec

\* Every variable keeps its type whatever the clients call, undefined behaviour
\* included: no balance becomes negative or goes beyond the cap, whatever is
\* offered, and no pointer leads past the sessions that were made.
THEOREM TypeCorrect == Spec => []TypeOK
  <1>1. Inv => TypeOK
    BY DEF Inv
  <1> QED
    BY <1>1, Invariant, PTL

\* An item that Handle_Add moved into a trade container is on the list of that
\* session, and the session is open, so that the exchange or the cancellation
\* that ends it takes the item out again.
THEOREM NothingLost == Spec => []HeldIsListed
  <1>1. Inv => HeldIsListed
    BY DEF Inv, Held, HeldIsListed
  <1> QED
    BY <1>1, Invariant, PTL

\* ExchangeItems is only reached with both parties' consent to the offer as it
\* is, each change of which has taken the consents back.
THEOREM TradesAgreed == Spec => []TradedIsAgreed
  <1>1. Inv => TradedIsAgreed
    BY DEF Inv, Books, Accepted, AcceptedIn, TradedIsAgreed
  <1> QED
    BY <1>1, Invariant, PTL

\* What CreateBoundObject finds in m_activeSessions is an open session of the
\* character it is looked up for.
THEOREM BooksOpen == Spec => []ActiveIsOpen
  <1>1. Inv => ActiveIsOpen
    BY DEF Inv, Books
  <1> QED
    BY <1>1, Invariant, PTL

-----------------------------------------------------------------------------
(* Money.  Only ToggleAccept moves it, by up to four calls of AlterBalance.  *)

Balances == [Chars -> Int]

\* One balance changes by d.
LEMMA BalanceMoves ==
    ASSUME NEW f \in Balances, NEW c \in Chars, NEW d \in Int
    PROVE  /\ [f EXCEPT ![c] = @ + d] \in Balances
           /\ Total([f EXCEPT ![c] = @ + d], Chars) = Total(f, Chars) + d
  <1> DEFINE h == [f EXCEPT ![c] = @ + d]
  <1>1. f \in [Chars -> Int] /\ h \in [Chars -> Int]
    BY DEF Balances
  <1>2. h[c] = f[c] + d
    BY <1>1
  <1>3. \A x \in Chars : x # c => h[x] = f[x]
    BY <1>1
  <1>4. IsFiniteSet(Chars)
    BY TradeAssumption DEF TradeAssumption
  <1> HIDE DEF h
  <1>5. Total(h, Chars) = Total(f, Chars) + d
    BY <1>1, <1>2, <1>3, <1>4, TotalChanged
  <1> QED
    BY <1>1, <1>5 DEF h, Balances

\* What one call of AlterBalance does, to its character and to the total.
LEMMA AlterMoves ==
    ASSUME TradeAssumption, NEW b \in [Chars -> 0..MaxBalance], NEW c \in Chars,
           NEW d \in Int, CanAlter(b, c, d), NEW n, n = Altered(b, c, d)
    PROVE  /\ n \in [Chars -> 0..MaxBalance]
           /\ \A x \in Chars : x # c => n[x] = b[x]
           /\ n[c] <= b[c] + d
           /\ b[c] + d <= MaxBalance => n[c] = b[c] + d
           /\ d >= 0 => n[c] >= b[c]
           /\ Total(n, Chars) \in Int /\ Total(b, Chars) \in Int
           /\ Total(n, Chars) <= Total(b, Chars) + d
           /\ b[c] + d <= MaxBalance => Total(n, Chars) = Total(b, Chars) + d
  <1> DEFINE e == IF b[c] + d > MaxBalance THEN MaxBalance - b[c] ELSE d
  <1>1. n \in [Chars -> 0..MaxBalance]
    BY AlteredType
  <1>2. e \in Int /\ e <= d /\ (b[c] + d <= MaxBalance => e = d) /\ (d >= 0 => e >= 0)
    BY DEF TradeAssumption
  <1>3. n = [b EXCEPT ![c] = @ + e]
    <2>1. b[c] \in Int /\ MaxBalance \in Int
      BY DEF TradeAssumption
    <2>2. (IF b[c] + d > MaxBalance THEN MaxBalance ELSE b[c] + d) = b[c] + e
      BY <2>1
    <2> HIDE DEF e
    <2>3. n = [b EXCEPT ![c] = IF b[c] + d > MaxBalance THEN MaxBalance ELSE b[c] + d]
      BY DEF Altered
    <2> QED
      BY <2>2, <2>3
  <1>4. b \in Balances /\ n \in Balances
    BY <1>1 DEF Balances
  <1> HIDE DEF e
  <1>5. Total(n, Chars) = Total(b, Chars) + e
    <2>1. Total([b EXCEPT ![c] = @ + e], Chars) = Total(b, Chars) + e
      BY <1>2, <1>4, BalanceMoves
    <2> QED
      BY <1>3, <2>1
  <1>6. Total(n, Chars) \in Int /\ Total(b, Chars) \in Int
    <2>1. IsFiniteSet(Chars) /\ b \in [Chars -> Int] /\ n \in [Chars -> Int]
      BY <1>4 DEF TradeAssumption, Balances
    <2> QED
      BY <2>1, TotalType
  <1>7. n[c] = b[c] + e /\ b[c] \in Int /\ \A x \in Chars : x # c => n[x] = b[x]
    BY <1>3, <1>4 DEF Balances
  <1> QED
    BY <1>1, <1>2, <1>5, <1>6, <1>7

\* The four calls of AlterBalance that the payments of session s are, each made
\* on what the one before has left: w1 to w4 are the balances after them.
Chain(s, w1, w2, w3, w4) ==
    LET my == session[s].my
        her == session[s].her
        m == session[s].myMoney
        h == session[s].herMoney
    IN  /\ w1 = Altered(wallet, my, -m)
        /\ w2 = Altered(w1, her, m)
        /\ w3 = Altered(w2, her, -h)
        /\ w4 = Altered(w3, my, h)

\* How far the payments get.
LEMMA PaymentCases ==
    ASSUME NEW s \in Created, NEW w1, NEW w2, NEW w3, NEW w4, Chain(s, w1, w2, w3, w4),
           NEW my, my = session[s].my, NEW her, her = session[s].her,
           NEW m, m = session[s].myMoney, NEW h, h = session[s].herMoney
    PROVE  \/ Payments(s).balance = wallet
           \/ /\ CanAlter(wallet, my, -m) /\ ~ CanAlter(w1, her, m)
              /\ Payments(s) = [balance |-> w1, throws |-> TRUE]
           \/ /\ CanAlter(wallet, my, -m) /\ CanAlter(w1, her, m)
              /\ ~ CanAlter(w2, her, -h)
              /\ Payments(s) = [balance |-> w2, throws |-> TRUE]
           \/ /\ CanAlter(wallet, my, -m) /\ CanAlter(w1, her, m)
              /\ CanAlter(w2, her, -h) /\ ~ CanAlter(w3, my, h)
              /\ Payments(s) = [balance |-> w3, throws |-> TRUE]
           \/ /\ CanAlter(wallet, my, -m) /\ CanAlter(w1, her, m)
              /\ CanAlter(w2, her, -h) /\ CanAlter(w3, my, h)
              /\ Payments(s) = [balance |-> w4, throws |-> FALSE]
  <1> DEFINE first == TransferFunds(wallet, my, her, m)
  <1>1. /\ w1 = Altered(wallet, my, -m) /\ w2 = Altered(w1, her, m)
        /\ w3 = Altered(w2, her, -h) /\ w4 = Altered(w3, my, h)
    BY DEF Chain
  <1>2. first = IF ~ CanAlter(wallet, my, -m) THEN [balance |-> wallet, throws |-> TRUE]
                ELSE IF ~ CanAlter(w1, her, m) THEN [balance |-> w1, throws |-> TRUE]
                ELSE [balance |-> w2, throws |-> FALSE]
    BY <1>1 DEF TransferFunds
  <1>3. TransferFunds(w2, her, my, h) =
          IF ~ CanAlter(w2, her, -h) THEN [balance |-> w2, throws |-> TRUE]
          ELSE IF ~ CanAlter(w3, my, h) THEN [balance |-> w3, throws |-> TRUE]
          ELSE [balance |-> w4, throws |-> FALSE]
    BY <1>1 DEF TransferFunds
  <1>4. Payments(s) = IF ~ (m > 0 \/ h > 0) THEN [balance |-> wallet, throws |-> FALSE]
                      ELSE IF first.throws THEN first
                      ELSE TransferFunds(first.balance, her, my, h)
    BY DEF Payments
  <1> HIDE DEF first
  <1>5. CASE ~ CanAlter(wallet, my, -m)
    BY <1>2, <1>4, <1>5
  <1>6. CASE CanAlter(wallet, my, -m) /\ ~ CanAlter(w1, her, m)
    BY <1>2, <1>4, <1>6
  <1>7. CASE CanAlter(wallet, my, -m) /\ CanAlter(w1, her, m)
    <2>1. ~ first.throws /\ first.balance = w2
      BY <1>2, <1>7
    <2> QED
      BY <1>3, <1>4, <1>7, <2>1
  <1> QED
    BY <1>5, <1>6, <1>7

\* With no offer below zero only a payer can make a payment throw.
LEMMA ReceiptsPass ==
    ASSUME TradeAssumption, NEW b \in [Chars -> 0..MaxBalance], NEW c \in Chars,
           NEW d \in Nat
    PROVE  CanAlter(b, c, d)
  BY DEF CanAlter, TradeAssumption

\* What the payments that were made do to the total and to each wallet.
Settled(s, w, throws) ==
    /\ \A c \in Chars \ Parties(s) : w[c] = wallet[c]
    /\ Total(w, Chars) \in Int
    /\ ~ throws =>
         /\ Total(w, Chars) <= Total(wallet, Chars)
         /\ HasRoom(s) => Total(w, Chars) = Total(wallet, Chars)
         /\ \A c \in Parties(s) :
              /\ w[c] <= wallet[c] + Gain(s, c)
              /\ HasRoom(s) => w[c] = wallet[c] + Gain(s, c)
    /\ throws /\ HasRoom(s) => Total(w, Chars) >= Total(wallet, Chars)
    /\ throws /\ NoneBelowZero(s) =>
         /\ Total(w, Chars) <= Total(wallet, Chars)
         /\ w = wallet \/
              /\ w[session[s].my] = wallet[session[s].my] - session[s].myMoney
              /\ w[session[s].her] <= wallet[session[s].her] + session[s].myMoney
              /\ w[session[s].her] >= wallet[session[s].her]

\* The room there is for each payment, if there is room for all of them.
LEMMA RoomForEach ==
    ASSUME TradeAssumption, Inv, NEW s \in Created, HasRoom(s),
           NEW my, my = session[s].my, NEW her, her = session[s].her,
           NEW m, m = session[s].myMoney, NEW h, h = session[s].herMoney
    PROVE  /\ wallet[my] - m <= MaxBalance /\ wallet[her] - h <= MaxBalance
           /\ my # her => /\ wallet[her] + m <= MaxBalance
                         /\ wallet[her] + m - h <= MaxBalance
                         /\ wallet[my] - m + h <= MaxBalance
  <1>1. /\ my \in Chars /\ her \in Chars /\ m \in Int /\ h \in Int
        /\ wallet[my] \in 0..MaxBalance /\ wallet[her] \in 0..MaxBalance
        /\ MaxBalance \in Nat
    BY MoneyParties DEF Inv, TypeOK, TradeAssumption
  <1>2. /\ wallet[my] + Credit(s, my) <= MaxBalance
        /\ wallet[her] + Credit(s, her) <= MaxBalance
    BY DEF HasRoom, Parties
  <1>0. /\ AtLeast0(m) \in Nat /\ AtLeast0(m) >= m
        /\ AtLeast0(-m) \in Nat /\ AtLeast0(-m) >= -m
        /\ AtLeast0(h) \in Nat /\ AtLeast0(h) >= h
        /\ AtLeast0(-h) \in Nat /\ AtLeast0(-h) >= -h
    BY <1>1 DEF AtLeast0
  <1>3. CASE my = her
    <2>1. Credit(s, my) = AtLeast0(-m) + AtLeast0(h) + (AtLeast0(m) + AtLeast0(-h))
      BY <1>3 DEF Credit
    <2> QED
      BY <1>0, <1>1, <1>2, <1>3, <2>1
  <1>4. CASE my # her
    <2>1. /\ Credit(s, my) = AtLeast0(-m) + AtLeast0(h) + 0
          /\ Credit(s, her) = 0 + (AtLeast0(m) + AtLeast0(-h))
      BY <1>4 DEF Credit
    <2> QED
      BY <1>0, <1>1, <1>2, <1>4, <2>1
  <1> QED
    BY <1>3, <1>4

LEMMA PaymentsSettle ==
    ASSUME TradeAssumption, Inv, NEW s \in Created, Payments(s).balance # wallet
    PROVE  Settled(s, Payments(s).balance, Payments(s).throws)
  <1> DEFINE my == session[s].my
             her == session[s].her
             m == session[s].myMoney
             h == session[s].herMoney
             w1 == Altered(wallet, my, -m)
             w2 == Altered(w1, her, m)
             w3 == Altered(w2, her, -h)
             w4 == Altered(w3, my, h)
  <1>1. /\ my \in Chars /\ her \in Chars /\ m \in Int /\ h \in Int
        /\ -m \in Int /\ -h \in Int /\ MaxBalance \in Nat
        /\ wallet \in [Chars -> 0..MaxBalance]
    BY MoneyParties DEF Inv, TypeOK, TradeAssumption
  <1>2. /\ Parties(s) = {my, her}
        /\ NoneBelowZero(s) <=> m >= 0 /\ h >= 0
        /\ \A c \in {my, her} :
             Gain(s, c) = IF my = her THEN 0 ELSE IF c = my THEN h - m ELSE m - h
    BY DEF Parties, NoneBelowZero, Gain
  <1>3. HasRoom(s) =>
          /\ wallet[my] - m <= MaxBalance /\ wallet[her] - h <= MaxBalance
          /\ my # her => /\ wallet[her] + m <= MaxBalance
                        /\ wallet[her] + m - h <= MaxBalance
                        /\ wallet[my] - m + h <= MaxBalance
    BY RoomForEach
  <1>4. Chain(s, w1, w2, w3, w4)
    BY DEF Chain
  <1>5. \/ /\ CanAlter(wallet, my, -m) /\ ~ CanAlter(w1, her, m)
           /\ Payments(s) = [balance |-> w1, throws |-> TRUE]
        \/ /\ CanAlter(wallet, my, -m) /\ CanAlter(w1, her, m)
           /\ ~ CanAlter(w2, her, -h)
           /\ Payments(s) = [balance |-> w2, throws |-> TRUE]
        \/ /\ CanAlter(wallet, my, -m) /\ CanAlter(w1, her, m)
           /\ CanAlter(w2, her, -h) /\ ~ CanAlter(w3, my, h)
           /\ Payments(s) = [balance |-> w3, throws |-> TRUE]
        \/ /\ CanAlter(wallet, my, -m) /\ CanAlter(w1, her, m)
           /\ CanAlter(w2, her, -h) /\ CanAlter(w3, my, h)
           /\ Payments(s) = [balance |-> w4, throws |-> FALSE]
    <2> HIDE DEF my, her, m, h, w1, w2, w3, w4
    <2>1. my = session[s].my /\ her = session[s].her
          /\ m = session[s].myMoney /\ h = session[s].herMoney
      BY DEF my, her, m, h
    <2> QED
      BY <1>4, <2>1, PaymentCases
  <1>6. w1 = Altered(wallet, my, -m) /\ w2 = Altered(w1, her, m)
        /\ w3 = Altered(w2, her, -h) /\ w4 = Altered(w3, my, h)
    OBVIOUS
  <1> HIDE DEF my, her, m, h, w1, w2, w3, w4
  <1> DEFINE Moved(b, n, c, d) ==
               /\ n \in [Chars -> 0..MaxBalance]
               /\ \A x \in Chars : x # c => n[x] = b[x]
               /\ n[c] <= b[c] + d
               /\ b[c] + d <= MaxBalance => n[c] = b[c] + d
               /\ d >= 0 => n[c] >= b[c]
               /\ Total(n, Chars) \in Int /\ Total(b, Chars) \in Int
               /\ Total(n, Chars) <= Total(b, Chars) + d
               /\ b[c] + d <= MaxBalance => Total(n, Chars) = Total(b, Chars) + d
  <1>7. CanAlter(wallet, my, -m) => Moved(wallet, w1, my, -m)
    BY <1>1, <1>6, AlterMoves
  <1>8. CanAlter(wallet, my, -m) /\ CanAlter(w1, her, m) => Moved(w1, w2, her, m)
    BY <1>1, <1>6, <1>7, AlterMoves
  <1>9. CanAlter(wallet, my, -m) /\ CanAlter(w1, her, m) /\ CanAlter(w2, her, -h) =>
          Moved(w2, w3, her, -h)
    BY <1>1, <1>6, <1>8, AlterMoves
  <1>10. ASSUME Moved(w2, w3, her, -h), CanAlter(w3, my, h)
         PROVE  Moved(w3, w4, my, h)
    <2>1. w3 \in [Chars -> 0..MaxBalance]
      BY <1>10
    <2> QED
      BY <1>1, <1>6, <1>10, <2>1, AlterMoves
  <1>11. CASE /\ CanAlter(wallet, my, -m) /\ ~ CanAlter(w1, her, m)
              /\ Payments(s) = [balance |-> w1, throws |-> TRUE]
    <2>1. m < 0
      BY <1>1, <1>7, <1>11 DEF CanAlter
    <2> QED
      BY <1>1, <1>2, <1>3, <1>7, <1>11, <2>1 DEF Settled
  <1>12. CASE /\ CanAlter(wallet, my, -m) /\ CanAlter(w1, her, m)
              /\ ~ CanAlter(w2, her, -h)
              /\ Payments(s) = [balance |-> w2, throws |-> TRUE]
    <2>1. Moved(wallet, w1, my, -m) /\ Moved(w1, w2, her, m)
      BY <1>7, <1>8, <1>12
    <2>2. /\ \A c \in Chars \ {my, her} : w2[c] = wallet[c]
          /\ HasRoom(s) => Total(w2, Chars) = Total(wallet, Chars)
          /\ Total(w2, Chars) <= Total(wallet, Chars)
      BY <1>1, <1>3, <2>1
    <2>3. m >= 0 => \/ w2 = wallet
                    \/ /\ w2[my] = wallet[my] - m
                       /\ w2[her] <= wallet[her] + m /\ w2[her] >= wallet[her]
      <3>1. CASE my = her /\ m >= 0
        <4>1. w2[my] = wallet[my]
          BY <1>1, <2>1, <3>1
        <4>2. \A c \in Chars : w2[c] = wallet[c]
          BY <2>2, <3>1, <4>1
        <4> QED
          BY <1>1, <2>1, <4>2
      <3>2. CASE my # her /\ m >= 0
        BY <1>1, <2>1, <3>2
      <3> QED
        BY <1>1, <3>1, <3>2
    <2>4. session[s].my = my /\ session[s].her = her /\ session[s].myMoney = m
      BY DEF my, her, m
    <2> QED
      BY <1>1, <1>2, <1>12, <2>1, <2>2, <2>3, <2>4 DEF Settled
  <1>13. CASE /\ CanAlter(wallet, my, -m) /\ CanAlter(w1, her, m)
              /\ CanAlter(w2, her, -h) /\ ~ CanAlter(w3, my, h)
              /\ Payments(s) = [balance |-> w3, throws |-> TRUE]
    <2>1. /\ Moved(wallet, w1, my, -m) /\ Moved(w1, w2, her, m)
          /\ Moved(w2, w3, her, -h)
      BY <1>7, <1>8, <1>9, <1>13
    <2>2. h < 0
      BY <1>1, <1>13, <2>1 DEF CanAlter
    <2>3. \A c \in Chars \ {my, her} : w3[c] = wallet[c]
      BY <1>1, <2>1
    <2>4. HasRoom(s) => Total(w3, Chars) = Total(wallet, Chars) - h
      <3>1. CASE my = her
        BY <1>1, <1>3, <2>1, <3>1
      <3>2. CASE my # her
        BY <1>1, <1>3, <2>1, <3>2
      <3> QED
        BY <3>1, <3>2
    <2> QED
      BY <1>1, <1>2, <1>13, <2>1, <2>2, <2>3, <2>4 DEF Settled
  <1>14. CASE /\ CanAlter(wallet, my, -m) /\ CanAlter(w1, her, m)
              /\ CanAlter(w2, her, -h) /\ CanAlter(w3, my, h)
              /\ Payments(s) = [balance |-> w4, throws |-> FALSE]
    <2>1. /\ Moved(wallet, w1, my, -m) /\ Moved(w1, w2, her, m)
          /\ Moved(w2, w3, her, -h) /\ Moved(w3, w4, my, h)
      BY <1>7, <1>8, <1>9, <1>10, <1>14
    <2>2. /\ \A c \in Chars \ {my, her} : w4[c] = wallet[c]
          /\ Total(w4, Chars) <= Total(wallet, Chars)
      BY <1>1, <2>1
    <2>3. CASE my = her
      <3>1. /\ w4[my] <= wallet[my]
            /\ HasRoom(s) => w4[my] = wallet[my]
            /\ HasRoom(s) => Total(w4, Chars) = Total(wallet, Chars)
        BY <1>1, <1>3, <2>1, <2>3
      <3> QED
        BY <1>1, <1>2, <1>14, <2>1, <2>2, <2>3, <3>1 DEF Settled
    <2>4. CASE my # her
      <3>1. /\ w4[my] <= wallet[my] + (h - m)
            /\ w4[her] <= wallet[her] + (m - h)
            /\ HasRoom(s) => /\ w4[my] = wallet[my] + (h - m)
                             /\ w4[her] = wallet[her] + (m - h)
                             /\ Total(w4, Chars) = Total(wallet, Chars)
        BY <1>1, <1>3, <2>1, <2>4
      <3> QED
        BY <1>1, <1>2, <1>14, <2>1, <2>2, <2>4, <3>1 DEF Settled
    <2> QED
      BY <2>3, <2>4
  <1> QED
    BY <1>5, <1>11, <1>12, <1>13, <1>14

\* Every other action leaves the wallets alone.
LEMMA OnlyAcceptMovesMoney ==
    ASSUME Inv, [Next]_vars, wallet' # wallet
    PROVE  \E c \in Chars : \E accept, forceTrade \in BOOLEAN :
             ToggleAccept(c, accept, forceTrade)
  <1>0. ~ Undefined
    BY DEF Undefined
  <1>1. ~ Open
    <2>1. \A c, target \in Chars : ~ InitiateTrade(c, target)
      BY <1>0, SMTT(30) DEF InitiateTrade
    <2>2. \A c, my, her \in Chars, myMoney, herMoney \in Amounts :
            ~ CreateBoundObject(c, my, her, myMoney, herMoney)
      BY <1>0, SMTT(30) DEF CreateBoundObject
    <2> QED
      BY <2>1, <2>2 DEF Open
  <1>2. ~ Move
    <2>1. \A c \in Chars : ~ Leave(c, "space") /\ ~ Leave(c, "offline")
      BY <1>0 DEF Leave
    <2>2. \A c \in Chars : ~ Undock(c)
      BY <2>1 DEF Undock
    <2>3. \A c \in Chars : ~ Logout(c)
      BY <2>1 DEF Logout
    <2>4. \A c \in Chars : ~ Arrive(c)
      BY SMTT(30) DEF Arrive
    <2> QED
      BY <2>2, <2>3, <2>4, TradeAssumption DEF Move, TradeAssumption
  <1>3. CASE Call
    <2>1. \A c \in bound, amount \in Amounts : ~ OfferMoney(c, amount)
      BY DEF OfferMoney, Undefined
    <2>2. \A c \in bound, items \in SUBSET Items : ~ Add(c, items)
      BY DEF Add, Undefined
    <2>3. \A c \in bound : ~ Abort(c)
      BY DEF Abort, Undefined
    <2> QED
      BY <1>3, <2>1, <2>2, <2>3 DEF Call, Inv, TypeOK
  <1>4. ~ UNCHANGED vars
    BY DEF vars
  <1> QED
    BY <1>1, <1>2, <1>3, <1>4 DEF Next

\* Money moves, or a session is traded, only when ExchangeItems is called, which
\* is when both states are set, of which one is set by the call and the other
\* goes back to an acceptance of the same offer.
LEMMA BothHaveAgreed ==
    ASSUME Inv, server = "up", NEW c \in Chars, NEW accept \in BOOLEAN,
           NEW forceTrade \in BOOLEAN, ToggleAccept(c, accept, forceTrade),
           wallet' # wallet \/ (server' = "up" /\ session'[ts[c]].status = "traded")
    PROVE  /\ Agreed(ts[c])
           /\ wallet' = Payments(ts[c]).balance
           /\ Payments(ts[c]).throws <=> ~ Made(ts[c])
  <1> DEFINE a == IF c = session[ts[c]].my THEN accept ELSE session[ts[c]].myState
             b == IF c = session[ts[c]].my THEN session[ts[c]].herState ELSE accept
             who == IF forceTrade THEN agreed[ts[c]] \cup Parties(ts[c])
                    ELSE IF accept THEN agreed[ts[c]] \cup {c} ELSE agreed[ts[c]] \ {c}
             states == [session[ts[c]] EXCEPT !.myState = a \/ forceTrade,
                                              !.herState = b \/ forceTrade]
  <1>0. ~ Undefined
    BY DEF Undefined
  <1>1. /\ Party(c) /\ server' = "up"
        /\ agreed' = [agreed EXCEPT ![ts[c]] = who]
        /\ a /\ b
        /\ wallet' = Payments(ts[c]).balance
        /\ Exchange(ts[c], states) \/ ExchangeThrows(ts[c], states)
    <2>1. /\ Party(c) /\ server' = "up"
          /\ agreed' = [agreed EXCEPT ![ts[c]] = who]
          /\ \/ /\ a /\ b
                /\ wallet' = Payments(ts[c]).balance
                /\ Exchange(ts[c], states) \/ ExchangeThrows(ts[c], states)
             \/ session' = [session EXCEPT ![ts[c]] = states] /\ UNCHANGED wallet
      BY <1>0 DEF ToggleAccept
    <2>2. ASSUME session' = [session EXCEPT ![ts[c]] = states], UNCHANGED wallet
          PROVE  FALSE
      <3>1. PICK s \in Created : s = ts[c]
        BY <2>1, CallOfParty
      <3>2. /\ session[s].status = "open" /\ s \in DOMAIN session
            /\ session[s] \in Session
        BY <2>1, <3>1, CallOfParty DEF Inv, TypeOK, Created
      <3>3. states.status = "open"
        BY <3>1, <3>2 DEF Session
      <3> HIDE DEF states
      <3> QED
        BY <2>2, <3>1, <3>2, <3>3
    <2> QED
      BY <2>1, <2>2
  <1>2. PICK s \in Created : s = ts[c]
    BY <1>1, CallOfParty
  <1>3. /\ session[s].status = "open" /\ c \in Parties(s)
        /\ session[s].myState \in BOOLEAN /\ session[s].herState \in BOOLEAN
    BY <1>1, <1>2, CallOfParty, FieldTypes DEF Parties, Inv
  <1>4. a \in BOOLEAN /\ b \in BOOLEAN
    BY <1>2, <1>3
  <1>5. /\ who \subseteq Parties(s)
        /\ a \/ forceTrade => session[s].my \in who
        /\ (b \/ forceTrade) /\ session[s].my # session[s].her =>
             session[s].her \in who
    <2>1. /\ a = IF c = session[s].my THEN accept ELSE session[s].myState
          /\ b = IF c = session[s].my THEN session[s].herState ELSE accept
          /\ who = IF forceTrade THEN agreed[s] \cup Parties(s)
                   ELSE IF accept THEN agreed[s] \cup {c} ELSE agreed[s] \ {c}
      BY <1>2
    <2> HIDE DEF a, b, who
    <2> QED
      BY <1>3, <1>4, <2>1, AgreedFollows
  <1>6. agreed'[s] = who
    BY <1>1, <1>2 DEF Inv, TypeOK
  <1>7. agreed'[s] = Parties(s)
    BY <1>1, <1>5, <1>6 DEF Parties
  <1>8. s \in DOMAIN session /\ session[s] \in Session
    BY DEF Inv, TypeOK, Created
  <1>9. states.status = "open"
    BY <1>2, <1>3, <1>8 DEF Session
  <1>10. Payments(s).throws <=> ~ Made(s)
    <2> HIDE DEF states, a, b, who
    <2>1. CASE Exchange(s, states)
      <3>1. [states EXCEPT !.status = "traded"].status = "traded"
        BY <1>2, <1>8 DEF states, Session
      <3>2. session'[s].status = "traded" /\ ~ Payments(s).throws
        BY <1>8, <2>1, <3>1 DEF Exchange
      <3> QED
        BY <1>1, <1>3, <3>2 DEF Made
    <2>2. CASE ExchangeThrows(s, states)
      <3>1. session'[s].status = "open" /\ Payments(s).throws
        BY <1>8, <1>9, <2>2 DEF ExchangeThrows
      <3> QED
        BY <3>1 DEF Made
    <2> QED
      BY <1>1, <1>2, <2>1, <2>2
  <1> QED
    BY <1>1, <1>2, <1>3, <1>7, <1>10 DEF Agreed

\* What holds of every step that moves money: it is for some open session whose
\* parties have agreed, and what is paid is settled for that session.
Paid(s) == Agreed(s) /\ Settled(s, wallet', ~ Made(s))

LEMMA StepPays ==
    ASSUME Inv, [Next]_vars, wallet' # wallet
    PROVE  \E s \in Created : Paid(s)
  <1>1. PICK c \in Chars, accept \in BOOLEAN, forceTrade \in BOOLEAN :
          ToggleAccept(c, accept, forceTrade)
    BY OnlyAcceptMovesMoney
  <1>2. Party(c)
    BY <1>1 DEF ToggleAccept, Undefined
  <1>3. server = "up"
    BY DEF Next, vars
  <1>4. PICK s \in Created : s = ts[c]
    BY <1>2, CallOfParty
  <1>5. /\ Agreed(s) /\ wallet' = Payments(s).balance
        /\ Payments(s).throws <=> ~ Made(s)
    BY <1>1, <1>3, <1>4, BothHaveAgreed
  <1>6. Settled(s, Payments(s).balance, Payments(s).throws)
    BY <1>5, PaymentsSettle, TradeAssumption
  <1>7. Settled(s, wallet', ~ Made(s))
    BY <1>5, <1>6 DEF Settled
  <1> QED
    BY <1>5, <1>7 DEF Paid

LEMMA MoneyIsTotal == \A f : Money(f) = Total(f, Chars)
  BY DEF Money, Total

\* Whatever payments of ExchangeItems go through or throw, and whichever sign
\* the offers have: the wallets together lose only what the cap cuts, and gain
\* only when a payment throws half done for an offer below zero.
THEOREM MoneyIsKept == Spec => MoneyKept
  <1> DEFINE Kept == Money(wallet') # Money(wallet) =>
                \E s \in Created :
                  /\ Agreed(s)
                  /\ IF Money(wallet') < Money(wallet)
                     THEN ~ HasRoom(s)
                     ELSE ~ Made(s) /\ ~ NoneBelowZero(s)
  <1>1. Inv /\ [Next]_vars => [Kept]_vars
    <2> SUFFICES ASSUME Inv, [Next]_vars, Money(wallet') # Money(wallet)
                 PROVE  \E s \in Created :
                          /\ Agreed(s)
                          /\ IF Money(wallet') < Money(wallet)
                             THEN ~ HasRoom(s)
                             ELSE ~ Made(s) /\ ~ NoneBelowZero(s)
      OBVIOUS
    <2>1. wallet' # wallet
      OBVIOUS
    <2>2. PICK s \in Created : Paid(s)
      BY <2>1, StepPays
    <2>3. /\ Money(wallet') = Total(wallet', Chars) /\ Money(wallet) = Total(wallet, Chars)
          /\ Total(wallet', Chars) \in Int
      BY <2>2, MoneyIsTotal DEF Paid, Settled
    <2>4. Total(wallet, Chars) \in Int
      <3>1. wallet \in [Chars -> Int] /\ IsFiniteSet(Chars)
        BY TradeAssumption DEF TradeAssumption, Inv, TypeOK
      <3> QED
        BY <3>1, TotalType
    <2>5. /\ Agreed(s)
          /\ Made(s) => Total(wallet', Chars) <= Total(wallet, Chars)
          /\ Made(s) /\ HasRoom(s) => Total(wallet', Chars) = Total(wallet, Chars)
          /\ ~ Made(s) /\ HasRoom(s) => Total(wallet', Chars) >= Total(wallet, Chars)
          /\ ~ Made(s) /\ NoneBelowZero(s) => Total(wallet', Chars) <= Total(wallet, Chars)
      BY <2>2 DEF Paid, Settled
    <2>6. PICK t \in Int, u \in Int : t = Money(wallet') /\ u = Money(wallet)
      BY <2>3, <2>4
    <2>7. CASE t < u
      <3>1. ~ HasRoom(s)
        BY <2>3, <2>5, <2>6, <2>7
      <3> QED
        <4>1. Money(wallet') < Money(wallet)
          BY <2>6, <2>7
        <4>2. Agreed(s) /\ IF Money(wallet') < Money(wallet)
                            THEN ~ HasRoom(s)
                            ELSE ~ Made(s) /\ ~ NoneBelowZero(s)
          BY <2>5, <3>1, <4>1
        <4> QED
          BY <4>2
    <2>8. CASE ~ (t < u)
      <3>1. ~ (t <= u)
        BY <2>6, <2>8
      <3>2. ~ Made(s) /\ ~ NoneBelowZero(s)
        <4>1. ~ (Total(wallet', Chars) <= Total(wallet, Chars))
          BY <2>3, <2>6, <3>1
        <4>2. ~ Made(s)
          BY <2>5, <4>1
        <4>3. ~ NoneBelowZero(s)
          BY <2>5, <4>1, <4>2
        <4> QED
          BY <4>2, <4>3
      <3> QED
        <4>1. ~ (Money(wallet') < Money(wallet))
          BY <2>6, <2>8
        <4>2. Agreed(s) /\ IF Money(wallet') < Money(wallet)
                            THEN ~ HasRoom(s)
                            ELSE ~ Made(s) /\ ~ NoneBelowZero(s)
          BY <2>5, <3>2, <4>1
        <4> QED
          BY <4>2
    <2> QED
      BY <2>7, <2>8
  <1> QED
    BY <1>1, Invariant, PTL DEF Spec, MoneyKept

\* Nobody pays but in an open session, for the offer both parties agreed to, and
\* nobody pays another amount, although a half-paid offer can be paid again.
THEOREM PaymentsAgreed == Spec => PaidAsAgreed
  <1> DEFINE AsAgreed == wallet' # wallet =>
         \E s \in Created :
           /\ Agreed(s)
           /\ \A c \in Chars \ Parties(s) : wallet'[c] = wallet[c]
           /\ Made(s) => \A c \in Parties(s) :
                /\ wallet'[c] <= wallet[c] + Gain(s, c)
                /\ HasRoom(s) => wallet'[c] = wallet[c] + Gain(s, c)
           /\ ~ Made(s) /\ NoneBelowZero(s) =>
                /\ wallet'[session[s].my] = wallet[session[s].my] - session[s].myMoney
                /\ wallet'[session[s].her] <= wallet[session[s].her] + session[s].myMoney
                /\ wallet'[session[s].her] >= wallet[session[s].her]
  <1>1. Inv /\ [Next]_vars => [AsAgreed]_vars
    <2> SUFFICES ASSUME Inv, [Next]_vars, wallet' # wallet PROVE AsAgreed
      OBVIOUS
    <2>1. PICK s \in Created : Paid(s)
      BY StepPays
    <2> QED
      BY <2>1 DEF Paid, Settled
  <1> QED
    BY <1>1, Invariant, PTL DEF Spec, PaidAsAgreed

-----------------------------------------------------------------------------
(* Items change hands in a trade.  Only ToggleAccept with an exchange does  *)
(* it; every other step changes no owner and makes no trade.               *)

Swaps ==
    /\ \A s \in Created : Made(s) => agreed'[s] = Parties(s)
    /\ \A i \in Items :
         /\ owner'[i] # owner[i] => \E s \in Created : i \in Listed(s) /\ Made(s)
         /\ \A s \in Created : i \in Listed(s) /\ Made(s) =>
              /\ owner'[i] = Other(s, Lister(s, i))
              /\ location'[i] = 0

LEMMA NoneMade ==
    ASSUME UNCHANGED owner, \A s \in Created : ~ Made(s)
    PROVE  Swaps
  BY DEF Swaps

LEMMA UndefinedSwaps == Undefined => Swaps
  <1> SUFFICES ASSUME Undefined PROVE Swaps
    OBVIOUS
  <1>1. UNCHANGED owner /\ server' = "undefined"
    BY DEF Undefined
  <1>2. \A s \in Created : ~ Made(s)
    BY <1>1 DEF Made
  <1> QED
    BY <1>1, <1>2, NoneMade

\* A session that is written with any status but "traded" makes no trade.
LEMMA WrittenSwaps ==
    ASSUME TypeOK, NEW s \in Created, NEW new, session' = [session EXCEPT ![s] = new],
           new.status # "traded", UNCHANGED owner
    PROVE  Swaps
  <1>1. session'[s] = new /\ \A r \in Created \ {s} : session'[r] = session[r]
    BY DEF Created
  <1>2. \A r \in Created : ~ Made(r)
    BY <1>1 DEF Made
  <1> QED
    BY <1>2, NoneMade

\* One that keeps its status does not either.
LEMMA SameStatusSwaps ==
    ASSUME \A r \in Created : session'[r].status = session[r].status,
           UNCHANGED owner
    PROVE  Swaps
  <1>1. \A r \in Created : ~ Made(r)
    BY DEF Made
  <1> QED
    BY <1>1, NoneMade

LEMMA OpenSwaps ==
    ASSUME TypeOK, Open
    PROVE  Swaps
  <1>1. ASSUME NEW c \in Chars, NEW target \in Chars, InitiateTrade(c, target)
        PROVE  Swaps
    BY <1>1, UndefinedSwaps, SameStatusSwaps DEF InitiateTrade
  <1>2. ASSUME NEW my \in Chars, NEW her \in Chars, NEW c \in Chars,
               NEW myMoney \in Amounts, NEW herMoney \in Amounts,
               CreateBoundObject(c, my, her, myMoney, herMoney)
        PROVE  Swaps
    <2>1. UNCHANGED owner
      BY <1>2 DEF CreateBoundObject
    <2>2. \A r \in Created : session'[r] = session[r]
      BY <1>2 DEF CreateBoundObject
    <2> QED
      BY <2>1, <2>2, SameStatusSwaps
  <1> QED
    BY <1>1, <1>2 DEF Open

LEMMA OfferMoneySwaps ==
    ASSUME Inv, NEW c \in Chars, NEW amount \in Amounts, OfferMoney(c, amount)
    PROVE  Swaps
  <1>1. CASE Undefined
    BY <1>1, UndefinedSwaps
  <1>2. CASE ~ Undefined
    <2>1. PICK s \in Created : s = ts[c]
      BY <1>2, CallOfParty DEF OfferMoney
    <2>2. PICK mine \in BOOLEAN : mine = (c = session[s].my)
      OBVIOUS
    <2>3. session' = [session EXCEPT
            ![s].myMoney = IF mine THEN amount ELSE @,
            ![s].herMoney = IF mine THEN @ ELSE amount,
            ![s].myState = FALSE,
            ![s].herState = FALSE]
      BY <1>2, <2>1, <2>2 DEF OfferMoney
    <2>4. Edited(s, session'[s]) /\ session'[s].status = session[s].status
      BY <2>3, MoneyOffered DEF Inv
    <2>5. UNCHANGED owner
      BY <1>2 DEF OfferMoney
    <2> QED
      BY <2>4, <2>5, SameStatusSwaps DEF Edited
  <1> QED
    BY <1>1, <1>2

LEMMA AddSwaps ==
    ASSUME Inv, NEW c \in Chars, NEW items \in SUBSET Items, Add(c, items)
    PROVE  Swaps
  <1>1. CASE Undefined
    BY <1>1, UndefinedSwaps
  <1>2. CASE ~ Undefined
    <2>1. PICK s \in Created : s = ts[c]
      BY <1>2, CallOfParty DEF Add
    <2>2. session' = [session EXCEPT
            ![s].tradelist = Appended(@, items, c),
            ![s].myState = FALSE,
            ![s].herState = FALSE]
      BY <1>2, <2>1 DEF Add
    <2>3. Edited(s, session'[s]) /\ session'[s].status = session[s].status
      BY <2>2, AddEdits DEF Inv
    <2>4. UNCHANGED owner
      BY <1>2 DEF Add
    <2> QED
      BY <2>3, <2>4, SameStatusSwaps DEF Edited
  <1> QED
    BY <1>1, <1>2

\* The exchange of session s gives each item listed there to the other party.
LEMMA ExchangeSwaps ==
    ASSUME TypeOK, NEW s \in Created, NEW states, Exchange(s, states),
           session[s].status = "open", [states EXCEPT !.status = "traded"].status = "traded",
           server' = "up", agreed'[s] = Parties(s)
    PROVE  Swaps
  <1>1. /\ owner' = [i \in Items |-> IF i \in Listed(s) THEN NewOwner(s, i) ELSE owner[i]]
        /\ location' = [i \in Items |-> IF i \in Listed(s) THEN 0 ELSE location[i]]
        /\ session' = [session EXCEPT ![s] = [states EXCEPT !.status = "traded"]]
    BY DEF Exchange
  <1>2. Made(s)
    BY <1>1 DEF Made, Created
  <1>3. \A r \in Created : Made(r) => r = s
    <2>1. \A r \in Created : r # s => session'[r] = session[r]
      BY <1>1 DEF Created
    <2> QED
      BY <2>1 DEF Made
  <1>4. \A i \in Items : i \in Listed(s) => NewOwner(s, i) = Other(s, Lister(s, i))
    BY DEF NewOwner, Other
  <1> QED
    BY <1>1, <1>2, <1>3, <1>4 DEF Swaps

LEMMA ToggleAcceptSwaps ==
    ASSUME Inv, server = "up", NEW c \in Chars, NEW accept \in BOOLEAN,
           NEW forceTrade \in BOOLEAN, ToggleAccept(c, accept, forceTrade)
    PROVE  Swaps
  <1>1. CASE Undefined
    BY <1>1, UndefinedSwaps
  <1>2. CASE ~ Undefined
    <2>1. Party(c) /\ server' = "up"
      BY <1>2 DEF ToggleAccept
    <2>2. PICK s \in Created : s = ts[c]
      BY <2>1, CallOfParty
    <2>3. session[s].status = "open"
      BY <2>1, <2>2, CallOfParty
    <2>4. session[s].myState \in BOOLEAN /\ session[s].herState \in BOOLEAN
      BY FieldTypes DEF Inv
    <2>5. PICK a \in BOOLEAN :
            a = ((IF c = session[s].my THEN accept ELSE session[s].myState) \/ forceTrade)
      BY <2>4
    <2>6. PICK b \in BOOLEAN :
            b = ((IF c = session[s].my THEN session[s].herState ELSE accept) \/ forceTrade)
      BY <2>4
    <2>7. PICK states : states = [session[s] EXCEPT !.myState = a, !.herState = b]
      OBVIOUS
    <2>8. \/ Exchange(s, states)
          \/ ExchangeThrows(s, states)
          \/ session' = [session EXCEPT ![s] = states] /\ UNCHANGED owner
      BY <1>2, <2>2, <2>5, <2>6, <2>7 DEF ToggleAccept
    <2>9. /\ states.status = "open"
          /\ [states EXCEPT !.status = "traded"].status = "traded"
      BY <2>3, <2>7, StatesSet DEF Inv
    <2>10. CASE Exchange(s, states)
      <3>1. session'[s].status = "traded"
        BY <2>9, <2>10 DEF Exchange, Created
      <3>2. agreed'[s] = Parties(s)
        BY <2>1, <2>2, <3>1, BothHaveAgreed DEF Agreed
      <3> QED
        BY <2>1, <2>3, <2>9, <2>10, <3>2, ExchangeSwaps DEF Inv
    <2>11. CASE session' = [session EXCEPT ![s] = states] /\ UNCHANGED owner
      BY <2>9, <2>11, WrittenSwaps DEF Inv
    <2>12. CASE ExchangeThrows(s, states)
      BY <2>11, <2>12 DEF ExchangeThrows
    <2> QED
      BY <2>8, <2>10, <2>11, <2>12
  <1> QED
    BY <1>1, <1>2

LEMMA CancelSwaps ==
    ASSUME TypeOK, NEW s \in Created, NEW clients, Cancel(s, clients), UNCHANGED owner
    PROVE  Swaps
  <1>1. [NewSession(session[s].my, session[s].her, 0, 0) EXCEPT !.status = "deleted"].status
          # "traded"
    BY DEF NewSession
  <1>2. session' = [session EXCEPT ![s] =
          [NewSession(session[s].my, session[s].her, 0, 0) EXCEPT !.status = "deleted"]]
    BY DEF Cancel
  <1> QED
    BY <1>1, <1>2, WrittenSwaps

LEMMA AbortSwaps ==
    ASSUME TypeOK, NEW c \in Chars, Abort(c)
    PROVE  Swaps
  <1>1. CASE Undefined
    BY <1>1, UndefinedSwaps
  <1>2. CASE ~ Undefined
    <2>1. ts[c] \in Created
      BY <1>2 DEF Abort, AnyMissing, Usable, TypeOK
    <2> QED
      BY <1>2, <2>1, CancelSwaps DEF Abort
  <1> QED
    BY <1>1, <1>2

LEMMA LeaveSwaps ==
    ASSUME TypeOK, NEW c \in Chars, NEW newPlace, Leave(c, newPlace)
    PROVE  Swaps
  <1>1. CASE Undefined
    BY <1>1, UndefinedSwaps
  <1>2. CASE ~ Undefined /\ ts[c] = 0
    BY <1>2, SameStatusSwaps DEF Leave
  <1>3. CASE ~ Undefined /\ ts[c] # 0
    <2>1. ts[c] \in Created
      BY <1>3 DEF TypeOK
    <2> QED
      BY <1>3, <2>1, CancelSwaps DEF Leave
  <1> QED
    BY <1>1, <1>2, <1>3

LEMMA StepSwaps == Inv /\ [Next]_vars => [Swaps]_vars
  <1> SUFFICES ASSUME Inv, Next PROVE Swaps
    OBVIOUS
  <1>1. TypeOK /\ bound \subseteq Chars /\ server = "up"
    BY DEF Inv, TypeOK, Next
  <1>2. CASE Open
    BY <1>1, <1>2, OpenSwaps
  <1>3. CASE Call
    <2>1. PICK c \in bound :
            \/ \E amount \in Amounts : OfferMoney(c, amount)
            \/ \E items \in SUBSET Items \ {{}} : Add(c, items)
            \/ \E accept, forceTrade \in BOOLEAN : ToggleAccept(c, accept, forceTrade)
            \/ Abort(c)
      BY <1>3 DEF Call
    <2> QED
      BY <1>1, <2>1, OfferMoneySwaps, AddSwaps, ToggleAcceptSwaps, AbortSwaps
  <1>4. CASE Move
    <2>1. PICK c \in Chars : Undock(c) \/ Logout(c) \/ Arrive(c)
      BY <1>4, TradeAssumption DEF Move, TradeAssumption
    <2>2. CASE Undock(c) \/ Logout(c)
      BY <1>1, <2>2, LeaveSwaps DEF Undock, Logout
    <2>3. CASE Arrive(c)
      BY <2>3, SameStatusSwaps DEF Arrive
    <2> QED
      BY <2>1, <2>2, <2>3
  <1> QED
    BY <1>2, <1>3, <1>4 DEF Next

\* ExchangeItems is the only way an item gets another owner: it then goes to the
\* party that did not list it, into the hangar, and so does every other item on
\* the list.
THEOREM ItemsSwapped == Spec => TradeSwapsItems
  <1>1. Inv /\ [Next]_vars => [Swaps]_vars
    BY StepSwaps
  <1>2. [Swaps]_vars <=>
          [/\ \A s \in Created : Made(s) => agreed'[s] = Parties(s)
           /\ \A i \in Items :
                /\ owner'[i] # owner[i] => \E s \in Created : i \in Listed(s) /\ Made(s)
                /\ \A s \in Created : i \in Listed(s) /\ Made(s) =>
                     /\ owner'[i] = Other(s, Lister(s, i))
                     /\ location'[i] = 0]_vars
    BY DEF Swaps
  <1> QED
    BY <1>1, <1>2, Invariant, PTL DEF Spec, TradeSwapsItems

=============================================================================
