---------------------------- MODULE TradeService ----------------------------
(***************************************************************************)
(* Two-party trades in one station (eve-server/station/TradeService.cpp    *)
(* and the places in Client.cpp that end a trade).  One call is one step:  *)
(* the main thread dispatches calls one at a time.                         *)
(*                                                                         *)
(* A TradeSession is reached through raw pointers (Client::m_TS and the    *)
(* map m_activeSessions).  It is a number here, a deleted one keeps its    *)
(* number, and a null or deleted pointer that is used leaves the server    *)
(* "undefined", after which nothing is claimed.                            *)
(*                                                                         *)
(* A client that has a TradeBound object may always have a call on its     *)
(* way.  Handle_Add compares neither the owner nor the place of an item    *)
(* with the caller, and OfferMoney stores any number, so that both are     *)
(* modelled without a guard; AlterBalance checks the wallet only when the  *)
(* money moves, and cuts what would go beyond MaxBalance (a trillion ISK). *)
(* Money is counted in whole units, without the rounding of a float.       *)
(***************************************************************************)
EXTENDS Integers, FiniteSetsExt

CONSTANTS Chars, Items,
          Owner0,       \* who owns each item at first
          Wallet0,      \* the balance of each character at first
          Amounts,      \* the money a client may put on the table
          MaxBalance,   \* what AlterBalance cuts a balance to
          Pairs,        \* bound on who initiates a trade with whom
          Movers,       \* bound on who undocks, docks, logs in and out
          MaxSessions   \* bound on the trade sessions created

ASSUME TradeAssumption ==
    /\ IsFiniteSet(Chars)
    /\ Owner0 \in [Items -> Chars]
    /\ MaxBalance \in Nat
    /\ Wallet0 \in [Chars -> 0..MaxBalance]
    /\ Amounts \subseteq Int
    /\ Pairs \subseteq Chars \X Chars
    /\ Movers \subseteq Chars
    /\ MaxSessions \in Nat

VARIABLES
    server,    \* "up" or "undefined"
    place,     \* where each character is
    pending,   \* <<myID, herID, c>>: c was told of the trade and may bind it
    bound,     \* characters that hold a TradeBound object
    session,   \* the TradeSession objects created so far
    ts,        \* Client::m_TS of each character, 0 for null
    active,    \* m_activeSessions: the session each character is in, 0 for none
    owner,     \* owner of each item
    location,  \* the session whose container holds the item, 0 for any other place
    wallet,    \* the balance of each character
    agreed,    \* history: per session, who has accepted what now lies on the table
    taken      \* history: per session, whether money has moved for it

vars == <<server, place, pending, bound, session, ts, active, owner, location,
          wallet, agreed, taken>>

Ids == 1..MaxSessions
Place == {"docked", "space", "offline"}
Created == DOMAIN session

\* "open" while the object can be used, "traded" once the exchange is made (the
\* object is never deleted then) and "deleted" after a cancel.  Of m_tradelist only the
\* last entry of an item counts, as the loops over it go from first to last.
Session == [my : Chars, her : Chars, status : {"open", "traded", "deleted"},
            myState : BOOLEAN, herState : BOOLEAN,
            myMoney : Amounts \cup {0}, herMoney : Amounts \cup {0},
            tradelist : SUBSET (Items \X Chars)]

Online(c) == place[c] # "offline"
Parties(s) == {session[s].my, session[s].her}
NoneOf(f, keys) == [c \in Chars |-> IF c \in keys THEN 0 ELSE f[c]]

\* The pointer of c can be followed.
Usable(c) == ts[c] # 0 /\ session[ts[c]].status # "deleted"

\* Using the session of c, or the client of the party herID, or both parties'
\* clients, meets a pointer that is null or dangling.
HerMissing(c) == IF Usable(c) THEN ~ Online(session[ts[c]].her) ELSE TRUE
AnyMissing(c) == IF Usable(c) THEN \E p \in Parties(ts[c]) : ~ Online(p) ELSE TRUE

\* A call about the offer by c: either the pointers hold and c is of the trade,
\* or the call ends before it changes anything (c is neither my nor her).
Party(c) == ~ AnyMissing(c) /\ c \in Parties(ts[c])
Misled(c) == AnyMissing(c) /\ (Usable(c) => c \in Parties(ts[c]))

\* The step ends in undefined behaviour; of the state, what the database holds
\* is kept, and no property is claimed of it.
Undefined ==
    /\ server' = "undefined"
    /\ place' = [c \in Chars |-> "offline"]
    /\ pending' = {}
    /\ bound' = {}
    /\ session' = <<>>
    /\ ts' = [c \in Chars |-> 0]
    /\ active' = [c \in Chars |-> 0]
    /\ agreed' = [s \in Ids |-> {}]
    /\ taken' = [s \in Ids |-> FALSE]
    /\ UNCHANGED <<owner, location, wallet>>

-----------------------------------------------------------------------------
(* Opening a trade.                                                        *)

\* Handle_InitiateTrade.  For a target that is trading already the error
\* message is made from the session of the caller, which is null.
InitiateTrade(c, target) ==
    /\ Online(c)
    /\ <<c, target>> \in Pairs
    /\ \/ /\ ts[c] # 0
          /\ HerMissing(c)
          /\ Undefined
       \/ /\ ts[c] = 0
          /\ ~ Online(target) \/ ts[target] # 0
          /\ Undefined
       \/ /\ ts[c] = 0
          /\ Online(target) /\ ts[target] = 0
          /\ pending' = pending \cup {<<c, target, c>>, <<c, target, target>>}
          /\ UNCHANGED <<server, place, bound, session, ts, active, owner,
                         location, wallet, agreed, taken>>

NewSession(my, her, myMoney, herMoney) ==
    [my |-> my, her |-> her, status |-> "open",
     myState |-> FALSE, herState |-> FALSE,
     myMoney |-> myMoney, herMoney |-> herMoney, tradelist |-> {}]

\* CreateBoundObject: join the session of myID if there is one, else make one
\* for both, with the money that the bind arguments say.  insert() leaves an
\* entry that is there already.
CreateBoundObject(c, my, her, myMoney, herMoney) ==
    /\ <<my, her, c>> \in pending
    /\ place[c] = "docked"
    /\ pending' = pending \ {<<my, her, c>>}
    /\ bound' = bound \cup {c}
    /\ \/ /\ active[my] # 0
          /\ ts' = [ts EXCEPT ![c] = active[my]]
          /\ UNCHANGED <<session, active, agreed, taken>>
       \/ /\ active[my] = 0
          /\ \E s \in Ids \ Created :
               /\ \A r \in Ids \ Created : s <= r
               /\ session' = [r \in Created \cup {s} |->
                               IF r = s THEN NewSession(my, her, myMoney, herMoney)
                                        ELSE session[r]]
               /\ ts' = [ts EXCEPT ![c] = s]
               /\ active' = [a \in Chars |->
                               IF a \in {my, her} /\ active[a] = 0 THEN s ELSE active[a]]
               /\ agreed' = [agreed EXCEPT ![s] = {}]
               /\ taken' = [taken EXCEPT ![s] = FALSE]
    /\ UNCHANGED <<server, place, owner, location, wallet>>

-----------------------------------------------------------------------------
(* Changing the offer.  Each change takes both acceptances back.           *)

\* Mutant of OfferMoney: the acceptances stay.
OfferMoneyKeepsStates(c, amount) ==
    /\ Party(c)
    /\ session' = IF c = session[ts[c]].my
                  THEN [session EXCEPT ![ts[c]].myMoney = amount]
                  ELSE [session EXCEPT ![ts[c]].herMoney = amount]
    /\ agreed' = [agreed EXCEPT ![ts[c]] = {}]
    /\ UNCHANGED <<server, place, pending, bound, ts, active, owner, location,
                   wallet, taken>>

\* Handle_OfferMoney.
OfferMoney(c, amount) ==
    \/ Misled(c) /\ Undefined
    \/ /\ Party(c)
       /\ session' = [session EXCEPT
            ![ts[c]].myMoney = IF c = session[ts[c]].my THEN amount ELSE @,
            ![ts[c]].herMoney = IF c = session[ts[c]].my THEN @ ELSE amount,
            ![ts[c]].myState = FALSE,
            ![ts[c]].herState = FALSE]
       /\ agreed' = [agreed EXCEPT ![ts[c]] = {}]
       /\ UNCHANGED <<server, place, pending, bound, ts, active, owner, location,
                      wallet, taken>>

\* Mutant of Add: the items go into the trade container, but on no list.
AddUnlisted(c, items) ==
    /\ Party(c)
    /\ location' = [i \in Items |-> IF i \in items THEN ts[c] ELSE location[i]]
    /\ session' = [session EXCEPT ![ts[c]].myState = FALSE, ![ts[c]].herState = FALSE]
    /\ agreed' = [agreed EXCEPT ![ts[c]] = {}]
    /\ UNCHANGED <<server, place, pending, bound, ts, active, owner, wallet, taken>>

\* m_tradelist with entries of c for the items after those it has.
Appended(tradelist, items, c) ==
    {entry \in tradelist : entry[1] \notin items} \cup (items \X {c})

\* Handle_Add and Handle_MultiAdd, for items of any owner in any place, another
\* trade container included.
Add(c, items) ==
    \/ Misled(c) /\ Undefined
    \/ /\ Party(c)
       /\ location' = [i \in Items |-> IF i \in items THEN ts[c] ELSE location[i]]
       /\ session' = [session EXCEPT
            ![ts[c]].tradelist = Appended(@, items, c),
            ![ts[c]].myState = FALSE,
            ![ts[c]].herState = FALSE]
       /\ agreed' = [agreed EXCEPT ![ts[c]] = {}]
       /\ UNCHANGED <<server, place, pending, bound, ts, active, owner, wallet, taken>>

-----------------------------------------------------------------------------
(* The end of a trade.                                                     *)

\* What lies in session s of the parties, as its list says.
Listed(s) == {entry[1] : entry \in session[s].tradelist}
Lister(s, i) == CHOOSE c \in Chars : <<i, c>> \in session[s].tradelist

\* Mutant of CanAlter: AlterBalance without its test of the balance.
CanAlterAlways(balance, c, amount) == TRUE

\* Character::AlterBalance throws rather than leave a balance below zero, and
\* cuts one above MaxBalance without a word.
CanAlter(balance, c, amount) == balance[c] + amount >= 0
Altered(balance, c, amount) ==
    [balance EXCEPT ![c] = IF @ + amount > MaxBalance THEN MaxBalance ELSE @ + amount]

\* Mutant of TransferFunds: the payer is not charged.
TransferFundsUncharged(balance, from, to, amount) ==
    [balance |-> Altered(balance, to, amount), throws |-> FALSE]

\* AccountService::TransferFunds between two characters that are online: what is
\* done before a throw stays done.
TransferFunds(balance, from, to, amount) ==
    LET charged == Altered(balance, from, -amount)
    IN  IF ~ CanAlter(balance, from, -amount)
          THEN [balance |-> balance, throws |-> TRUE]
        ELSE IF ~ CanAlter(charged, to, amount)
          THEN [balance |-> charged, throws |-> TRUE]
        ELSE [balance |-> Altered(charged, to, amount), throws |-> FALSE]

\* Both payments of ExchangeItems, which it makes if either is above zero.
Payments(s) ==
    LET my == session[s].my
        her == session[s].her
        first == TransferFunds(wallet, my, her, session[s].myMoney)
    IN  IF ~ (session[s].myMoney > 0 \/ session[s].herMoney > 0)
          THEN [balance |-> wallet, throws |-> FALSE]
        ELSE IF first.throws THEN first
        ELSE TransferFunds(first.balance, her, my, session[s].herMoney)

\* Mutant of NewOwner: the list's owner compared with the wrong party.
NewOwnerSwapped(s, i) ==
    IF Lister(s, i) = session[s].her THEN session[s].her ELSE session[s].my

NewOwner(s, i) ==
    IF Lister(s, i) = session[s].my THEN session[s].her ELSE session[s].my

\* ExchangeItems goes through: both payments, then every listed item to the
\* other party's hangar; then the session is taken out of the books.
Exchange(s, states) ==
    /\ ~ Payments(s).throws
    /\ owner' = [i \in Items |-> IF i \in Listed(s) THEN NewOwner(s, i) ELSE owner[i]]
    /\ location' = [i \in Items |-> IF i \in Listed(s) THEN 0 ELSE location[i]]
    /\ session' = [session EXCEPT ![s] = [states EXCEPT !.status = "traded"]]
    /\ active' = NoneOf(active, Parties(s))
    /\ ts' = NoneOf(ts, Parties(s))

\* A payment throws: what is set and paid so far stays, nothing else happens.
ExchangeThrows(s, states) ==
    /\ Payments(s).throws
    /\ session' = [session EXCEPT ![s] = states]
    /\ UNCHANGED <<owner, location, active, ts>>

\* Handle_ToggleAccept.  forceTrade sets both states of the session, while the
\* test for the exchange looks at the states from before.
ToggleAccept(c, accept, forceTrade) ==
    \/ Misled(c) /\ Undefined
    \/ /\ Party(c)
       /\ LET s == ts[c]
              mine == c = session[s].my
              myAccept == IF mine THEN accept ELSE session[s].myState
              herAccept == IF mine THEN session[s].herState ELSE accept
              states == [session[s] EXCEPT !.myState = myAccept \/ forceTrade,
                                           !.herState = herAccept \/ forceTrade]
          IN  /\ agreed' = [agreed EXCEPT ![s] =
                   IF forceTrade THEN @ \cup Parties(s)
                   ELSE IF accept THEN @ \cup {c} ELSE @ \ {c}]
              /\ \/ /\ myAccept /\ herAccept
                    /\ wallet' = Payments(s).balance
                    /\ taken' = [taken EXCEPT ![s] = @ \/ wallet' # wallet]
                    /\ Exchange(s, states) \/ ExchangeThrows(s, states)
                 \/ /\ ~ (myAccept /\ herAccept)
                    /\ session' = [session EXCEPT ![s] = states]
                    /\ UNCHANGED <<wallet, taken, owner, location, active, ts>>
       /\ UNCHANGED <<server, place, pending, bound>>

\* Mutant of Cancel: only the session of myID is taken out of the books.
CancelKeepsHer(s, clients) ==
    /\ location' = [i \in Items |-> IF i \in Listed(s) THEN 0 ELSE location[i]]
    /\ session' = [session EXCEPT ![s] = [NewSession(@.my, @.her, 0, 0) EXCEPT !.status = "deleted"]]
    /\ agreed' = [agreed EXCEPT ![s] = {}]
    /\ active' = NoneOf(active, {session[s].my})
    /\ ts' = NoneOf(ts, clients)

\* TradeBound::CancelTrade and what both its callers do next: the listed items
\* go back to the hangar, the session is deleted and forgotten by clients.
Cancel(s, clients) ==
    /\ location' = [i \in Items |-> IF i \in Listed(s) THEN 0 ELSE location[i]]
    /\ session' = [session EXCEPT ![s] = [NewSession(@.my, @.her, 0, 0) EXCEPT !.status = "deleted"]]
    /\ agreed' = [agreed EXCEPT ![s] = {}]
    /\ active' = NoneOf(active, Parties(s))
    /\ ts' = NoneOf(ts, clients)

\* Handle_Abort.
Abort(c) ==
    \/ AnyMissing(c) /\ Undefined
    \/ /\ ~ AnyMissing(c)
       /\ Cancel(ts[c], Parties(ts[c]))
       /\ UNCHANGED <<server, place, pending, bound, owner, wallet, taken>>

\* TradeService::CancelTrade, when c leaves for newPlace.  The other client is
\* looked up under herID whoever leaves.
Leave(c, newPlace) ==
    \/ /\ ts[c] # 0
       /\ HerMissing(c)
       /\ Undefined
    \/ /\ IF ts[c] = 0
          THEN UNCHANGED <<location, session, active, ts, agreed>>
          ELSE /\ ~ HerMissing(c)
               /\ Cancel(ts[c], {c, session[ts[c]].her})
       /\ place' = [place EXCEPT ![c] = newPlace]
       /\ bound' = IF newPlace = "offline" THEN bound \ {c} ELSE bound
       /\ pending' = {p \in pending : p[3] # c}
       /\ UNCHANGED <<server, owner, wallet, taken>>

\* Client::UndockFromStation and ~Client.
Undock(c) == place[c] = "docked" /\ Leave(c, "space")

Logout(c) == place[c] # "offline" /\ Leave(c, "offline")

\* Docking, and logging in in the station.
Arrive(c) ==
    /\ place[c] # "docked"
    /\ place' = [place EXCEPT ![c] = "docked"]
    /\ UNCHANGED <<server, pending, bound, session, ts, active, owner, location,
                   wallet, agreed, taken>>

-----------------------------------------------------------------------------
Init ==
    /\ server = "up"
    /\ place = [c \in Chars |-> "docked"]
    /\ pending = {}
    /\ bound = {}
    /\ session = <<>>
    /\ ts = [c \in Chars |-> 0]
    /\ active = [c \in Chars |-> 0]
    /\ owner = Owner0
    /\ location = [i \in Items |-> 0]
    /\ wallet = Wallet0
    /\ agreed = [s \in Ids |-> {}]
    /\ taken = [s \in Ids |-> FALSE]

Open ==
    \E my, her \in Chars :
      \/ InitiateTrade(my, her)
      \/ \E c \in {my, her}, myMoney, herMoney \in Amounts :
           CreateBoundObject(c, my, her, myMoney, herMoney)

Call ==
    \E c \in bound :
      \/ \E amount \in Amounts : OfferMoney(c, amount)
      \/ \E items \in SUBSET Items \ {{}} : Add(c, items)
      \/ \E accept, forceTrade \in BOOLEAN : ToggleAccept(c, accept, forceTrade)
      \/ Abort(c)

Move == \E c \in Movers : Undock(c) \/ Logout(c) \/ Arrive(c)

Next == server = "up" /\ (Open \/ Call \/ Move)

Spec == Init /\ [][Next]_vars

-----------------------------------------------------------------------------
(* Properties.                                                             *)

TypeOK ==
    /\ server \in {"up", "undefined"}
    /\ place \in [Chars -> Place]
    /\ pending \subseteq Chars \X Chars \X Chars
    /\ bound \subseteq Chars
    /\ Created \subseteq Ids
    /\ \A s \in Created : session[s] \in Session
    /\ ts \in [Chars -> Created \cup {0}]
    /\ active \in [Chars -> Created \cup {0}]
    /\ owner \in [Items -> Chars]
    /\ location \in [Items -> Ids \cup {0}]
    /\ wallet \in [Chars -> 0..MaxBalance]
    /\ agreed \in [Ids -> SUBSET Chars]
    /\ taken \in [Ids -> BOOLEAN]

\* An item in a trade container is on the list of that session, which is open:
\* whatever ends the trade finds it there and takes it out, although an item may
\* be listed in several trades, or twice in one, and be in one container only
\* (Handle_Add and Handle_MultiAdd look neither at its owner nor at its place).
HeldIsListed ==
    \A i \in Items :
      server = "up" /\ location[i] # 0 =>
        session[location[i]].status = "open" /\ i \in Listed(location[i])

\* A trade is made only when both parties have accepted, or one has forced,
\* what was on the table, with no change of the offer since.
TradedIsAgreed ==
    \A s \in Created : session[s].status = "traded" => agreed[s] = Parties(s)

\* Session s goes through in this step.
Made(s) ==
    /\ server' = "up"
    /\ session[s].status = "open"
    /\ session'[s].status = "traded"

\* Session s is open and this step acts for both its parties.
Agreed(s) == session[s].status = "open" /\ agreed'[s] = Parties(s)

Money(balance) == MapThenSumSet(LAMBDA c : balance[c], Chars)
AtLeast0(n) == IF n < 0 THEN 0 ELSE n
NoneBelowZero(s) == session[s].myMoney >= 0 /\ session[s].herMoney >= 0

\* What c is credited by the payments of session s, and whether the wallets of
\* both parties can take that without reaching the cap.
Credit(s, c) ==
    LET m == session[s].myMoney
        h == session[s].herMoney
    IN  (IF c = session[s].my THEN AtLeast0(-m) + AtLeast0(h) ELSE 0)
        + (IF c = session[s].her THEN AtLeast0(m) + AtLeast0(-h) ELSE 0)

HasRoom(s) == \A c \in Parties(s) : wallet[c] + Credit(s, c) <= MaxBalance

\* ExchangeItems calls TransferFunds twice and undoes nothing when the second
\* throws; it can be called again after that, and a character may trade with
\* itself.  Still, the wallets together lose nothing but what the cap cuts, and
\* they gain only where a payment throws half done, which takes an offer below
\* zero: a trade that goes through, or one with no such offer, makes no money.
MoneyKept ==
    [][Money(wallet') # Money(wallet) =>
         \E s \in Created :
           /\ Agreed(s)
           /\ IF Money(wallet') < Money(wallet)
              THEN ~ HasRoom(s)
              ELSE ~ Made(s) /\ ~ NoneBelowZero(s)]_vars

\* What c gains by the money on the table of session s.
Gain(s, c) ==
    IF session[s].my = session[s].her THEN 0
    ELSE IF c = session[s].my THEN session[s].herMoney - session[s].myMoney
    ELSE session[s].myMoney - session[s].herMoney

\* Money moves only in an open session both of whose parties have accepted, or
\* one has forced, what now lies on the table, and only between these two.  If
\* the trade goes through each gains the difference of the two offers, whichever
\* sign they have, less what the cap cuts; if it throws for want of money the
\* first offer alone is paid.  Calls of outsiders, crossing sessions and a
\* repeated acceptance pay nothing else (Handle_ToggleAccept, ExchangeItems).
PaidAsAgreed ==
    [][wallet' # wallet =>
         \E s \in Created :
           /\ Agreed(s)
           /\ \A c \in Chars \ Parties(s) : wallet'[c] = wallet[c]
           /\ Made(s) => \A c \in Parties(s) :
                /\ wallet'[c] <= wallet[c] + Gain(s, c)
                /\ HasRoom(s) => wallet'[c] = wallet[c] + Gain(s, c)
           /\ ~ Made(s) /\ NoneBelowZero(s) =>
                /\ wallet'[session[s].my] = wallet[session[s].my] - session[s].myMoney
                /\ wallet'[session[s].her] <= wallet[session[s].her] + session[s].myMoney
                /\ wallet'[session[s].her] >= wallet[session[s].her]]_vars

\* The party of session s that c is not.
Other(s, c) == IF c = session[s].my THEN session[s].her ELSE session[s].my

\* A session is traded only when both parties have accepted what is on the
\* table.  Items change hands only when a session they are listed in is traded,
\* and then each listed item leaves its container and goes to the party that
\* did not list it last, whoever owned it before: ExchangeItems goes by the
\* list, which Handle_Add fills without a look at the item's owner.
TradeSwapsItems ==
    [][/\ \A s \in Created : Made(s) => agreed'[s] = Parties(s)
       /\ \A i \in Items :
            /\ owner'[i] # owner[i] => \E s \in Created : i \in Listed(s) /\ Made(s)
            /\ \A s \in Created : i \in Listed(s) /\ Made(s) =>
                 /\ owner'[i] = Other(s, Lister(s, i))
                 /\ location'[i] = 0]_vars

\* An entry of m_activeSessions leads to a session of that character that is
\* not deleted, although the pointers in the clients may dangle.
ActiveIsOpen ==
    \A c \in Chars : active[c] # 0 =>
      c \in Parties(active[c]) /\ session[active[c]].status = "open"

\* TradeBound::CancelTrade's comment: no money has been taken when a trade is
\* cancelled.
CancelledTookNothing ==
    \A s \in Created : session[s].status = "deleted" => ~ taken[s]
=============================================================================
