---------------------------- MODULE VoucherGroups ---------------------------
(***************************************************************************)
(* A group of voucher cards.  Each card is a user that gets a transfer of  *)
(* the balance of the group; an update of the group, possible until it     *)
(* starts, moves the difference and adds cards.  No database transaction   *)
(* joins the steps.                                                        *)
(***************************************************************************)
EXTENDS Integers, FiniteSets, Server

CONSTANTS
  MaxCards,       \* bound on the users that are created
  MaxCredit       \* bound on the balance of a group

ASSUME VoucherAssumption == MaxCards \in Nat /\ MaxCredit \in Nat

VARIABLES
  group,        \* the row of voucher_group; amount 0: there is none
  cards,        \* how many users were created
  cardLink,         \* the cards with a user_voucher_group
  active,       \* the cards whose user is active
  credit,       \* per card, what transfers have brought it
  spent,        \* per card, what it has paid
  voucherTask

voucherTables == <<group, cards, cardLink, active, credit, spent>>
voucherVars   == <<group, cards, cardLink, active, credit, spent, voucherTask>>

Cards == 1 .. MaxCards

VoucherGroup == [amount : 0 .. MaxCards, balance : 0 .. MaxCredit, started : BOOLEAN]

\* `old` is the group as the request read it, `fresh` the users it created.
VoucherTask ==
       {Idle}
  \cup [pc : {"group", "read", "update", "find", "activate", "move", "users", "links", "credit"},
        new : VoucherGroup, old : VoucherGroup, found : SUBSET Cards, fresh : SUBSET Cards]

VoucherTypeOK ==
  /\ group \in VoucherGroup
  /\ cards \in 0 .. MaxCards /\ cardLink \subseteq Cards /\ active \subseteq Cards
  /\ credit \in [Cards -> Int] /\ spent \in [Cards -> Nat]
  /\ voucherTask \in [Handlers -> VoucherTask]

NoGroup == [amount |-> 0, balance |-> 0, started |-> FALSE]

VoucherInit ==
  /\ group = NoGroup
  /\ cards = 0 /\ cardLink = {} /\ active = {}
  /\ credit = [c \in Cards |-> 0] /\ spent = [c \in Cards |-> 0]
  /\ voucherTask = [h \in Handlers |-> Idle]

VoucherAt(h, pc) == voucherTask[h].pc = pc

VoucherGo(h, state) == voucherTask' = [voucherTask EXCEPT ![h] = state]

VoucherTo(h, pc) == VoucherGo(h, [voucherTask[h] EXCEPT !.pc = pc])

Valid(new) == new.amount > 0 /\ new.balance > 0

\* updateBalance: one transfer for each of the users, in one save.
MoveMoney(users, amount) ==
  credit' = [c \in Cards |-> IF c \in users THEN credit[c] + amount ELSE credit[c]]
-----------------------------------------------------------------------------
(***************************************************************************)
(* createVoucherUsers: users for the numbers from offset up to amount.     *)
(***************************************************************************)
\* Mutant of NewCards: the numbers start at 0 again.
NewCards_All(new, offset) == cards + 1 .. cards + new.amount

NewCards(new, offset) == cards + 1 .. cards + (new.amount - offset)

CreateVoucherUsers(h, new, old, found) ==
  LET fresh == NewCards(new, old.amount)
  IN  /\ fresh \subseteq Cards
      /\ cards' = cards + Cardinality(fresh)
      /\ active' = IF new.started THEN active \cup fresh ELSE active
      /\ VoucherGo(h, [pc |-> IF old = NoGroup THEN "group" ELSE "links",
                       new |-> new, old |-> old, found |-> found, fresh |-> fresh])
      /\ UNCHANGED <<group, cardLink, credit, spent>>

(***************************************************************************)
(* POST /vouchergroups: users, group, links, transfers.  The name of a     *)
(* group is unique: a second group of that name fails with users left.     *)
(***************************************************************************)
BeginCreate(h, new) ==
  /\ VoucherAt(h, "idle")
  /\ Valid(new)
  /\ CreateVoucherUsers(h, new, NoGroup, {})

\* Mutant of SaveGroup: the links are left for later, the transfers come first.
SaveGroup_Unlinked(h) ==
  /\ VoucherAt(h, "group")
  /\ IF group = NoGroup
     THEN group' = voucherTask[h].new /\ VoucherTo(h, "credit")
     ELSE UNCHANGED group /\ VoucherGo(h, Idle)
  /\ UNCHANGED <<cards, cardLink, active, credit, spent>>

SaveGroup(h) ==
  /\ VoucherAt(h, "group")
  /\ IF group = NoGroup
     THEN group' = voucherTask[h].new /\ VoucherTo(h, "links")
     ELSE UNCHANGED group /\ VoucherGo(h, Idle)
  /\ UNCHANGED <<cards, cardLink, active, credit, spent>>

SaveLinks(h) ==
  /\ VoucherAt(h, "links")
  /\ cardLink' = cardLink \cup voucherTask[h].fresh
  /\ VoucherTo(h, "credit")
  /\ UNCHANGED <<group, cards, active, credit, spent>>

CreditFresh(h) ==
  /\ VoucherAt(h, "credit")
  /\ MoveMoney(voucherTask[h].fresh, voucherTask[h].new.balance)
  /\ VoucherGo(h, Idle)
  /\ UNCHANGED <<group, cards, cardLink, active, spent>>
-----------------------------------------------------------------------------
(***************************************************************************)
(* PATCH /vouchergroups/:id: the controller loads the group and refuses    *)
(* one that has started, or fewer cards; the service loads it again,       *)
(* updates it, activates the cards it finds if the group starts, moves the *)
(* difference of the balances and adds the cards that are missing.         *)
(***************************************************************************)
MayChange(new) == ~ group.started /\ new.amount >= group.amount

BeginUpdate(h, new) ==
  /\ VoucherAt(h, "idle")
  /\ Valid(new)
  /\ group # NoGroup
  /\ MayChange(new)
  /\ VoucherGo(h, [pc |-> "read", new |-> new, old |-> NoGroup, found |-> {}, fresh |-> {}])
  /\ UNCHANGED voucherTables

ReadGroup(h) ==
  /\ VoucherAt(h, "read")
  /\ VoucherGo(h, [voucherTask[h] EXCEPT !.pc = "update", !.old = group])
  /\ UNCHANGED voucherTables

UpdateGroup(h) ==
  /\ VoucherAt(h, "update")
  /\ group' = voucherTask[h].new
  /\ VoucherTo(h, "find")
  /\ UNCHANGED <<cards, cardLink, active, credit, spent>>

FindCards(h) ==
  /\ VoucherAt(h, "find")
  /\ VoucherGo(h, [voucherTask[h] EXCEPT !.pc = IF voucherTask[h].new.started THEN "activate" ELSE "move",
                                         !.found = cardLink])
  /\ UNCHANGED voucherTables

ActivateCards(h) ==
  /\ VoucherAt(h, "activate")
  /\ active' = active \cup voucherTask[h].found
  /\ VoucherTo(h, "move")
  /\ UNCHANGED <<group, cards, cardLink, credit, spent>>

MoveDifference(h) ==
  LET update == voucherTask[h]
  IN  /\ VoucherAt(h, "move")
      /\ MoveMoney(update.found, update.new.balance - update.old.balance)
      /\ IF update.old.amount < update.new.amount THEN VoucherTo(h, "users") ELSE VoucherGo(h, Idle)
      /\ UNCHANGED <<group, cards, cardLink, active, spent>>

AddCards(h) ==
  /\ VoucherAt(h, "users")
  /\ CreateVoucherUsers(h, voucherTask[h].new, voucherTask[h].old, voucherTask[h].found)
-----------------------------------------------------------------------------
(***************************************************************************)
(* The start date passes (which activates no card), an active card pays,   *)
(* and a statement fails or the process dies.                              *)
(***************************************************************************)
StartPasses ==
  /\ group # NoGroup /\ ~ group.started
  /\ group' = [group EXCEPT !.started = TRUE]
  /\ UNCHANGED <<cards, cardLink, active, credit, spent, voucherTask>>

PayByCard(h, c) ==
  /\ VoucherAt(h, "idle")
  /\ c \in active /\ credit[c] - spent[c] > 0
  /\ spent' = [spent EXCEPT ![c] = @ + 1]
  /\ UNCHANGED <<group, cards, cardLink, active, credit, voucherTask>>

VoucherFails(h) == ~ VoucherAt(h, "idle") /\ VoucherGo(h, Idle) /\ UNCHANGED voucherTables

VoucherStep ==
  \/ StartPasses
  \/ \E h \in Handlers :
       \/ \E new \in VoucherGroup : BeginCreate(h, new) \/ BeginUpdate(h, new)
       \/ \E c \in Cards : PayByCard(h, c)
       \/ SaveGroup(h) \/ SaveLinks(h) \/ CreditFresh(h) \/ ReadGroup(h) \/ UpdateGroup(h)
       \/ FindCards(h) \/ ActivateCards(h) \/ MoveDifference(h) \/ AddCards(h)

VoucherNext == VoucherStep \/ \E h \in Handlers : VoucherFails(h)

VoucherSpec == VoucherInit /\ [][VoucherNext]_voucherVars
-----------------------------------------------------------------------------
(***************************************************************************)
(* However requests interleave and fail, a card that is not linked to the  *)
(* group holds no money: the users left by a failed creation are empty.    *)
(***************************************************************************)
CreditIsLinked == \A c \in Cards : credit[c] # 0 => c \in cardLink

(***************************************************************************)
(* With one request at a time and no failure, at rest the group has the    *)
(* cards and each card got the money that the group says, after any number *)
(* of updates, and no update took back money that a card had spent.        *)
(***************************************************************************)
CardsMatchGroup ==
  (\A h \in Handlers : VoucherAt(h, "idle")) =>
    /\ Cardinality(cardLink) = group.amount
    /\ \A c \in cardLink : credit[c] = group.balance
    /\ \A c \in Cards : spent[c] <= credit[c]
=============================================================================
