------------------------------ MODULE RateCards ------------------------------
(***************************************************************************)
(* The rate cards of PostgresMeteringLedger (persistence/governance.py)    *)
(* behind billing/api.py.  update_rate_card and activate_rate_card look    *)
(* the card up in a transaction before the one that changes it.            *)
(***************************************************************************)
EXTENDS Naturals

CONSTANTS
  Cards,        \* rate card ids
  CardClients   \* concurrent requests

VARIABLES
  cards,        \* price_rate_cards: id -> status, or "none"
  cardJob       \* per client: the card it looked up and what to do with it

cardVars == <<cards, cardJob>>
NoCard == [step |-> "idle"]

CardInit ==
  /\ cards = [c \in Cards |-> "none"]
  /\ cardJob = [b \in CardClients |-> NoCard]

CreateCard(c) ==
  /\ cards[c] = "none"
  /\ cards' = [cards EXCEPT ![c] = "draft"]
  /\ UNCHANGED cardJob

FindCard(b, c, next) ==
  /\ cardJob[b] = NoCard /\ cards[c] # "none"
  /\ cardJob' = [cardJob EXCEPT ![b] = [step |-> next, card |-> c]]
  /\ UNCHANGED cards

\* Mutant: the update inserts the row when it is gone.
SaveCard(c, status) == [cards EXCEPT ![c] = status]

\* UPDATE ... WHERE rate_card_id: no row, no change.
UpdateCard(c, status) == [cards EXCEPT ![c] = IF @ = "none" THEN @ ELSE status]

\* An update leaves the status alone.
ChangeCard(b) ==
  /\ cardJob[b] # NoCard
  /\ cards' = IF cardJob[b].step = "activate" THEN UpdateCard(cardJob[b].card, "active") ELSE cards
  /\ cardJob' = [cardJob EXCEPT ![b] = NoCard]

DeleteCard(c) ==
  /\ cards[c] # "none"
  /\ cards' = [cards EXCEPT ![c] = "none"]
  /\ UNCHANGED cardJob

CardNext ==
  \/ \E c \in Cards : CreateCard(c) \/ DeleteCard(c)
  \/ \E b \in CardClients :
       \/ ChangeCard(b)
       \/ \E c \in Cards, next \in {"update", "activate"} : FindCard(b, c, next)

CardSpec == CardInit /\ [][CardNext]_cardVars

\* A deleted card comes back only through create, as a draft, also when it is
\* deleted between the lookup and the update of another request.
DeletedCardsStayDeleted ==
  [][\A c \in Cards : cards[c] = "none" => cards'[c] \in {"none", "draft"}]_cardVars
=============================================================================
