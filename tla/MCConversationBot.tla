-------------------------- MODULE MCConversationBot --------------------------
(* Small instances of ConversationBot. *)
EXTENDS ConversationBot, TLC

CONSTANTS order, again, name, phone, two, zero, address, email, replace, both

Says(hasPhone, number, hasEmail, digits, keep) ==
  [phone |-> hasPhone, number |-> number, email |-> hasEmail, digits |-> digits,
   keep |-> keep]

(* The texts; an order may or may not be parsed as one by the AI. *)
Texts ==
  [m \in Messages |->
    CASE m = phone -> Says(TRUE, 9, FALSE, TRUE, FALSE)
      [] m = two   -> Says(FALSE, 2, FALSE, TRUE, FALSE)
      [] m = zero  -> Says(FALSE, 0, FALSE, TRUE, FALSE)
      [] m = email -> Says(FALSE, None, TRUE, FALSE, FALSE)
      [] m = both  -> Says(FALSE, None, FALSE, FALSE, TRUE)
      [] OTHER     -> Says(FALSE, None, FALSE, FALSE, FALSE)]

(* An order of a product, without a number. *)
OrderOnly == [m \in Messages |-> IF m = order THEN {{"order", "product"}} ELSE {{}}]

(* An order the parser understands in part or misses but for its intent,  *)
(* and a second one it understands.                                        *)
SomeOrder ==
  [m \in Messages |->
    CASE m = order -> {{"order", "product", "quantity"}, {"order"}}
      [] m = again -> {{"order", "product", "quantity"}}
      [] OTHER     -> {{}}]

(* Customers who have ordered before, and one who never gave an address. *)
Regulars == {Details, {"name", "phone", "email"}}

(* A customer who has ordered before, or one the page has never seen. *)
Anyone == {Details, {}}

(* A call fails or the process dies, but not both. *)
OneInterruption == faults + crashes <= 1
=============================================================================
