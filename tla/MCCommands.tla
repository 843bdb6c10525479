------------------------------ MODULE MCCommands ------------------------------
(* Two invocations at once, over every store and every token file.         *)
EXTENDS Commands

CONSTANTS p1, p2, src, box, g0, g1, g2

Store(v, rows, used) == Contract!StoreOf(v, rows, used)

(* A whole store of each version, with what its version could hold.        *)
WholeStores == {Store(0, {}, {}), Store(1, {}, {}), Store(2, {src}, {}), Store(3, {src, box}, {box}),
                Store(4, {src, box}, {src}), Store(5, {src, box}, {src, box})}

(* A foreign file, a newer store, and stores that lost a table, a trigger  *)
(* or a row.                                                               *)
OtherStores == {[Store(0, {}, {}) EXCEPT !.tables = {"other"}], [Store(5, {}, {}) EXCEPT !.version = 6],
                [Store(3, {src}, {src}) EXCEPT !.tables = {"work"}],
                [Store(4, {src}, {}) EXCEPT !.triggers = {"work"}],
                [Store(2, {src}, {src}) EXCEPT !.rows = {}]}

Token(exact, renewable) == [grant |-> g0, exact |-> exact, renewable |-> renewable]

SomeTokens == {NoToken, Garbled, Token(TRUE, TRUE), Token(TRUE, FALSE), Token(FALSE, TRUE)}

Granted(status) == grants = [g \in Grants |-> IF g \in stored THEN status ELSE "unissued"]

Asks(k1, k2) == cmd = [p \in Procs |-> Asked(IF p = p1 THEN k1 ELSE k2)]

(* A mutation and a query over any store with a token at hand; two that    *)
(* need access at once, or one and one that does not, over any token; and  *)
(* a durable scan beside one that renews the same token.                   *)
StoreCase == /\ db \in WholeStores \cup OtherStores
             /\ file = Token(TRUE, TRUE) /\ stored = {g0} /\ Granted("live")
             /\ Asks("save", "query")
TokenCase == /\ db = Store(5, {src}, {src})
             /\ file \in SomeTokens
             /\ stored = {g \in {g0} : file \in Credentials} /\ (Granted("live") \/ Granted("expired"))
             /\ \/ Asks("learn", "look") \/ Asks("scan", "categories")
                \/ Asks("scan", "review") /\ file = Token(TRUE, TRUE)

MCInit ==
  /\ StoreCase \/ TokenCase
  /\ Findable(db)
  /\ folder \in BOOLEAN /\ (~folder => db = Empty)
  /\ conn = [p \in Procs |-> Closed]
  /\ auth = [p \in Procs |-> NoLease]

MCSpec == MCInit /\ [][CommandsNext]_commandVars

MCFairSpec == MCSpec /\ CommandsFairness
==============================================================================
