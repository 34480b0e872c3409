---------------------------- MODULE MCMailboxSync ----------------------------
(* TLC's instance of MailboxSync: a reply under two sweeps while the Ask is    *)
(* resolved; that reply and an automatic one to it, while a person moves them; *)
(* messages that name no thread, from two addresses of one person, while they  *)
(* are moved; and two delivery reports under two sweeps.                       *)
EXTENDS MailboxSync

CONSTANTS reply, auto, first, second, third, w1, w2, q1, q2, late, bounce, s1, s2

Note(address, parent, from, topic, hours) ==
  [reply |-> address, parent |-> parent, from |-> from, topic |-> topic, human |-> TRUE, files |-> FALSE, hours |-> hours]
MailOf == [m \in Mails |->
  CASE m = reply -> [Note(TRUE, Sent, "ann", "ask", 1) EXCEPT !.files = TRUE]
    [] m = auto -> [Note(FALSE, reply, "ann", "ask", 1) EXCEPT !.human = FALSE]
    [] m = first -> Note(FALSE, None, "bob", "bill", 1)
    [] m = second -> Note(FALSE, None, "bob", "bill", 1)
    [] m = third -> Note(FALSE, first, "bob2", "trip", 400)]
KindOf == [d \in Reports |-> IF d = late THEN "delivered" ELSE "bounced"]
PersonOf == [a \in {"ann", "bob", "bob2"} |-> IF a = "ann" THEN None ELSE "Bob"]

Scene(receipts, workers, requests, limit, trouble) ==
  [receipts |-> receipts, workers |-> workers, requests |-> requests, moves |-> limit,
   faults |-> trouble, asked |-> {"ann"}, provider |-> None, syncers |-> {}, arrives |-> {}, garbled |-> {}]
Connected(provider, arrives, syncers, requests, limit, trouble) ==
  [Scene({}, {}, requests, limit, trouble) EXCEPT !.provider = provider, !.arrives = arrives, !.syncers = syncers]
ScenesOf == {Scene({reply}, {w1, w2}, {q1}, 1, 1),
             Scene({reply, auto}, {w1}, {q1, q2}, 1, 0),
             Scene({first, second, third}, {w1}, {}, 2, 0),
             Scene({late, bounce}, {w1, w2}, {}, 0, 1),
             Connected("gmail", {first, second}, {s1}, {}, 1, 0),
             Connected("gmail", {first}, {s1, s2}, {}, 0, 1),
             Connected("outlook", {first}, {s1, s2}, {}, 1, 1),
             Connected("gmail", {reply, first}, {s1}, {q1}, 0, 0)}
            \cup {[Connected(provider, {first, second}, {s1}, {}, 0, 0) EXCEPT !.garbled = {second}] :
                    provider \in {"gmail", "outlook"}}
=============================================================================
