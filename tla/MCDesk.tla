------------------------------- MODULE MCDesk -------------------------------
(* A small instance of Desk: two accounts, a few sessions, one setting, and *)
(* what is asked in each behaviour.                                        *)
EXTENDS Desk

CONSTANTS u1, u2, k1, k2, k3, app, p1, p2, cake, low, high

Ask(op, cred, of, arg) == [op |-> op, cred |-> cred, of |-> of, arg |-> arg]
Update(cred, of, role, disabled, pw) ==
    Ask("update", cred, of, [role |-> role, disabled |-> disabled, pw |-> pw])
Login(u, p) == Ask("login", None, u, [current |-> p, new |-> None])
Setup(u) == Ask("setup", None, u, [current |-> p1, new |-> None])
Password(cred, from, to) == Ask("password", cred, None, [current |-> from, new |-> to])

Person(role, disabled) == [role |-> role, disabled |-> disabled, pw |-> p1]
Session(u, n) == [user |-> u, pw |-> p1, n |-> n]
Empty == [accounts |-> [u \in Users |-> None], session |-> [k \in Tokens |-> None],
          keys |-> [k \in Keys |-> None], default |-> [s \in Settings |-> low],
          valid |-> [s \in Settings |-> {low, high, None}], stored |-> [s \in Settings |-> NoRow]]
Alone == [Empty EXCEPT !.accounts[u1] = Person("edit", FALSE), !.session[k1] = Session(u1, 0)]
Pair(role) == [Alone EXCEPT !.accounts[u2] = Person(role, FALSE), !.session[k2] = Session(u2, 1)]
With(start, asks) ==
    [f \in DOMAIN start \cup {"asked"} |-> IF f = "asked" THEN asks ELSE start[f]]

Stories ==
    { With(Empty, {Setup(u1), Setup(u2)}),
      With(Pair("edit"), {Ask("delete", k1, u2, None), Update(k2, u1, "read", None, None)}),
      With(Pair("edit"), {Update(k1, u2, None, TRUE, None), Update(k1, u2, "edit", FALSE, None),
                          Ask("delete", k2, u1, None)}),
      With(Pair("read"), {Update(k1, u2, "edit", None, None), Update(k1, u2, "read", None, None),
                          Ask("delete", k2, u1, None)}),
      With(Pair("read"), {Password(k2, p1, p2), Update(k1, u2, None, None, p2), Login(u2, p1)}),
      With(Pair("read"), {Password(k2, p1, p2), Password(k2, p2, p1)}),
      With(Alone, {Login(u1, p1), Ask("logout", k1, None, None), Ask("close others", k2, None, None),
                   Ask("close one", k1, k2, None)}),
      With(Alone, {Ask("create", k1, u2, [role |-> "read", pw |-> p1]), Login(u2, p1),
                   Ask("key", k1, app, "write"), Ask("key", app, app, "delete")}),
      With(Alone, {Ask("key", k1, app, a) : a \in {"write", "off", "on", "delete"}}
                  \cup {Ask("set", app, cake, high)}),
      With(Alone, {Ask("set", k1, cake, v) : v \in {low, high, None}}
                  \cup {Ask("clear", k1, cake, None)}) }
=============================================================================
