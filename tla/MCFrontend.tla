---------------------------- MODULE MCFrontend ------------------------------
(* Frontend for TLC: two frontends, two browsers, three users of whom two   *)
(* have an account.                                                        *)
EXTENDS Frontend

CONSTANTS ann, bob, cat, pw1, pw2, pw3, t1, t2

MCRegistered == [u \in {ann, bob} |-> pw1]

Change(new) == [op |-> "change", user |-> ann, old |-> pw1, new |-> new]
Login(u) == [op |-> "login", user |-> u, old |-> pw1, sid |-> 0]
Signup(u, new) == [op |-> "signup", user |-> u, new |-> new]

MCMenu ==
  {{Signup(cat, pw1), Signup(ann, pw2), Change(pw2), Change(pw3)},
   {Login(ann), Login(bob)}}

=============================================================================
