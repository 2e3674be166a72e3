----------------------------- MODULE MCUserStore -----------------------------
(* Small instances of UserStore: two names, two passwords, and a hash that  *)
(* keeps them apart.                                                        *)
EXTENDS UserStore

MCNames == {"ann", "bob"}
MCPasswords == {"pw1", "pw2"}
MCHash == [p \in MCPasswords \cup {""} |->
             CASE p = "pw1" -> "h1" [] p = "pw2" -> "h2" [] p = "" -> "h0"]
=============================================================================
