-------------------------------- MODULE MCIntake --------------------------------
(***************************************************************************)
(* Intake on small instances: the requests' bodies, repositories and       *)
(* service files.  The path "moved" reaches another repository, "alias" is *)
(* another spelling of "home".                                             *)
(***************************************************************************)
EXTENDS Intake

Event(s, e, checksum, fingerprint, commit) ==
  [service |-> s, event |-> e, checksum |-> checksum,
   fingerprint |-> fingerprint, commit |-> commit]

Paths == {"home", "alias", "moved"}
RepositoryOf == [p \in Paths |-> IF p = "moved" THEN "other" ELSE "first"]
CommitsIn == [p \in Paths |-> IF p = "moved" THEN {"c1"} ELSE {"c1", "c2"}]

\* Service files: one that stays, one service that moves, two of which one may not.
Homes == [s \in Service |-> "home"]
OneHome == {[s \in {"s1"} |-> "home"]}
OneMoves == {[s \in {"s1"} |-> p] : p \in {"home", "moved"}}
Moves == {Homes, [s \in Service |-> "moved"], [s \in {"s1"} |-> "alias"]}

\* Three first events of one grouping, each without a commit.
GroupBodies == [r \in Request |-> Event("s1", r, "x", "f", NoCommit)]

\* One event sent twice, and once more with another payload.
RepeatBodies ==
  [r \in Request |-> IF r = 3 THEN Event("s1", 1, "y", "g", "c2")
                            ELSE Event("s1", 1, "x", "f", "c1")]

\* One event of each service, and a second one of the first.
ServiceBodies ==
  [r \in Request |-> Event(IF r = 2 THEN "s2" ELSE "s1", r, "x", "f",
                           IF r = 3 THEN "c2" ELSE NoCommit)]

Settings ==
  {[body |-> GroupBodies,   plans |-> OneHome,  backend |-> "postgresql"],
   [body |-> RepeatBodies,  plans |-> OneHome,  backend |-> "postgresql"],
   [body |-> RepeatBodies,  plans |-> OneMoves, backend |-> "sqlite"],
   [body |-> ServiceBodies, plans |-> Moves,    backend |-> "postgresql"]}
================================================================================
