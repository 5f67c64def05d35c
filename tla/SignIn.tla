------------------------------- MODULE SignIn --------------------------------
(***************************************************************************)
(* The worker's side of signing in, the same for both shells: it runs one  *)
(* command at a time over the shell's AuthProvider and tells the App who   *)
(* is signed in when the command ends.                                     *)
(***************************************************************************)

CONSTANTS
  Users,   \* DIDs a reader signs in as
  None     \* no account, no session, no transaction

\* The scopes a session was granted: the two asked for, or anything else.
Scopes == {"exact", "broad"}

ASSUME SignInAssumption == None \notin Users /\ None \notin Scopes

VARIABLES
  shell,    \* "web" or "desktop", what the worker runs in
  account,  \* the worker's account
  step,     \* what its command waits for; "idle", or "closed" when no worker runs
  user      \* whom the command is about

commandVars == <<account, step, user>>

Sessions   == [Users -> Scopes \cup {None}]
NoSessions == [u \in Users |-> None]

\* The command ends; acc is signed in.
End(acc) == step' = "idle" /\ user' = None /\ account' = acc

\* The command goes on.
OnTo(next) == step' = next /\ UNCHANGED <<user, account>>

\* The worker ends with its process or page.
Stop == step' = "closed" /\ user' = None /\ account' = None

\* A command that waits for a file, a server or the browser is answered, whatever fails.
AuthCommandsEnd == step \notin {"idle", "closed"} ~> step \in {"idle", "closed"}
=============================================================================
