------------------------------ MODULE MCSignIn -------------------------------
(* What the shells keep, a part at a time: signing in on the web, signing in on the       *)
(* desktop, and the desktop's cache with nobody signing in.  The parts share no state but *)
(* the worker's command; those not chosen stand still.                                    *)
EXTENDS WebAuth, DesktopAuth, DesktopStore

webOnly  == <<tabVars, commitVars, authFile, owner, expired, failures>>
deskOnly == <<files, reachable, clientStore, found, steady>>
vars     == <<shell, commandVars, webOnly, deskOnly, storeVars>>

IdleWeb ==
  /\ page = [t \in Tabs |-> Shut] /\ lock = None
  /\ authFile = Empty /\ memory = Empty /\ before = Empty /\ request = Empty
  /\ ack = "none" /\ tries = 0 /\ returned = NoCallback
  /\ owner = <<>> /\ expired = {} /\ loads = 0 /\ failures = 0

IdleDesktop ==
  /\ keyring = NoSessions /\ sessionFile = NoSessions /\ accountFile = None
  /\ reachable = FALSE /\ clientStore = "file" /\ found = "file" /\ steady = FALSE

IdleStore ==
  /\ NoFile
  /\ program = (CHOOSE s \in Schemas : TRUE) /\ storeStep = "closed"

Init ==
  \/ WebInit /\ IdleDesktop /\ IdleStore
  \/ DesktopInit /\ IdleWeb /\ IdleStore
  \/ /\ StoreInit /\ IdleWeb /\ IdleDesktop
     /\ shell = "cache" /\ step = "closed" /\ user = None /\ account = None

Next ==
  \/ WebNext /\ UNCHANGED <<deskOnly, storeVars>>
  \/ DesktopNext /\ UNCHANGED <<webOnly, storeVars>>
  \/ shell = "cache" /\ StoreNext /\ UNCHANGED <<shell, webVars, deskOnly>>

Spec == Init /\ [][Next]_vars /\ WebFairness /\ DesktopFairness

TypeOK ==
  /\ shell = "web" => WebTypeOK
  /\ shell = "desktop" => DesktopTypeOK
  /\ shell = "cache" => StoreTypeOK
=============================================================================
