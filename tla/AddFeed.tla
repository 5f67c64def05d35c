-------------------------------- MODULE AddFeed --------------------------------
(***************************************************************************)
(* Adding a blog: the reader types a handle, a DID or a URL, the worker    *)
(* finds the publications it leads to and follows the only one, or offers  *)
(* several for the reader to pick from.                                    *)
(*                                                                         *)
(* An input is [host, path, did, scheme]: did is TRUE where a DID was      *)
(* typed, which is its own host here, scheme where the URL has one.  A     *)
(* host's web site serves files, its DNS a record, each page a link; each  *)
(* is <<>> or <<answer>>, for nothing usable.  Following while signed in   *)
(* also writes a subscription; module Subscriptions has that.              *)
(***************************************************************************)
EXTENDS Integers, SequencesExt

CONSTANTS
  Inputs,       \* what the reader may type
  WellKnown,    \* the DID a host's well-known file names: <<>> or <<did>>
  Dns,          \* ... and its DNS record; <<"garbled">> is no JSON
  PageLink,     \* the publication a URL's page advertises: <<>> or <<uri>>
  Repo,         \* of each DID, the pages of its publications: [uris, cursor]
  OwnerOf,      \* the DID of each publication
  MaxAdds       \* bound: how often something is added

\* Pages of a listing, some of which is the last; links to publications.
ASSUME AddFeedAssumption ==
  /\ \A did \in DOMAIN Repo :
       /\ Repo[did] \in Seq([uris : Seq(DOMAIN OwnerOf), cursor : BOOLEAN])
       /\ \E i \in DOMAIN Repo[did] : ~Repo[did][i].cursor \/ Repo[did][i].uris = <<>>
  /\ \A url \in DOMAIN PageLink :
       PageLink[url] \in {<<>>} \cup {<<uri>> : uri \in DOMAIN OwnerOf}
  /\ MaxAdds \in Nat

VARIABLES
  inbox,        \* commands waiting for the worker
  pending,      \* pending_pubs: the candidates last offered
  followed,     \* the follow list
  events,       \* answers waiting for the App
  offers,       \* history: how many lists of candidates were offered
  unanswered,   \* history: the last offer, or 0 once a picker was answered
  dialog,       \* the App's mode: "Browse", "AddFeed" or "PublicationPicker"
  candidates,   \* publication_choices: [uri, ticked], and the offer they are of
  spinner,      \* loading
  adds          \* how often so far

workerSide == <<pending, followed, offers, unanswered>>
appSide    == <<dialog, candidates, spinner, adds>>
addVars    == <<inbox, events, workerSide, appSide>>

NoChoices == [offer |-> 0, rows |-> <<>>]

AddFeedInit ==
  /\ inbox = <<>> /\ events = <<>>
  /\ pending = <<>> /\ offers = 0 /\ unanswered = 0
  /\ followed \in {{}} \cup {{p} : p \in DOMAIN OwnerOf}
  /\ dialog = "Browse" /\ candidates = NoChoices /\ spinner = FALSE /\ adds = 0

-----------------------------------------------------------------------------
(* Finding publications.  Any one request may fail: up is the set of those *)
(* answered.                                                               *)

Steps == {"wellKnown", "dns", "pds", "list", "page", "record"}
Luck  == {Steps} \cup {Steps \ {s} : s \in Steps}

\* normalize: a URL is its host; a DID stays.
Normalize(input) == input.host

\* resolve_did: the well-known file, or else DNS.  <<>> is an error, which an answer of
\* the DNS that is no JSON is too.
ResolveDid(host, up) ==
  IF "wellKnown" \in up /\ WellKnown[host] # <<>> THEN WellKnown[host]
  ELSE IF "dns" \in up /\ Dns[host] # <<"garbled">> THEN Dns[host]
  ELSE <<>>

\* resolve_pds: <<>> without one.
ResolvePds(did, up) == IF did \in DOMAIN Repo /\ "pds" \in up THEN <<did>> ELSE <<>>

\* resolve_identity.
ResolveIdentity(input, up) ==
  LET did == IF input.did THEN <<Normalize(input)>> ELSE ResolveDid(Normalize(input), up)
  IN IF did = <<>> THEN <<>> ELSE ResolvePds(did[1], up)

\* paginate: up to the first page without a cursor or without records.
Paginate(pages) ==
  LET ends == {i \in DOMAIN pages : ~pages[i].cursor \/ pages[i].uris = <<>>}
  IN FlattenSeq([i \in 1..Min(ends) |-> pages[i].uris])

\* resolve_via_page and get_publication: the page as it was typed, a host's first page
\* otherwise.
ResolveViaPage(input, up) ==
  LET url  == [host |-> input.host, path |-> IF input.scheme THEN input.path ELSE ""]
      link == IF url \in DOMAIN PageLink /\ "page" \in up THEN PageLink[url] ELSE <<>>
  IN IF \/ input.did \/ link = <<>> \/ "record" \notin up
        \/ ResolvePds(OwnerOf[link[1]], up) = <<>>
     THEN <<>> ELSE link

\* The start of add_feed: <<publications>>, or <<>> for an error.
Found(input, up) ==
  LET identity == ResolveIdentity(input, up)
      page     == ResolveViaPage(input, up)
  IN CASE identity # <<>> -> IF "list" \in up THEN <<Paginate(Repo[identity[1]])>> ELSE <<>>
       [] identity = <<>> /\ page # <<>> -> <<page>>
       [] OTHER -> <<>>

-----------------------------------------------------------------------------
(* The worker.                                                             *)

AddCommand(input)           == [op |-> "AddFeed", input |-> input]
FollowCommand(offer, uris)  == [op |-> "Follow", offer |-> offer, uris |-> uris]
Status      == [event |-> "Status"]
Failure     == [event |-> "Error"]
Feeds       == [event |-> "Feeds"]
Choose(uris) == [event |-> "ChoosePublications", uris |-> uris, offer |-> offers + 1]

\* follow_publications, in no order.
FollowPublications(uris) == followed' = followed \cup uris

\* Mutant: the candidates of the last offer are let go of before anything is found.
AddFeedForgetful(found) ==
  CASE found = <<>> -> events' = Append(events, Failure) /\ pending' = <<>>
                       /\ UNCHANGED <<followed, offers, unanswered>>
    [] found = << <<>> >> -> events' = Append(events, Status) /\ pending' = <<>>
                             /\ UNCHANGED <<followed, offers, unanswered>>
    [] found # <<>> /\ Len(found[1]) > 1 ->
         /\ pending' = found[1] /\ offers' = offers + 1 /\ unanswered' = offers'
         /\ events' = Append(events, Choose(found[1]))
         /\ UNCHANGED followed
    [] OTHER -> /\ FollowPublications(ToSet(found[1])) /\ pending' = <<>>
                /\ events' = events \o <<Status, Feeds>>
                /\ UNCHANGED <<offers, unanswered>>

\* add_feed: nothing found is only told; several are offered, one is followed.
AddFeed(found) ==
  CASE found = <<>> -> events' = Append(events, Failure) /\ UNCHANGED workerSide
    [] found = << <<>> >> -> events' = Append(events, Status) /\ UNCHANGED workerSide
    [] found # <<>> /\ Len(found[1]) > 1 ->
         /\ pending' = found[1] /\ offers' = offers + 1 /\ unanswered' = offers'
         /\ events' = Append(events, Choose(found[1]))
         /\ UNCHANGED followed
    [] OTHER -> /\ FollowPublications(ToSet(found[1]))
                /\ events' = events \o <<Status, Feeds>>
                /\ UNCHANGED <<pending, offers, unanswered>>

\* select_chosen: the candidates last offered that were picked.
SelectChosen(uris) == {p \in ToSet(pending) : p \in uris}

\* follow_chosen.
FollowChosen(uris) ==
  /\ FollowPublications(SelectChosen(uris)) /\ pending' = <<>>
  /\ events' = events \o <<Status, Feeds>>
  /\ unanswered' = 0
  /\ UNCHANGED offers

Work ==
  /\ inbox # <<>> /\ inbox' = Tail(inbox)
  /\ LET command == Head(inbox)
     IN IF command.op = "AddFeed" THEN \E up \in Luck : AddFeed(Found(command.input, up))
        ELSE FollowChosen(command.uris)
  /\ UNCHANGED appSide

-----------------------------------------------------------------------------
(* The App.                                                                *)

\* enter_input, and the Esc of the input.
EnterAddFeed ==
  /\ dialog = "Browse" /\ adds < MaxAdds
  /\ dialog' = "AddFeed"
  /\ UNCHANGED <<inbox, events, workerSide, candidates, spinner, adds>>

\* submit_input; with nothing typed, and on Esc, only the dialog closes.
SubmitAdd ==
  /\ dialog = "AddFeed" /\ dialog' = "Browse"
  /\ \/ /\ \E input \in Inputs : inbox' = Append(inbox, AddCommand(input))
        /\ spinner' = TRUE /\ adds' = adds + 1
     \/ UNCHANGED <<inbox, spinner, adds>>
  /\ UNCHANGED <<events, workerSide, candidates>>

\* An answer: candidates open the picker, all ticked, whatever dialog is open.  A status
\* leaves the spinner on.
Apply ==
  /\ events # <<>> /\ events' = Tail(events)
  /\ LET e == Head(events)
     IN /\ spinner' = (spinner /\ e.event = "Status")
        /\ IF e.event # "ChoosePublications" THEN UNCHANGED <<dialog, candidates>>
           ELSE /\ dialog' = "PublicationPicker"
                /\ candidates' = [offer |-> e.offer,
                                  rows |-> [i \in DOMAIN e.uris |->
                                              [uri |-> e.uris[i], ticked |-> TRUE]]]
  /\ UNCHANGED <<inbox, workerSide, adds>>

\* publication_picker_key: Space on a row, all, none, Esc, or Enter.
Picked == {r.uri : r \in {s \in ToSet(candidates.rows) : s.ticked}}

PublicationPickerKey ==
  /\ dialog = "PublicationPicker"
  /\ \/ /\ \/ \E i \in DOMAIN candidates.rows :
                candidates' = [candidates EXCEPT !.rows[i].ticked = ~@]
           \/ \E on \in BOOLEAN :
                candidates' = [candidates EXCEPT !.rows =
                                 [i \in DOMAIN @ |-> [@[i] EXCEPT !.ticked = on]]]
        /\ UNCHANGED <<inbox, dialog>>
     \/ /\ inbox' = Append(inbox, FollowCommand(candidates.offer, Picked))
        /\ candidates' = NoChoices /\ dialog' = "Browse"
     \/ candidates' = NoChoices /\ dialog' = "Browse" /\ UNCHANGED inbox
  /\ UNCHANGED <<events, workerSide, spinner, adds>>

AddFeedNext ==
  \/ Work
  \/ EnterAddFeed
  \/ SubmitAdd
  \/ Apply
  \/ PublicationPickerKey

AddFeedSpec == AddFeedInit /\ [][AddFeedNext]_addVars

AddFeedTypeOK ==
  /\ followed \subseteq DOMAIN OwnerOf /\ Range(pending) \subseteq DOMAIN OwnerOf
  /\ offers \in 0..MaxAdds /\ unanswered \in {0, offers} /\ candidates.offer \in 0..offers
  /\ dialog \in {"Browse", "AddFeed", "PublicationPicker"}
  /\ (dialog = "PublicationPicker" => candidates.rows # <<>>)
  /\ spinner \in BOOLEAN /\ adds \in 0..MaxAdds

-----------------------------------------------------------------------------
(* What picking promises.                                                  *)

\* The answer to the newest picker, if no other came first, follows exactly what was ticked
\* in it, whatever was typed, found or failed meanwhile; an answer that comes late, nothing
\* else.  Adding follows at most one publication, and none if there is a choice; nothing
\* else follows (worker.rs add_feed and follow_chosen, app.rs publication_picker_key).
FollowsAsPicked ==
  LET command == Head(inbox)
      new     == followed' \ followed
  IN IF inbox = <<>> \/ inbox' # Tail(inbox) THEN new = {}
     ELSE IF command.op = "AddFeed" THEN Cardinality(new) <= 1 /\ (new # {} => offers' = offers)
     ELSE IF command.offer = unanswered THEN followed' = followed \cup command.uris
     ELSE new \subseteq command.uris

FollowedAsPicked == [][FollowsAsPicked]_addVars
=============================================================================
