-------------------------- MODULE AcquisitionQueue --------------------------
(***************************************************************************)
(* The acquisition queue: routers/acquisition.py, on top of the technical  *)
(* library it fills and the escalation queue it falls back on.             *)
(*                                                                         *)
(* A request for the documents of a product waits for a user's approval.   *)
(* An approved one is scraped in the background; what the scraper finds is *)
(* filed in the library, and when it finds nothing the request is handed   *)
(* over to the escalation queue.                                           *)
(***************************************************************************)
EXTENDS EscalationQueue, TechLibrary, FiniteSets, FiniteSetsExt

CONSTANTS
  Requests,    \* ids of rows of acquisition_queue
  Supported,   \* the products whose manufacturer has a scraper
  Scrapes,     \* slots for background scrapes: a bound of the model
  MaxGrants,   \* bound: approvals and retries per request
  MaxResults   \* bound: files a scrape finds

ASSUME AcquisitionAssumption ==
  /\ None \notin Requests \cup Products
  /\ Absent \notin Contents
  /\ Supported \subseteq Products
  /\ MaxRows \in Nat /\ MaxGrants \in Nat /\ MaxResults \in Nat

VARIABLES
  request,     \* the table acquisition_queue
  scrape,      \* background runs of _run_scrape
  (* what an observer has seen *)
  granted,     \* how often a user approved or retried the request
  started,     \* how often the request was taken to the manufacturer's site
  origin       \* the request an escalation came from

queueVars == <<request, scrape, granted, started, origin>>
allVars == <<vars, libraryVars, queueVars>>

-----------------------------------------------------------------------------
RequestStatuses == {"absent", "pending_approval", "approved", "in_progress",
                    "complete", "failed", "rejected", "deleted"}

Request == [status: RequestStatuses, product: Products \cup {None}]

WithRequestStatus(q, status) == [request EXCEPT ![q].status = status]

Scrape == [stage: {"idle", "scheduled", "scraping"}, request: Requests \cup {None},
           found: BOOLEAN, results: Seq(Result)]

NoScrape == [stage |-> "idle", request |-> None, found |-> FALSE, results |-> <<>>]

Scraping(s) == scrape[s].stage # "idle"

(* Mutant: a scrape that has ended still holds its request. *)
EndScrapeKeepingRequest(s) == scrape' = [scrape EXCEPT ![s].stage = "idle"]

EndScrape(s) == scrape' = [scrape EXCEPT ![s] = NoScrape]

ProductOf(s) == request[scrape[s].request].product

QueueTypeOK ==
  /\ request \in [Requests -> Request]
  /\ scrape \in [Scrapes -> Scrape]
  /\ \A s \in Scrapes : Scraping(s) <=> scrape[s].request # None
  /\ granted \in [Requests -> Nat]
  /\ started \in [Requests -> Nat]
  /\ origin \in [Items -> Requests \cup {None}]

AcqTypeOK == TypeOK /\ LibraryTypeOK /\ QueueTypeOK

AcqInit ==
  /\ Init
  /\ LibraryInit
  /\ request = [q \in Requests |-> [status |-> "absent", product |-> None]]
  /\ scrape = [s \in Scrapes |-> NoScrape]
  /\ granted = [q \in Requests |-> 0]
  /\ started = [q \in Requests |-> 0]
  /\ origin = [i \in Items |-> None]

-----------------------------------------------------------------------------
(* Endpoints.                                                              *)

RequestDocs(q) ==
  /\ request[q].status = "absent"
  /\ \E product \in Products :
       request' = [request EXCEPT ![q] = [status |-> "pending_approval", product |-> product]]
  /\ UNCHANGED <<scrape, granted, started, origin>>

(* approve and retry do the same to a row they accept. *)
Grant(q) ==
  /\ granted[q] < MaxGrants
  /\ granted' = [granted EXCEPT ![q] = @ + 1]
  /\ request' = WithRequestStatus(q, "approved")
  /\ \E s \in Scrapes :
       /\ ~Scraping(s)
       /\ scrape' = [scrape EXCEPT ![s] = [NoScrape EXCEPT !.stage = "scheduled", !.request = q]]
  /\ UNCHANGED <<started, origin>>

(* Mutants: a complete request, a request in progress is approved again. *)
GrantableOrDone(q) == request[q].status \in {"pending_approval", "failed", "complete"}
GrantableOrRunning(q) == request[q].status \in {"pending_approval", "failed", "in_progress"}

Grantable(q) == request[q].status \in {"pending_approval", "failed"}

ApproveRequest(q) == Grantable(q) /\ Grant(q)

RetryRequest(q) == request[q].status = "failed" /\ Grant(q)

(* Mutant: the status of a rejected request is not checked. *)
RejectAnyRequest(q) ==
  /\ request[q].status # "absent"
  /\ request' = WithRequestStatus(q, "rejected")
  /\ UNCHANGED <<scrape, granted, started, origin>>

RejectRequest(q) ==
  /\ request[q].status = "pending_approval"
  /\ request' = WithRequestStatus(q, "rejected")
  /\ UNCHANGED <<scrape, granted, started, origin>>

DeleteRequest(q) ==
  /\ request[q].status # "absent"
  /\ request' = WithRequestStatus(q, "deleted")
  /\ UNCHANGED <<scrape, granted, started, origin>>

RequestStep(q) ==
  /\ \/ RequestDocs(q)
     \/ ApproveRequest(q)
     \/ RetryRequest(q)
     \/ RejectRequest(q)
     \/ DeleteRequest(q)
  /\ UNCHANGED <<vars, libraryVars>>

-----------------------------------------------------------------------------
(* _run_scrape, one action per stretch between two awaits.                 *)

(* Without a scraper for the manufacturer the scrape fails at once.        *)
BeginScrape(s) ==
  LET q == scrape[s].request IN
  /\ scrape[s].stage = "scheduled"
  /\ IF request[q].product \in Supported
     THEN /\ request' = WithRequestStatus(q, "in_progress")
          /\ scrape' = [scrape EXCEPT ![s].stage = "scraping"]
          /\ started' = [started EXCEPT ![q] = @ + 1]
     ELSE /\ request' = WithRequestStatus(q, "failed")
          /\ EndScrape(s)
          /\ UNCHANGED started
  /\ UNCHANGED <<vars, libraryVars, granted, origin>>

(* A file arrives, or its download is given up; either is a result.        *)
DownloadReturns(s) ==
  /\ scrape[s].stage = "scraping"
  /\ Len(scrape[s].results) < MaxResults
  /\ \/ \E name \in Names, content \in Contents, path \in Paths :
          LET result == [path |-> path, sum |-> content] IN
          /\ Download(ProductOf(s), name, content, result)
          /\ scrape' = [scrape EXCEPT ![s].found = TRUE,
                                      ![s].results = Append(@, result)]
     \/ scrape' = [scrape EXCEPT ![s].found = TRUE] /\ UNCHANGED disk
  /\ UNCHANGED <<vars, library, request, granted, started, origin>>

(* Mutant: the scrape goes on after handing over. *)
NothingFoundGoesOn(s) ==
  /\ scrape[s].stage = "scraping" /\ ~scrape[s].found
  /\ \E i \in Items, query \in Queries :
       /\ Insert(i, query, FALSE)
       /\ origin' = [origin EXCEPT ![i] = scrape[s].request]
  /\ UNCHANGED <<libraryVars, request, scrape, granted, started>>

(* Nothing found: a public escalation item takes over, approved at once    *)
(* under AUTO_ESCALATE, and the request counts as failed.                  *)
NothingFound(s) ==
  /\ scrape[s].stage = "scraping" /\ ~scrape[s].found
  /\ \E i \in Items, query \in Queries :
       /\ Insert(i, query, FALSE)
       /\ origin' = [origin EXCEPT ![i] = scrape[s].request]
  /\ request' = WithRequestStatus(scrape[s].request, "failed")
  /\ EndScrape(s)
  /\ UNCHANGED <<libraryVars, granted, started>>

FilesFound(s) ==
  /\ scrape[s].stage = "scraping" /\ scrape[s].found
  /\ library' = FiledAll(ProductOf(s), scrape[s].results)
  /\ request' = WithRequestStatus(scrape[s].request, "complete")
  /\ EndScrape(s)
  /\ UNCHANGED <<vars, disk, granted, started, origin>>

(* Mutant: the exception ends the task. *)
ScrapeDies(s) ==
  /\ scrape[s].stage = "scraping"
  /\ EndScrape(s)
  /\ UNCHANGED <<vars, libraryVars, request, granted, started, origin>>

ScrapeRaises(s) ==
  /\ scrape[s].stage = "scraping"
  /\ request' = WithRequestStatus(scrape[s].request, "failed")
  /\ EndScrape(s)
  /\ UNCHANGED <<vars, libraryVars, granted, started, origin>>

ScrapeStep(s) ==
  BeginScrape(s) \/ DownloadReturns(s) \/ NothingFound(s) \/ FilesFound(s) \/ ScrapeRaises(s)

-----------------------------------------------------------------------------
EscalationStep ==
  /\ (\E i \in Items : UserStep(i)) \/ (\E r \in Runs : RunStep(r))
  /\ UNCHANGED <<libraryVars, queueVars>>

(* What a scrape that a crash cuts off has written by then: the status of  *)
(* one that has not gone out, the escalation that takes over from it, or   *)
(* the rows of the first files it found.                                   *)
ScrapeCutOff(s) ==
  LET q == scrape[s].request IN
  \/ /\ scrape[s].stage = "scheduled"
     /\ request' = WithRequestStatus(q, "in_progress")
     /\ UNCHANGED <<row, cache, libraryVars, origin>>
  \/ /\ scrape[s].stage = "scraping" /\ ~scrape[s].found
     /\ \E i \in Items, query \in Queries :
          InsertRow(i, query, FALSE) /\ origin' = [origin EXCEPT ![i] = q]
     /\ UNCHANGED <<cache, libraryVars, request>>
  \/ /\ scrape[s].stage = "scraping" /\ scrape[s].found
     /\ \E n \in DOMAIN scrape[s].results :
          library' = FiledSoFar(ProductOf(s), scrape[s].results)[n]
     /\ UNCHANGED <<row, cache, disk, request, origin>>

(* A crash takes the scrapes with it as well, and may cut off one of them  *)
(* or a step of the library.                                               *)
AcqCrash ==
  /\ Crash
  /\ \/ UNCHANGED <<libraryVars, request, origin>>
     \/ \E s \in Scrapes : ScrapeCutOff(s)
     \/ LibraryCutOff /\ UNCHANGED <<row, cache, request, origin>>
  /\ scrape' = [s \in Scrapes |-> NoScrape]
  /\ UNCHANGED <<granted, started>>

AcqNext ==
  \/ \E q \in Requests : RequestStep(q)
  \/ \E s \in Scrapes : ScrapeStep(s)
  \/ LibraryStep /\ UNCHANGED <<vars, queueVars>>
  \/ EscalationStep
  \/ AcqCrash

AcqFairness == Fairness /\ \A s \in Scrapes : WF_allVars(ScrapeStep(s))

AcqSpec == AcqInit /\ [][AcqNext]_allVars /\ AcqFairness

-----------------------------------------------------------------------------
(* Safety.                                                                 *)

(* The escalations a request was handed over to.                           *)
HandedOver(q) == {i \in Items : origin[i] = q}

(* No web request is made automatically (routers/acquisition.py, header):  *)
(* a scrape that goes out uses up an approval or retry of its request, an  *)
(* undecided or rejected request never went out, and an escalation is      *)
(* handed over at most once per scrape.                                    *)
NetworkApproved ==
  \A q \in Requests :
    /\ started[q] <= granted[q]
    /\ request[q].status \in {"absent", "pending_approval", "rejected"} => started[q] = 0
    /\ Cardinality(HandedOver(q)) <= started[q]

(* AUTO_ESCALATE does not multiply approvals: the cloud calls made on      *)
(* behalf of a request are covered by the approvals of the request and of  *)
(* the escalations it was handed over to, whatever retries and crashes.    *)
CloudCallsApproved ==
  \A q \in Requests :
    MapThenSumSet(LAMBDA i : sent[i], HandedOver(q))
      <= granted[q] + MapThenSumSet(LAMBDA i : approvals[i], HandedOver(q))

(* No two scrapes work on one request, although no endpoint looks for a    *)
(* running scrape: the request's status keeps approve and retry away.      *)
OneScrapePerRequest ==
  \A s \in Scrapes : Scraping(s) =>
    /\ request[scrape[s].request].status \in {"approved", "in_progress", "deleted"}
    /\ \A other \in Scrapes : scrape[other].request = scrape[s].request => other = s

(* Scrapes of one product that run side by side file each path once, and   *)
(* none that has a row made by hand meanwhile: the check and the insertion *)
(* are not separated by an await.  Of two rows of one path, the later is   *)
(* one that was made by hand.                                              *)
PathsFiledOnce ==
  \A j, k \in DOMAIN library :
    /\ j < k
    /\ library[j].product = library[k].product
    /\ library[j].path = library[k].path
    => library[k].sum = Absent

(* A complete or rejected request changes only by being deleted, whatever  *)
(* scrapes are under way; and a deleted one, whose row is looked up by     *)
(* nobody, is written over only by a scrape that had been granted before.  *)
RequestDecisionsStand ==
  [][\A q \in Requests : request'[q] # request[q] =>
       /\ request[q].status \in {"complete", "rejected"} => request'[q].status = "deleted"
       /\ request[q].status = "deleted" => \E s \in Scrapes : scrape[s].request = q]_allVars

(* What _download_file promises: a result points to a file with the        *)
(* content that was downloaded, "the existing file" if it was known.       *)
ResultsPointToFiles ==
  [][\A s \in Scrapes :
       Len(scrape'[s].results) > Len(scrape[s].results) =>
         LET result == scrape'[s].results[Len(scrape'[s].results)]
         IN  disk'[result.path] = result.sum]_allVars

(* While the process stays up, an approved request is settled.             *)
RequestsSettle ==
  [](crashes = 0) =>
    \A q \in Requests :
      request[q].status \in {"approved", "in_progress"}
        ~> request[q].status \in {"complete", "failed", "deleted"}

-----------------------------------------------------------------------------
(* The inductive invariant behind the safety properties.                   *)

LibraryInv == LibraryTypeOK /\ PathsFiledOnce

(* A request that was made names a product.                                *)
RequestsNameProducts ==
  \A q \in Requests : request[q].status # "absent" => request[q].product \in Products

(* A scrape that has not begun stands for a grant that is not used yet,    *)
(* one under way for a visit that has not been handed over yet.            *)
ScrapesAccounted ==
  \A s \in Scrapes :
    LET q == scrape[s].request IN
    /\ scrape[s].stage = "scheduled" => started[q] < granted[q]
    /\ scrape[s].stage = "scraping" => Cardinality(HandedOver(q)) < started[q]

FinitelyHandedOver == \A q \in Requests : IsFiniteSet(HandedOver(q))

QueueInv ==
  /\ QueueTypeOK /\ RequestsNameProducts /\ OneScrapePerRequest
  /\ NetworkApproved /\ ScrapesAccounted /\ FinitelyHandedOver

AcqIndInv == IndInv /\ LibraryInv /\ QueueInv
=============================================================================
