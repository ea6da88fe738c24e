----------------------- MODULE ListControllersProofs -----------------------
(***************************************************************************)
(* What requests that share a paginator can do to each other's answers,    *)
(* and that they do nothing to one that is alone: its links, its rows, the *)
(* history of one page, and the pages that follow each other.  Also who is *)
(* listed which chats.  For any number of requests, any tables and any     *)
(* changes of them.                                                        *)
(***************************************************************************)
EXTENDS ListControllers, SequenceFacts, SequenceTheorems, TLAPS

Fields ==
  {"at", "controller", "page", "limit", "rows", "count", "next", "previous", "read",
   "met", "undisturbed"}

\* The steps after the page is made.
Paged == Inside \ {"count"}

\* The links that request q would have in its answer, from its own count.
NextOf(r) ==
  IF http[r].page + 1 \in 1..Pages(SizeOf(http[r]), http[r].count)
    THEN [request |-> r, number |-> http[r].page + 1] ELSE NoLink
PreviousOf(r) ==
  IF http[r].page - 1 \in 1..Pages(SizeOf(http[r]), http[r].count)
    THEN [request |-> r, number |-> http[r].page - 1] ELSE NoLink

\* The two attributes of the paginators, and the fields of requests.
Shape ==
  /\ DOMAIN paginator = Controllers
  /\ \A c \in Controllers : {"request", "page"} \subseteq DOMAIN paginator[c]
  /\ \A r \in DOMAIN http :
       http[r].controller \in Controllers /\ Fields \subseteq DOMAIN http[r]

\* Requests that are inside together have met.
Together ==
  \A r, s \in DOMAIN http :
    /\ r \in http[r].met
    /\ (/\ http[r].controller = http[s].controller
        /\ http[r].at \in Inside /\ http[s].at \in Inside) => s \in http[r].met

\* What a request finds in the paginator, and what it has read of it.
FoundBy(r) ==
  LET q == http[r]  p == paginator[q.controller]
  IN  /\ q.read \subseteq q.met
      /\ q.at \in Inside => p.request \in q.met
      /\ q.at \in Paged =>
           /\ q.page \in Int
           /\ p.page.of \in q.met
           /\ p.page.of \in DOMAIN http
           /\ p.page.number = http[p.page.of].page
           /\ p.page.pages = Pages(SizeOf(http[p.page.of]), p.page.count)
           /\ {"of", "number", "pages", "count", "rows"} \subseteq DOMAIN p.page

Found == \A r \in DOMAIN http : FoundBy(r)

\* How far a request that is alone has come with its links.
LinksOf(r) ==
  LET q == http[r]
  IN  /\ q.at # "crashed"
      /\ q.at \in {"next", "nextLink", "previous", "previousLink"} =>
           q.count = paginator[q.controller].page.count
      /\ q.at \in Inside \cup {"parse", "paginate"} => q.previous = NoLink
      /\ q.at \in (Inside \cup {"parse", "paginate"}) \ {"previous", "previousLink"} =>
           q.next = NoLink
      /\ q.at = "nextLink" => q.page + 1 \in 1..Pages(SizeOf(q), q.count)
      /\ q.at = "previousLink" => q.page - 1 \in 1..Pages(SizeOf(q), q.count)
      /\ q.at \in {"previous", "previousLink", "answered"} => q.next = NextOf(r)
      /\ q.at = "answered" => q.previous = PreviousOf(r)

LinksSoFar == \A r \in DOMAIN http : Lone(r) => LinksOf(r)

SharingInv == Shape /\ Together /\ Found /\ LinksSoFar

\* A step at which the paginators and the fields the invariant is about do not
\* change, such as one of the tables, preserves the invariant.
LEMMA SharingFrame ==
  ASSUME SharingInv, paginator' = paginator, DOMAIN http' = DOMAIN http,
         \A r \in DOMAIN http :
           /\ \A f \in Fields \ {"rows", "undisturbed"} : http'[r][f] = http[r][f]
           /\ Fields \subseteq DOMAIN http'[r]
  PROVE  SharingInv'
<1> USE DEF Fields, Inside, Paged
<1>1. \A r \in DOMAIN http :
        /\ http'[r].at = http[r].at
        /\ http'[r].controller = http[r].controller
        /\ http'[r].page = http[r].page
        /\ http'[r].limit = http[r].limit
        /\ http'[r].count = http[r].count
        /\ http'[r].next = http[r].next
        /\ http'[r].previous = http[r].previous
        /\ http'[r].read = http[r].read
        /\ http'[r].met = http[r].met
  BY Zenon
<1>2. Shape'
  BY <1>1 DEF SharingInv, Shape
<1>3. Together'
  BY <1>1 DEF SharingInv, Together
<1>4. Found'
  BY <1>1 DEF SharingInv, Found, FoundBy, SizeOf
<1>5. LinksSoFar'
  BY <1>1 DEF SharingInv, LinksSoFar, LinksOf, SizeOf, NextOf, PreviousOf, Lone
<1> QED
  BY <1>2, <1>3, <1>4, <1>5 DEF SharingInv

\* No request has come yet.
LEMMA SharingInit == Init => SharingInv
  BY DEF Init, SharingInv, Shape, Together, Found, FoundBy, LinksSoFar, LinksOf

\* A request that has just come is not inside, and has read nothing.
LEMMA SharingArrive ==
  ASSUME SharingInv,
         NEW r \in Request, NEW c \in Controllers, NEW u, NEW k, NEW p, NEW l,
         Arrive(r, c, u, k, p, l)
  PROVE  SharingInv'
<1> USE DEF Fields, Inside, Paged, Arrive
<1>1. /\ DOMAIN http' = DOMAIN http \cup {r} /\ r \notin DOMAIN http
      /\ \A s \in DOMAIN http : http'[s] = http[s] /\ s # r
  OBVIOUS
<1>2. /\ http'[r].at = "parse" /\ http'[r].controller = c
      /\ http'[r].next = NoLink /\ http'[r].previous = NoLink
      /\ http'[r].read = {} /\ http'[r].met = {r}
      /\ Fields \subseteq DOMAIN http'[r]
  OBVIOUS
<1>3. paginator' = paginator
  OBVIOUS
<1> HIDE DEF Arrive
<1>4. Shape'
  BY <1>1, <1>2, <1>3 DEF SharingInv, Shape
<1>5. Together'
  BY <1>1, <1>2, <1>3 DEF SharingInv, Together
<1>6. Found'
  <2>1. ASSUME NEW s \in DOMAIN http PROVE FoundBy(s)'
    <3>1. FoundBy(s)
      BY DEF SharingInv, Found
    <3>2. /\ http'[s] = http[s]
          /\ \A t \in DOMAIN http : t \in DOMAIN http' /\ http'[t] = http[t]
      BY <1>1
    <3> HIDE DEF Fields, Inside, Paged
    <3> QED
      BY <1>3, <3>1, <3>2 DEF FoundBy, SizeOf
  <2>2. FoundBy(r)'
    BY <1>1, <1>2 DEF FoundBy
  <2> QED
    BY <1>1, <2>1, <2>2 DEF Found
<1>7. LinksSoFar'
  BY <1>1, <1>2, <1>3 DEF SharingInv, LinksSoFar, LinksOf, SizeOf, NextOf, PreviousOf, Lone
<1> QED
  BY <1>4, <1>5, <1>6, <1>7 DEF SharingInv

\* A step of one request that leaves the paginator as it is: what must be shown
\* of it is that it reads from those it has met, and what it does to its links.
LEMMA SharingOwnStep ==
  ASSUME SharingInv, NEW r \in DOMAIN http,
         paginator' = paginator,
         DOMAIN http' = DOMAIN http,
         \A s \in DOMAIN http : s # r => http'[s] = http[s],
         Fields \subseteq DOMAIN http'[r],
         http'[r].controller = http[r].controller,
         http'[r].page = http[r].page, http'[r].limit = http[r].limit,
         http'[r].met = http[r].met, http'[r].read \subseteq http[r].met,
         http'[r].at \in Inside => http[r].at \in Inside,
         http'[r].at \in Paged => http[r].at \in Paged,
         Lone(r) => LinksOf(r)'
  PROVE  SharingInv'
<1> USE DEF Fields, Inside, Paged
<1>1. Shape'
  BY DEF SharingInv, Shape
<1>2. Together'
  BY DEF SharingInv, Together
<1>3. Found'
  <2>1. \A s \in DOMAIN http : http'[s].page = http[s].page /\ SizeOf(http'[s]) = SizeOf(http[s])
    BY DEF SizeOf
  <2> QED
    BY <2>1 DEF SharingInv, Found, FoundBy
<1>4. LinksSoFar'
  <2> SUFFICES ASSUME NEW s \in DOMAIN http, Lone(s)'
               PROVE  LinksOf(s)'
    BY DEF LinksSoFar
  <2>1. CASE s = r
    BY <2>1 DEF Lone, SizeOf
  <2>2. CASE s # r
    BY <2>2 DEF SharingInv, LinksSoFar, LinksOf, Lone, SizeOf, NextOf, PreviousOf
  <2> QED
    BY <2>1, <2>2
<1> QED
  BY <1>1, <1>2, <1>3, <1>4 DEF SharingInv

\* Before it enters, a request touches nothing that is shared.
LEMMA SharingParse ==
  ASSUME SharingInv, NEW r \in DOMAIN http, Parse(r)
  PROVE  SharingInv'
<1> USE DEF Fields, Inside, Paged
<1>1. PICK step \in {"paginate", "refused", "failed"} : GoTo(r, step)
  BY DEF Parse
<1>2. http[r].at = "parse" /\ paginator' = paginator
  BY DEF Parse
<1> QED
  BY <1>1, <1>2, SharingOwnStep DEF GoTo, SharingInv, Shape, Found, FoundBy, LinksSoFar, LinksOf

\* The serializers look at the tables only.
LEMMA SharingSerialize ==
  ASSUME SharingInv, NEW r \in DOMAIN http, Serialize(r)
  PROVE  SharingInv'
<1> USE DEF Fields, Inside, Paged
<1>1. PICK step \in {"total", "failed"} : GoTo(r, step)
  BY DEF Serialize
<1>2. http[r].at = "serialize" /\ paginator' = paginator
  BY DEF Serialize
<1> QED
  BY <1>1, <1>2, SharingOwnStep DEF GoTo, SharingInv, Shape, Found, FoundBy, LinksSoFar, LinksOf

\* What a request finds there when it is alone is its own page and url.
LEMMA LoneFindsItself ==
  ASSUME SharingInv, NEW r \in DOMAIN http, http[r].at \in Paged, Lone(r)
  PROVE  /\ Shared(r).request = r
         /\ Shared(r).page.number = http[r].page
         /\ Shared(r).page.pages = Pages(SizeOf(http[r]), Shared(r).page.count)
         /\ http[r].page \in Int
  BY DEF SharingInv, Found, FoundBy, Lone, Shared, Paged

\* What it reads there is of those it has met.
LEMMA ReadsOfThoseMet ==
  ASSUME SharingInv, NEW r \in DOMAIN http, http[r].at \in Paged
  PROVE  {Shared(r).page.of, Shared(r).request} \subseteq http[r].met
  BY DEF SharingInv, Found, FoundBy, Shared, Paged

\* The count of the answer is the count of the page that is there.
LEMMA SharingTotal ==
  ASSUME SharingInv, NEW r \in DOMAIN http, Total(r)
  PROVE  SharingInv'
<1> USE DEF Fields, Inside, Paged
<1>1. /\ http[r].at = "total" /\ paginator' = paginator
      /\ http' = [http EXCEPT ![r].at = "next", ![r].count = Shared(r).page.count,
                              ![r].read = @ \cup {Shared(r).page.of}]
  BY DEF Total
<1>2. /\ DOMAIN http' = DOMAIN http /\ \A s \in DOMAIN http : s # r => http'[s] = http[s]
      /\ http'[r] = [http[r] EXCEPT !.at = "next", !.count = Shared(r).page.count,
                                    !.read = @ \cup {Shared(r).page.of}]
  BY <1>1
<1>3. /\ Fields \subseteq DOMAIN http'[r]
      /\ http'[r].at = "next" /\ http'[r].count = Shared(r).page.count
      /\ http'[r].controller = http[r].controller
      /\ http'[r].page = http[r].page /\ http'[r].limit = http[r].limit
      /\ http'[r].met = http[r].met
      /\ http'[r].next = http[r].next /\ http'[r].previous = http[r].previous
      /\ http'[r].read = http[r].read \cup {Shared(r).page.of}
  BY <1>2 DEF SharingInv, Shape
<1>4. http'[r].read \subseteq http[r].met
  BY <1>1, <1>3, ReadsOfThoseMet DEF SharingInv, Found, FoundBy
<1>5. Lone(r) => LinksOf(r)'
  BY <1>1, <1>3 DEF SharingInv, LinksSoFar, LinksOf, Shared
<1> QED
  BY <1>1, <1>2, <1>3, <1>4, <1>5, SharingOwnStep

\* Whether there is a next page is what its own count says, when it is alone.
LEMMA SharingHasNext ==
  ASSUME SharingInv, NEW r \in DOMAIN http, HasLink(r, "next", 1, "nextLink", "previous")
  PROVE  SharingInv'
<1> USE DEF Fields, Inside, Paged
<1> DEFINE there == Shared(r).page.number + 1 \in 1..Shared(r).page.pages
           step  == IF there THEN "nextLink" ELSE "previous"
<1>1. /\ http[r].at = "next" /\ paginator' = paginator
      /\ http' = [http EXCEPT ![r].at = step, ![r].read = @ \cup {Shared(r).page.of}]
  BY DEF HasLink
<1> HIDE DEF step
<1>2. /\ DOMAIN http' = DOMAIN http /\ \A s \in DOMAIN http : s # r => http'[s] = http[s]
      /\ http'[r] = [http[r] EXCEPT !.at = step, !.read = @ \cup {Shared(r).page.of}]
  BY <1>1
<1>3. /\ Fields \subseteq DOMAIN http'[r]
      /\ http'[r].at = step /\ http'[r].count = http[r].count
      /\ http'[r].controller = http[r].controller
      /\ http'[r].page = http[r].page /\ http'[r].limit = http[r].limit
      /\ http'[r].met = http[r].met
      /\ http'[r].next = http[r].next /\ http'[r].previous = http[r].previous
      /\ http'[r].read = http[r].read \cup {Shared(r).page.of}
  BY <1>2 DEF SharingInv, Shape
<1>4. http'[r].read \subseteq http[r].met
  BY <1>1, <1>3, ReadsOfThoseMet DEF SharingInv, Found, FoundBy
<1>5. step \in {"nextLink", "previous"}
  BY DEF step
<1>6. ASSUME Lone(r)
      PROVE  LinksOf(r)'
  <2>1. LinksOf(r) /\ SizeOf(http'[r]) = SizeOf(http[r])
    BY <1>3, <1>6 DEF SharingInv, LinksSoFar, SizeOf
  <2>2. there <=> http[r].page + (1) \in 1..Pages(SizeOf(http[r]), http[r].count)
    BY <1>1, <1>6, <2>1, LoneFindsItself DEF LinksOf, Shared
  <2> QED
    BY <1>1, <1>3, <2>1, <2>2 DEF LinksOf, NextOf, PreviousOf, step
<1> QED
  BY <1>1, <1>2, <1>3, <1>4, <1>5, <1>6, SharingOwnStep

\* And whether there is a previous one.
LEMMA SharingHasPrevious ==
  ASSUME SharingInv, NEW r \in DOMAIN http, HasLink(r, "previous", -1, "previousLink", "answered")
  PROVE  SharingInv'
<1> USE DEF Fields, Inside, Paged
<1> DEFINE there == Shared(r).page.number + -1 \in 1..Shared(r).page.pages
           step  == IF there THEN "previousLink" ELSE "answered"
<1>1. /\ http[r].at = "previous" /\ paginator' = paginator
      /\ http' = [http EXCEPT ![r].at = step, ![r].read = @ \cup {Shared(r).page.of}]
  BY DEF HasLink
<1> HIDE DEF step
<1>2. /\ DOMAIN http' = DOMAIN http /\ \A s \in DOMAIN http : s # r => http'[s] = http[s]
      /\ http'[r] = [http[r] EXCEPT !.at = step, !.read = @ \cup {Shared(r).page.of}]
  BY <1>1
<1>3. /\ Fields \subseteq DOMAIN http'[r]
      /\ http'[r].at = step /\ http'[r].count = http[r].count
      /\ http'[r].controller = http[r].controller
      /\ http'[r].page = http[r].page /\ http'[r].limit = http[r].limit
      /\ http'[r].met = http[r].met
      /\ http'[r].next = http[r].next /\ http'[r].previous = http[r].previous
      /\ http'[r].read = http[r].read \cup {Shared(r).page.of}
  BY <1>2 DEF SharingInv, Shape
<1>4. http'[r].read \subseteq http[r].met
  BY <1>1, <1>3, ReadsOfThoseMet DEF SharingInv, Found, FoundBy
<1>5. step \in {"previousLink", "answered"}
  BY DEF step
<1>6. ASSUME Lone(r)
      PROVE  LinksOf(r)'
  <2>1. LinksOf(r) /\ SizeOf(http'[r]) = SizeOf(http[r])
    BY <1>3, <1>6 DEF SharingInv, LinksSoFar, SizeOf
  <2>2. there <=> http[r].page + (-1) \in 1..Pages(SizeOf(http[r]), http[r].count)
    BY <1>1, <1>6, <2>1, LoneFindsItself DEF LinksOf, Shared
  <2> QED
    BY <1>1, <1>3, <2>1, <2>2 DEF LinksOf, NextOf, PreviousOf, step
<1> QED
  BY <1>1, <1>2, <1>3, <1>4, <1>5, <1>6, SharingOwnStep

\* The link of a request that is alone is its own url.
LEMMA SharingNextLink ==
  ASSUME SharingInv, NEW r \in DOMAIN http, NextLink(r)
  PROVE  SharingInv'
<1> USE DEF Fields, Inside, Paged
<1> DEFINE step == IF Crashes(r, 1) THEN "crashed" ELSE "previous"
           link == IF Crashes(r, 1) THEN http[r].next ELSE MadeLink(r, 1)
           both == {Shared(r).page.of, Shared(r).request}
<1>1. /\ http[r].at = "nextLink" /\ paginator' = paginator
      /\ http' = [http EXCEPT ![r].at = step, ![r].next = link, ![r].read = @ \cup both]
  BY DEF NextLink
<1> HIDE DEF step, link, both
<1>2. /\ DOMAIN http' = DOMAIN http /\ \A s \in DOMAIN http : s # r => http'[s] = http[s]
      /\ http'[r] = [http[r] EXCEPT !.at = step, !.next = link, !.read = @ \cup both]
  BY <1>1
<1>3. /\ Fields \subseteq DOMAIN http'[r]
      /\ http'[r].at = step /\ http'[r].count = http[r].count
      /\ http'[r].controller = http[r].controller
      /\ http'[r].page = http[r].page /\ http'[r].limit = http[r].limit
      /\ http'[r].met = http[r].met
      /\ http'[r].next = link /\ http'[r].previous = http[r].previous
      /\ http'[r].read = http[r].read \cup both
  BY <1>2 DEF SharingInv, Shape
<1>4. http'[r].read \subseteq http[r].met
  BY <1>1, <1>3, ReadsOfThoseMet DEF SharingInv, Found, FoundBy, both
<1>5. step \in {"previous", "crashed"}
  BY DEF step
<1>6. ASSUME Lone(r)
      PROVE  LinksOf(r)'
  <2>1. LinksOf(r) /\ SizeOf(http'[r]) = SizeOf(http[r])
    BY <1>3, <1>6 DEF SharingInv, LinksSoFar, SizeOf
  <2>2. ~Crashes(r, 1) /\ MadeLink(r, 1) = [request |-> r, number |-> http[r].page + (1)]
    BY <1>1, <1>6, <2>1, LoneFindsItself DEF LinksOf, Crashes, MadeLink, Shared
  <2> QED
    BY <1>1, <1>3, <2>1, <2>2 DEF LinksOf, NextOf, PreviousOf, step, link
<1> QED
  BY <1>1, <1>2, <1>3, <1>4, <1>5, <1>6, SharingOwnStep

\* The same of the link to the previous page, with which it leaves.
LEMMA SharingPreviousLink ==
  ASSUME SharingInv, NEW r \in DOMAIN http, PreviousLink(r)
  PROVE  SharingInv'
<1> USE DEF Fields, Inside, Paged
<1> DEFINE step == IF Crashes(r, -1) THEN "crashed" ELSE "answered"
           link == IF Crashes(r, -1) THEN http[r].previous ELSE MadeLink(r, -1)
           both == {Shared(r).page.of, Shared(r).request}
<1>1. /\ http[r].at = "previousLink" /\ paginator' = paginator
      /\ http' = [http EXCEPT ![r].at = step, ![r].previous = link, ![r].read = @ \cup both]
  BY DEF PreviousLink
<1> HIDE DEF step, link, both
<1>2. /\ DOMAIN http' = DOMAIN http /\ \A s \in DOMAIN http : s # r => http'[s] = http[s]
      /\ http'[r] = [http[r] EXCEPT !.at = step, !.previous = link, !.read = @ \cup both]
  BY <1>1
<1>3. /\ Fields \subseteq DOMAIN http'[r]
      /\ http'[r].at = step /\ http'[r].count = http[r].count
      /\ http'[r].controller = http[r].controller
      /\ http'[r].page = http[r].page /\ http'[r].limit = http[r].limit
      /\ http'[r].met = http[r].met
      /\ http'[r].previous = link /\ http'[r].next = http[r].next
      /\ http'[r].read = http[r].read \cup both
  BY <1>2 DEF SharingInv, Shape
<1>4. http'[r].read \subseteq http[r].met
  BY <1>1, <1>3, ReadsOfThoseMet DEF SharingInv, Found, FoundBy, both
<1>5. step \in {"answered", "crashed"}
  BY DEF step
<1>6. ASSUME Lone(r)
      PROVE  LinksOf(r)'
  <2>1. LinksOf(r) /\ SizeOf(http'[r]) = SizeOf(http[r])
    BY <1>3, <1>6 DEF SharingInv, LinksSoFar, SizeOf
  <2>2. ~Crashes(r, -1) /\ MadeLink(r, -1) = [request |-> r, number |-> http[r].page + (-1)]
    BY <1>1, <1>6, <2>1, LoneFindsItself DEF LinksOf, Crashes, MadeLink, Shared
  <2> QED
    BY <1>1, <1>3, <2>1, <2>2 DEF LinksOf, NextOf, PreviousOf, step, link
<1> QED
  BY <1>1, <1>2, <1>3, <1>4, <1>5, <1>6, SharingOwnStep

\* Who enters has met all who are inside, and they have met it.
LEMMA SharingPaginate ==
  ASSUME SharingInv, NEW r \in DOMAIN http, Paginate(r)
  PROVE  SharingInv'
<1> USE DEF Fields, Inside, Paged
<1> DEFINE c     == http[r].controller
           there == {s \in DOMAIN http : http[s].controller = c /\ http[s].at \in Inside}
<1>1. /\ http[r].at = "paginate" /\ c \in Controllers
      /\ paginator' = [paginator EXCEPT ![c].request = r]
      /\ Entering(r)
  BY DEF Paginate, SharingInv, Shape
<1>2. /\ DOMAIN http' = DOMAIN http /\ r \notin there
      /\ http'[r] = [http[r] EXCEPT !.at = "count", !.met = @ \cup there]
      /\ \A s \in there : http'[s] = [http[s] EXCEPT !.met = @ \cup {r}]
      /\ \A s \in DOMAIN http : s # r /\ s \notin there => http'[s] = http[s]
  BY <1>1 DEF Entering
<1>3. \A s \in DOMAIN http :
        /\ Fields \subseteq DOMAIN http'[s]
        /\ http'[s].controller = http[s].controller
        /\ http'[s].page = http[s].page /\ http'[s].limit = http[s].limit
        /\ http'[s].count = http[s].count /\ http'[s].read = http[s].read
        /\ http'[s].next = http[s].next /\ http'[s].previous = http[s].previous
  <2> SUFFICES ASSUME NEW s \in DOMAIN http
               PROVE  <1>3!(s)
    OBVIOUS
  <2>1. Fields \subseteq DOMAIN http[s]
    BY DEF SharingInv, Shape
  <2>2. CASE s = r
    BY <1>2, <2>1, <2>2
  <2>3. CASE s \in there
    BY <1>2, <2>1, <2>3
  <2>4. CASE s # r /\ s \notin there
    BY <1>2, <2>1, <2>4
  <2> QED
    BY <2>2, <2>3, <2>4
<1>4. /\ http'[r].at = "count" /\ http'[r].met = http[r].met \cup there
      /\ \A s \in there : http'[s].at = http[s].at /\ http'[s].met = http[s].met \cup {r}
      /\ \A s \in DOMAIN http : s # r /\ s \notin there =>
           http'[s].at = http[s].at /\ http'[s].met = http[s].met
  BY <1>2 DEF SharingInv, Shape
<1>5. /\ DOMAIN paginator' = DOMAIN paginator
      /\ {"request", "page"} \subseteq DOMAIN paginator'[c]
      /\ paginator'[c].request = r /\ paginator'[c].page = paginator[c].page
      /\ \A d \in Controllers : d # c => paginator'[d] = paginator[d]
  BY <1>1 DEF SharingInv, Shape
<1> HIDE DEF there
<1>6. \A s \in DOMAIN http : http[s].controller = c /\ http[s].at \in Inside <=> s \in there
  BY DEF there
<1>7. Shape'
  BY <1>2, <1>3, <1>5 DEF SharingInv, Shape
<1>8. Together'
  <2> SUFFICES ASSUME NEW s \in DOMAIN http, NEW t \in DOMAIN http
               PROVE  /\ s \in http'[s].met
                      /\ (/\ http'[s].controller = http'[t].controller
                          /\ http'[s].at \in Inside /\ http'[t].at \in Inside) => t \in http'[s].met
    BY <1>2 DEF Together
  <2>1. /\ s \in http[s].met
        /\ (/\ http[s].controller = http[t].controller
            /\ http[s].at \in Inside /\ http[t].at \in Inside) => t \in http[s].met
    BY DEF SharingInv, Together
  <2>2. CASE s = r
    BY <1>3, <1>4, <1>6, <2>1, <2>2
  <2>3. CASE s \in there
    BY <1>3, <1>4, <1>6, <2>1, <2>3
  <2>4. CASE s # r /\ s \notin there
    BY <1>3, <1>4, <1>6, <2>1, <2>4
  <2> QED
    BY <2>2, <2>3, <2>4
<1>9. Found'
  <2> SUFFICES ASSUME NEW s \in DOMAIN http
               PROVE  FoundBy(s)'
    BY <1>2 DEF Found, FoundBy
  <2>1. \A t \in DOMAIN http : SizeOf(http'[t]) = SizeOf(http[t])
    BY <1>3 DEF SizeOf
  <2>2. http[s].controller \in Controllers /\ r \in http'[r].met /\ FoundBy(s)
    BY <1>4 DEF SharingInv, Shape, Together, Found
  <2>3. CASE s = r
    <3>1. http'[r].read \subseteq http'[r].met /\ paginator'[http'[r].controller].request = r
      BY <1>3, <1>4, <1>5, <2>2, <2>3 DEF FoundBy
    <3> QED
      BY <1>4, <2>2, <2>3, <3>1 DEF FoundBy
  <2>4. CASE s \in there
    BY <1>1, <1>2, <1>3, <1>4, <1>5, <1>6, <2>1, <2>4 DEF SharingInv, Found, FoundBy
  <2>5. CASE s # r /\ s \notin there
    <3>1. /\ http'[s].at = http[s].at /\ http'[s].met = http[s].met
          /\ \A t \in DOMAIN http : http'[t].page = http[t].page
          /\ http'[s].controller = http[s].controller /\ http'[s].read = http[s].read
      BY <1>3, <1>4, <2>5
    <3>2. \A d \in Controllers : paginator'[d].page = paginator[d].page
      BY <1>5
    <3>3. http[s].at \in Inside => paginator'[http[s].controller].request \in http[s].met
      BY <1>5, <1>6, <2>2, <2>5 DEF FoundBy
    <3>4. DOMAIN http' = DOMAIN http
      BY <1>2
    <3> QED
      BY <2>1, <2>2, <3>1, <3>2, <3>3, <3>4 DEF FoundBy
  <2> QED
    BY <2>3, <2>4, <2>5
<1>10. LinksSoFar'
  <2> SUFFICES ASSUME NEW s \in DOMAIN http, Lone(s)'
               PROVE  LinksOf(s)'
    BY <1>2 DEF LinksSoFar
  <2>1. s \notin there /\ Lone(s)
    BY <1>1, <1>4, <1>6 DEF Lone, SharingInv, Together
  <2>2. /\ LinksOf(s) /\ SizeOf(http'[s]) = SizeOf(http[s])
        /\ http[s].controller \in Controllers
    BY <1>3, <2>1 DEF SharingInv, Shape, LinksSoFar, SizeOf
  <2>3. CASE s = r
    BY <1>1, <1>3, <1>4, <2>2, <2>3 DEF LinksOf
  <2>4. CASE s # r
    BY <1>3, <1>4, <1>5, <1>6, <2>1, <2>2, <2>4 DEF LinksOf, NextOf, PreviousOf
  <2> QED
    BY <2>3, <2>4
<1> QED
  BY <1>7, <1>8, <1>9, <1>10 DEF SharingInv

\* The page that a request makes is that of a request that all who are inside
\* have met: none of them is alone.
LEMMA SharingCount ==
  ASSUME SharingInv, NEW r \in DOMAIN http, Count(r)
  PROVE  SharingInv'
<1> USE DEF Fields, Inside, Paged
<1> DEFINE c     == http[r].controller
           count == Len(Query(http[r]))
           page  == PageOf(r, count)
<1>1. CASE http[r].page \notin 1..Pages(SizeOf(http[r]), count)
  <2>1. http[r].at = "count" /\ paginator' = paginator /\ GoTo(r, "refused")
    BY <1>1 DEF Count
  <2> QED
    BY <2>1, SharingOwnStep DEF GoTo, SharingInv, Shape, Found, FoundBy, LinksSoFar, LinksOf
<1>2. CASE http[r].page \in 1..Pages(SizeOf(http[r]), count)
  <2>1. /\ http[r].at = "count" /\ c \in Controllers /\ GoTo(r, "list")
        /\ paginator' = [paginator EXCEPT ![c].page = page]
    BY <1>2 DEF Count, SharingInv, Shape
  <2>2. /\ page.of = r /\ page.number = http[r].page /\ page.count = count
        /\ page.pages = Pages(SizeOf(http[r]), page.count)
        /\ {"of", "number", "pages", "count", "rows"} \subseteq DOMAIN page
    BY DEF PageOf
  <2> HIDE DEF count, page
  <2>3. http[r].page \in Int
    BY <1>2
  <2>4. /\ DOMAIN http' = DOMAIN http
        /\ \A s \in DOMAIN http : s # r => http'[s] = http[s]
        /\ http'[r] = [http[r] EXCEPT !.at = "list"]
    BY <2>1 DEF GoTo
  <2>5. /\ Fields \subseteq DOMAIN http'[r] /\ http'[r].at = "list"
        /\ http'[r].controller = http[r].controller
        /\ http'[r].page = http[r].page /\ http'[r].limit = http[r].limit
        /\ http'[r].met = http[r].met /\ http'[r].read = http[r].read
        /\ http'[r].next = http[r].next /\ http'[r].previous = http[r].previous
    BY <2>4 DEF SharingInv, Shape
  <2>6. \A s \in DOMAIN http : SizeOf(http'[s]) = SizeOf(http[s]) /\ http'[s].page = http[s].page
    BY <2>4, <2>5 DEF SizeOf
  <2>7. /\ DOMAIN paginator' = DOMAIN paginator
        /\ {"request", "page"} \subseteq DOMAIN paginator'[c]
        /\ paginator'[c].request = paginator[c].request /\ paginator'[c].page = page
        /\ \A d \in Controllers : d # c => paginator'[d] = paginator[d]
    BY <2>1 DEF SharingInv, Shape
  <2>8. Shape'
    BY <2>4, <2>5, <2>7 DEF SharingInv, Shape
  <2>9. Together'
    BY <2>1, <2>4, <2>5 DEF SharingInv, Together
  <2>10. Found'
    <3> SUFFICES ASSUME NEW s \in DOMAIN http
                 PROVE  FoundBy(s)'
      BY <2>4 DEF Found
    <3>1. /\ FoundBy(s) /\ http[s].controller \in Controllers
          /\ (http[s].controller = c /\ http[s].at \in Inside) => r \in http[s].met
      BY <2>1 DEF SharingInv, Shape, Found, Together
    <3>2. CASE s = r
      BY <2>1, <2>2, <2>3, <2>4, <2>5, <2>6, <2>7, <3>1, <3>2 DEF FoundBy
    <3>3. CASE s # r /\ http[s].controller = c
      BY <2>1, <2>2, <2>3, <2>4, <2>5, <2>6, <2>7, <3>1, <3>3 DEF FoundBy
    <3>4. CASE s # r /\ http[s].controller # c
      BY <2>4, <2>6, <2>7, <3>1, <3>4 DEF FoundBy
    <3> QED
      BY <3>2, <3>3, <3>4
  <2>11. LinksSoFar'
    <3> SUFFICES ASSUME NEW s \in DOMAIN http, Lone(s)'
                 PROVE  LinksOf(s)'
      BY <2>4 DEF LinksSoFar
    <3>1. /\ Lone(s) /\ LinksOf(s) /\ http[s].controller \in Controllers
          /\ (http[s].controller = c /\ http[s].at \in Inside) => r \in http[s].met
      BY <2>1, <2>4, <2>5 DEF SharingInv, Shape, LinksSoFar, Lone, Together
    <3>2. CASE s = r
      BY <2>1, <2>5, <3>1, <3>2 DEF LinksOf
    <3>3. CASE s # r
      BY <2>1, <2>4, <2>7, <3>1, <3>3 DEF LinksOf, NextOf, PreviousOf, Lone
    <3> QED
      BY <3>2, <3>3
  <2> QED
    BY <2>8, <2>9, <2>10, <2>11 DEF SharingInv
<1> QED
  BY <1>1, <1>2

\* Reading the rows into a page changes nothing else of it.
LEMMA SharingList ==
  ASSUME SharingInv, NEW r \in DOMAIN http, List(r)
  PROVE  SharingInv'
<1> USE DEF Fields, Inside, Paged
<1> DEFINE c    == http[r].controller
           rows == RowsOf(Shared(r).page)
<1>1. /\ http[r].at = "list" /\ c \in Controllers
      /\ paginator' = [paginator EXCEPT ![c].page.rows = rows]
      /\ http' = [http EXCEPT ![r].at = "serialize", ![r].rows = rows,
                              ![r].read = @ \cup {Shared(r).page.of}]
  BY DEF List, SharingInv, Shape
<1> HIDE DEF rows
<1>2. /\ DOMAIN http' = DOMAIN http
      /\ \A s \in DOMAIN http : s # r => http'[s] = http[s]
      /\ http'[r] = [http[r] EXCEPT !.at = "serialize", !.rows = rows,
                                    !.read = @ \cup {Shared(r).page.of}]
  BY <1>1
<1>3. /\ Fields \subseteq DOMAIN http'[r] /\ http'[r].at = "serialize"
      /\ http'[r].controller = http[r].controller
      /\ http'[r].page = http[r].page /\ http'[r].limit = http[r].limit
      /\ http'[r].met = http[r].met
      /\ http'[r].next = http[r].next /\ http'[r].previous = http[r].previous
      /\ http'[r].read = http[r].read \cup {Shared(r).page.of}
  BY <1>2 DEF SharingInv, Shape
<1>4. http'[r].read \subseteq http[r].met
  BY <1>1, <1>3, ReadsOfThoseMet DEF SharingInv, Found, FoundBy
<1>5. \A s \in DOMAIN http : SizeOf(http'[s]) = SizeOf(http[s]) /\ http'[s].page = http[s].page
  BY <1>2, <1>3 DEF SizeOf
<1>6. /\ DOMAIN paginator' = DOMAIN paginator
      /\ {"request", "page"} \subseteq DOMAIN paginator'[c]
      /\ paginator'[c].request = paginator[c].request
      /\ paginator'[c].page = [paginator[c].page EXCEPT !.rows = rows]
      /\ \A d \in Controllers : d # c => paginator'[d] = paginator[d]
  BY <1>1 DEF SharingInv, Shape
<1>7. /\ {"of", "number", "pages", "count", "rows"} \subseteq DOMAIN paginator'[c].page
      /\ paginator'[c].page.of = paginator[c].page.of
      /\ paginator'[c].page.number = paginator[c].page.number
      /\ paginator'[c].page.pages = paginator[c].page.pages
      /\ paginator'[c].page.count = paginator[c].page.count
  BY <1>1, <1>6 DEF SharingInv, Found, FoundBy
<1>8. Shape'
  <2>1. \A s \in DOMAIN http' :
          http'[s].controller \in Controllers /\ Fields \subseteq DOMAIN http'[s]
    <3> SUFFICES ASSUME NEW s \in DOMAIN http
                 PROVE  http'[s].controller \in Controllers /\ Fields \subseteq DOMAIN http'[s]
      BY <1>2
    <3>1. http[s].controller \in Controllers /\ Fields \subseteq DOMAIN http[s]
      BY DEF SharingInv, Shape
    <3>2. CASE s = r
      BY <1>1, <1>3, <3>2
    <3>3. CASE s # r
      BY <1>2, <3>1, <3>3
    <3> QED
      BY <3>2, <3>3
  <2>2. \A d \in Controllers : {"request", "page"} \subseteq DOMAIN paginator'[d]
    BY <1>6 DEF SharingInv, Shape
  <2> QED
    BY <1>6, <2>1, <2>2 DEF SharingInv, Shape
<1>9. Together'
  BY <1>1, <1>2, <1>3 DEF SharingInv, Together
<1>10. Found'
  <2> SUFFICES ASSUME NEW s \in DOMAIN http
               PROVE  FoundBy(s)'
    BY <1>2 DEF Found
  <2>1. FoundBy(s) /\ http[s].controller \in Controllers
    BY DEF SharingInv, Shape, Found
  <2>2. CASE s = r
    BY <1>1, <1>2, <1>3, <1>4, <1>5, <1>6, <1>7, <2>1, <2>2 DEF FoundBy
  <2>3. CASE s # r /\ http[s].controller = c
    BY <1>2, <1>5, <1>6, <1>7, <2>1, <2>3 DEF FoundBy
  <2>4. CASE s # r /\ http[s].controller # c
    BY <1>2, <1>5, <1>6, <2>1, <2>4 DEF FoundBy
  <2> QED
    BY <2>2, <2>3, <2>4
<1>11. LinksSoFar'
  <2> SUFFICES ASSUME NEW s \in DOMAIN http, Lone(s)'
               PROVE  LinksOf(s)'
    BY <1>2 DEF LinksSoFar
  <2>1. Lone(s) /\ LinksOf(s) /\ http[s].controller \in Controllers
    BY <1>2, <1>3 DEF SharingInv, Shape, LinksSoFar, Lone
  <2>2. CASE s = r
    BY <1>1, <1>3, <2>1, <2>2 DEF LinksOf
  <2>3. CASE s # r
    BY <1>2, <1>6, <1>7, <2>1, <2>3 DEF LinksOf, NextOf, PreviousOf
  <2> QED
    BY <2>2, <2>3
<1> QED
  BY <1>8, <1>9, <1>10, <1>11 DEF SharingInv

\* What happens to the tables does not concern the links.
LEMMA SharingTables ==
  ASSUME SharingInv, TablesChange
  PROVE  SharingInv'
<1>1. CASE UNCHANGED <<paginator, http>>
  BY <1>1, SharingFrame DEF SharingInv, Shape
<1>2. CASE Deleting /\ UNCHANGED paginator
  BY <1>2, SharingFrame DEF Deleting, SharingInv, Shape, Fields
<1> QED
  BY <1>1, <1>2 DEF TablesChange, Store, DeleteMessage, AdminAddParticipant,
     AdminRemoveParticipant, AdminCreateChat, AdminDeleteChat

\* Every step preserves the invariant.
LEMMA SharingStep == SharingInv /\ [Next]_vars => SharingInv'
<1> SUFFICES ASSUME SharingInv, [Next]_vars
             PROVE  SharingInv'
  OBVIOUS
<1>1. CASE UNCHANGED vars
  BY <1>1, SharingFrame DEF vars, SharingInv, Shape
<1>2. CASE TablesChange
  BY <1>2, SharingTables
<1>3. ASSUME NEW r \in DOMAIN http, Get(r)
      PROVE  SharingInv'
  BY <1>3, SharingParse, SharingPaginate, SharingCount, SharingList, SharingSerialize,
     SharingTotal, SharingHasNext, SharingNextLink, SharingHasPrevious, SharingPreviousLink
     DEF Get
<1>4. ASSUME NEW r \in Request, NEW c \in Controllers, NEW u \in User, NEW p \in Page,
             NEW l \in Limit, NEW k, Arrive(r, c, u, k, p, l)
      PROVE  SharingInv'
  BY <1>4, SharingArrive
<1> QED
  BY <1>1, <1>2, <1>3, <1>4 DEF Next

\* It holds of all behaviours.
LEMMA SharingInvariant == Spec => []SharingInv
  BY SharingInit, SharingStep, PTL DEF Spec

\* Nothing in an answer comes from a request that was not between
\* paginate_queryset and get_paginated_response together with it, whatever
\* pages failed, were refused or left in the paginator before.
THEOREM AnswersOfThoseMet == Spec => []AnsweredFromThoseMet
<1>1. SharingInv => AnsweredFromThoseMet
  BY DEF SharingInv, Found, FoundBy, AnsweredFromThoseMet
<1> QED
  BY <1>1, SharingInvariant, PTL

\* A request that met no other has exactly the links that its page, limit and
\* count call for, to its own url, although count, page and url are read one by
\* one from the paginator all requests share.
THEOREM OwnLinks == Spec => []OwnLinksWhenAlone
<1>1. SharingInv => OwnLinksWhenAlone
  BY DEF SharingInv, LinksSoFar, LinksOf, OwnLinksWhenAlone, NextOf, PreviousOf
<1> QED
  BY <1>1, SharingInvariant, PTL

\* A list without its element number i.
LEMMA RemoveAtFacts ==
  ASSUME NEW T, NEW s \in Seq(T), NEW i \in DOMAIN s
  PROVE  /\ RemoveAt(s, i) \in Seq(T)
         /\ Len(RemoveAt(s, i)) = Len(s) - 1
         /\ DOMAIN RemoveAt(s, i) = 1 .. (Len(s) - 1)
         /\ \A j \in 1 .. (Len(s) - 1) :
              /\ (IF j < i THEN j ELSE j + 1) \in DOMAIN s
              /\ RemoveAt(s, i)[j] = s[IF j < i THEN j ELSE j + 1]
<1> DEFINE front == SubSeq(s, 1, i - 1)
           back  == SubSeq(s, i + 1, Len(s))
<1>1. Len(s) \in Nat /\ i \in 1 .. Len(s)
  OBVIOUS
<1>2. /\ front \in Seq(T) /\ Len(front) = i - 1
      /\ \A j \in 1 .. (i - 1) : front[j] = s[j]
  BY <1>1
<1>3. /\ back \in Seq(T) /\ Len(back) = Len(s) - i
      /\ \A j \in 1 .. (Len(s) - i) : back[j] = s[i + j]
  BY <1>1
<1>4. RemoveAt(s, i) = front \o back
  BY DEF RemoveAt
<1> HIDE DEF front, back
<1>5. /\ front \o back \in Seq(T) /\ Len(front \o back) = Len(s) - 1
      /\ DOMAIN (front \o back) = 1 .. (Len(s) - 1)
  BY <1>1, <1>2, <1>3
<1>6. ASSUME NEW j \in 1 .. (Len(s) - 1)
      PROVE  /\ (IF j < i THEN j ELSE j + 1) \in DOMAIN s
             /\ (front \o back)[j] = s[IF j < i THEN j ELSE j + 1]
  <2>1. CASE j < i
    <3>1. (front \o back)[j] = front[j] /\ j \in 1 .. (i - 1)
      BY <1>1, <1>2, <1>3, <2>1
    <3> QED
      BY <1>1, <1>2, <2>1, <3>1
  <2>2. CASE ~(j < i)
    <3>0. Len(front) = i - 1 /\ j \in (Len(front) + 1) .. (Len(front) + Len(back))
      BY <1>1, <1>2, <1>3, <2>2
    <3>3. (front \o back)[j] = back[j - Len(front)]
      <4>1. /\ j \in Nat /\ Len(front) \in Nat /\ Len(back) \in Nat /\ j > Len(front)
            /\ j \in 1 .. (Len(front) + Len(back))
        BY <1>2, <1>3, <3>0
      <4>2. \A f, b \in Seq(T) : \A k \in 1 .. (Len(f) + Len(b)) :
              k > Len(f) => (f \o b)[k] = b[k - Len(f)]
        OBVIOUS
      <4> QED
        BY <1>2, <1>3, <4>1, <4>2, Zenon
    <3>4. j - (i - 1) \in 1 .. (Len(s) - i)
      BY <1>1, <2>2
    <3>1. (front \o back)[j] = back[j - (i - 1)] /\ j - (i - 1) \in 1 .. (Len(s) - i)
      BY <3>0, <3>3, <3>4
    <3>2. back[j - (i - 1)] = s[i + (j - (i - 1))] /\ i + (j - (i - 1)) = j + 1
      BY <1>1, <1>3, <3>1
    <3> QED
      BY <1>1, <2>2, <3>1, <3>2
  <2> QED
    BY <2>1, <2>2
<1> QED
  BY <1>4, <1>5, <1>6

\* A list with one more element, in front.
LEMMA FrontFacts ==
  ASSUME NEW T, NEW x \in T, NEW s \in Seq(T)
  PROVE  /\ <<x>> \o s \in Seq(T)
         /\ Len(<<x>> \o s) = Len(s) + 1
         /\ DOMAIN (<<x>> \o s) = 1 .. (Len(s) + 1)
         /\ (<<x>> \o s)[1] = x
         /\ \A j \in 1 .. Len(s) : (<<x>> \o s)[j + 1] = s[j]
         /\ \A j \in 2 .. (Len(s) + 1) : j - 1 \in 1 .. Len(s) /\ (<<x>> \o s)[j] = s[j - 1]
  OBVIOUS

\* Whole pages: the rows of n pages are fewer than count just if another
\* page can follow the first n.
LEMMA PagesFacts ==
  ASSUME NEW size \in Nat \ {0}, NEW count \in Nat
  PROVE  /\ Pages(size, count) \in Nat
         /\ \A n \in Nat \ {0} : n + 1 \in 1 .. Pages(size, count) <=> n * size < count
<1>1. CASE count = 0
  <2>1. Pages(size, count) = 1
    BY <1>1 DEF Pages
  <2>2. \A n \in Nat : n * size >= 0
    OBVIOUS
  <2> QED
    BY <1>1, <2>1, <2>2
<1>2. CASE count # 0
  <2> DEFINE d == (count + size - 1) \div size
  <2>1. Pages(size, count) = d
    BY <1>2 DEF Pages
  <2>2. d \in Int /\ d * size <= count + size - 1 /\ count + size - 1 < (d + 1) * size
    BY <1>2
  <2> HIDE DEF d
  <2>3. d \in Nat
    BY <1>2, <2>2
  <2>4. ASSUME NEW n \in Nat \ {0}
        PROVE  n + 1 \in 1 .. d <=> n * size < count
    <3>1. CASE n + 1 <= d
      BY <1>2, <2>2, <2>3, <3>1
    <3>2. CASE d < n + 1
      BY <1>2, <2>2, <2>3, <3>2
    <3> QED
      BY <2>3, <3>1, <3>2
  <2> QED
    BY <2>1, <2>3, <2>4
<1> QED
  BY <1>1, <1>2

\* A bounded sequence is a sequence.
LEMMA SeqOfIsSeq ==
  ASSUME NEW T, NEW n \in Nat, NEW s \in SeqOf(T, n)
  PROVE  s \in Seq(T)
<1>1. PICK m \in 0 .. n : s \in [1 .. m -> T]
  BY DEF SeqOf
<1> QED
  BY <1>1

\* The messages of a chat; and those of them that were there when q came.
Of(k) == {m \in ToSet(messages) : m.chat = k}
Old(q) == {m \in Of(q.chat) : m.id <= q.known}

\* The tables: a chat is there once, and the messages are the newest first.
TablesInv ==
  /\ chats \in Seq(Chat) /\ IsInjective(chats)
  /\ participants \in Seq(ParticipantRow)
  /\ messages \in Seq(MessageRow) /\ stored \in Nat
  /\ \A i \in DOMAIN messages : messages[i].id <= stored
  /\ \A i, j \in DOMAIN messages : i < j => messages[j].id < messages[i].id

\* Initially the tables are any that could have come about.
LEMMA TablesInit == Init => TablesInv
<1> SUFFICES ASSUME Init PROVE TablesInv
  OBVIOUS
<1>1. chats \in Seq(Chat) /\ IsInjective(chats)
  BY SeqOfIsSeq, ListAssumption DEF Init
<1>2. ToSet(chats) \subseteq Chat
  BY <1>1 DEF ToSet
<1>3. participants \in Seq(ParticipantRow)
  <2>1. participants \in Seq([chat : ToSet(chats), user : User])
    BY SeqOfIsSeq, ListAssumption DEF Init
  <2>2. [chat : ToSet(chats), user : User] \subseteq ParticipantRow
    BY <1>2 DEF ParticipantRow
  <2> QED
    BY <2>1, <2>2, SeqOfWiderSet
<1>4. PICK of \in Seq(Chat) :
        /\ messages = [i \in DOMAIN of |-> [chat |-> of[i], id |-> Len(of) + 1 - i]]
        /\ stored = Len(of)
  <2>1. PICK of \in SeqOf(ToSet(chats), MaxMessages) :
          /\ messages = [i \in DOMAIN of |-> [chat |-> of[i], id |-> Len(of) + 1 - i]]
          /\ stored = Len(of)
    BY DEF Init
  <2>2. of \in Seq(ToSet(chats))
    BY <2>1, SeqOfIsSeq, ListAssumption
  <2>3. of \in Seq(Chat)
    BY <1>2, <2>2, SeqOfWiderSet
  <2> QED
    BY <2>1, <2>3
<1>5. /\ DOMAIN of = 1 .. Len(of) /\ Len(of) \in Nat /\ DOMAIN messages = 1 .. Len(of)
      /\ \A i \in 1 .. Len(of) : /\ of[i] \in Chat
                                 /\ messages[i] = [chat |-> of[i], id |-> Len(of) + 1 - i]
                                 /\ Len(of) + 1 - i \in Nat /\ Len(of) + 1 - i <= Len(of)
  BY <1>4
<1>6. \A i \in 1 .. Len(of) : messages[i] \in MessageRow /\ messages[i].id = Len(of) + 1 - i
  BY <1>5 DEF MessageRow
<1>7. messages = [i \in 1 .. Len(of) |-> messages[i]]
  BY <1>4, <1>5
<1>8. messages \in Seq(MessageRow)
  BY <1>5, <1>6, <1>7
<1>9. \A i, j \in DOMAIN messages : i < j => messages[j].id < messages[i].id
  BY <1>5, <1>6
<1> QED
  BY <1>1, <1>3, <1>4, <1>5, <1>6, <1>8, <1>9 DEF TablesInv

\* A filter of messages that are the newest first.
LEMMA FilterDescends ==
  ASSUME NEW list \in Seq(MessageRow), NEW S \in SUBSET DOMAIN list,
         \A i, j \in DOMAIN list : i < j => list[j].id < list[i].id
  PROVE  \A i, j \in DOMAIN SelectAt(list, S) :
           i < j => SelectAt(list, S)[j].id < SelectAt(list, S)[i].id
<1> DEFINE kept == SelectAt(list, S)
           at   == Ascending(S)
<1>1. /\ DOMAIN kept = 1 .. Cardinality(S)
      /\ \A m, n \in 1 .. Cardinality(S) : m < n => at[m] < at[n]
      /\ \A n \in 1 .. Cardinality(S) : at[n] \in S /\ kept[n] = list[at[n]]
  BY SelectAtFacts
<1> HIDE DEF kept, at
<1>2. ASSUME NEW i \in DOMAIN kept, NEW j \in DOMAIN kept, i < j
      PROVE  kept[j].id < kept[i].id
  <2>1. /\ at[i] < at[j] /\ at[i] \in DOMAIN list /\ at[j] \in DOMAIN list
        /\ kept[i] = list[at[i]] /\ kept[j] = list[at[j]]
    BY <1>1, <1>2
  <2> QED
    BY <2>1
<1> QED
  BY <1>2 DEF kept

\* The values that a filter leaves are those at the places it leaves.
LEMMA FilterValues ==
  ASSUME NEW T, NEW list \in Seq(T), NEW S \in SUBSET DOMAIN list
  PROVE  ToSet(SelectAt(list, S)) = {list[i] : i \in S}
<1> DEFINE kept == SelectAt(list, S)
           at   == Ascending(S)
<1>1. /\ DOMAIN kept = 1 .. Cardinality(S)
      /\ \A n \in 1 .. Cardinality(S) : at[n] \in S /\ kept[n] = list[at[n]]
      /\ \A i \in S : \E n \in 1 .. Cardinality(S) : at[n] = i /\ kept[n] = list[i]
  BY SelectAtFacts
<1> HIDE DEF kept, at
<1>2. \A x \in ToSet(kept) : \E i \in S : x = list[i]
  BY <1>1 DEF ToSet
<1>3. \A i \in S : list[i] \in ToSet(kept)
  BY <1>1 DEF ToSet
<1> QED
  BY <1>2, <1>3 DEF kept

\* What a step of the tables does to the messages: none comes but a new one,
\* and when one goes, every request under way is disturbed.
MessagesStep ==
  /\ stored' \in Nat /\ stored <= stored'
  /\ \A m \in ToSet(messages') : m \in ToSet(messages) \/ m.id > stored
  /\ ToSet(messages) \subseteq ToSet(messages') \/ Deleting

\* Nothing happens to the tables.
LEMMA TablesStay ==
  ASSUME TablesInv, UNCHANGED tables
  PROVE  TablesInv' /\ MessagesStep
  BY DEF TablesInv, tables, MessagesStep

\* A message is stored.
LEMMA TablesStore ==
  ASSUME TablesInv, NEW k \in Chat, Store(k)
  PROVE  TablesInv' /\ MessagesStep
<1> DEFINE m == [chat |-> k, id |-> stored + 1]
<1>1. /\ messages' = <<m>> \o messages /\ stored' = stored + 1
      /\ UNCHANGED <<chats, participants>>
  BY DEF Store
<1>2. m \in MessageRow /\ m.id = stored + 1 /\ stored \in Nat /\ messages \in Seq(MessageRow)
  BY DEF MessageRow, TablesInv
<1> HIDE DEF m
<1>3. /\ messages' \in Seq(MessageRow)
      /\ DOMAIN messages' = 1 .. (Len(messages) + 1)
      /\ messages'[1] = m
      /\ \A j \in 1 .. Len(messages) : messages'[j + 1] = messages[j]
      /\ \A j \in 2 .. (Len(messages) + 1) : j - 1 \in 1 .. Len(messages) /\ messages'[j] = messages[j - 1]
  BY <1>1, <1>2, FrontFacts
<1>4. /\ DOMAIN messages = 1 .. Len(messages) /\ Len(messages) \in Nat
      /\ \A i \in DOMAIN messages : messages[i].id \in Nat /\ messages[i].id <= stored
      /\ \A i, j \in DOMAIN messages : i < j => messages[j].id < messages[i].id
  <2>1. /\ DOMAIN messages = 1 .. Len(messages) /\ Len(messages) \in Nat
        /\ \A i \in DOMAIN messages : messages[i] \in MessageRow
    BY <1>2
  <2> QED
    BY <2>1 DEF TablesInv, MessageRow
<1>5. \A i \in DOMAIN messages' : messages'[i].id <= stored'
  BY <1>1, <1>2, <1>3, <1>4
<1>6. ASSUME NEW i \in DOMAIN messages', NEW j \in DOMAIN messages', i < j
      PROVE  messages'[j].id < messages'[i].id
  <2>1. j \in 2 .. (Len(messages) + 1) /\ messages'[j] = messages[j - 1] /\ j - 1 \in DOMAIN messages
    BY <1>3, <1>4, <1>6
  <2>2. CASE i = 1
    BY <1>2, <1>3, <1>4, <2>1, <2>2
  <2>3. CASE i # 1
    <3>1. /\ i \in 2 .. (Len(messages) + 1) /\ messages'[i] = messages[i - 1]
          /\ i - 1 \in DOMAIN messages /\ i - 1 < j - 1
      BY <1>3, <1>4, <1>6, <2>3
    <3> QED
      BY <1>4, <2>1, <3>1
  <2> QED
    BY <2>2, <2>3
<1>7. TablesInv'
  BY <1>1, <1>2, <1>3, <1>5, <1>6 DEF TablesInv
<1>8. ToSet(messages') = ToSet(messages) \cup {m}
  <2>1. ToSet(messages') \subseteq ToSet(messages) \cup {m}
    <3> SUFFICES ASSUME NEW i \in DOMAIN messages' PROVE messages'[i] \in ToSet(messages) \cup {m}
      BY DEF ToSet
    <3>1. i = 1 \/ i \in 2 .. (Len(messages) + 1)
      BY <1>3, <1>4
    <3> QED
      BY <1>3, <1>4, <3>1 DEF ToSet
  <2>2. ToSet(messages) \subseteq ToSet(messages')
    <3> SUFFICES ASSUME NEW i \in DOMAIN messages PROVE messages[i] \in ToSet(messages')
      BY DEF ToSet
    <3>1. i + 1 \in DOMAIN messages' /\ messages'[i + 1] = messages[i]
      BY <1>3, <1>4
    <3> QED
      BY <3>1 DEF ToSet
  <2>3. m \in ToSet(messages')
    BY <1>3, <1>4 DEF ToSet
  <2> QED
    BY <2>1, <2>2, <2>3
<1> QED
  BY <1>1, <1>2, <1>7, <1>8 DEF MessagesStep

\* A message is removed.
LEMMA TablesDeleteMessage ==
  ASSUME TablesInv, NEW i \in DOMAIN messages, DeleteMessage(i)
  PROVE  TablesInv' /\ MessagesStep
<1>1. messages' = RemoveAt(messages, i) /\ Deleting /\ UNCHANGED <<chats, participants, stored>>
  BY DEF DeleteMessage
<1>2. /\ messages \in Seq(MessageRow) /\ Len(messages) \in Nat
      /\ DOMAIN messages = 1 .. Len(messages)
  BY DEF TablesInv
<1>3. /\ messages' \in Seq(MessageRow)
      /\ DOMAIN messages' = 1 .. (Len(messages) - 1)
      /\ \A j \in 1 .. (Len(messages) - 1) :
           /\ (IF j < i THEN j ELSE j + 1) \in DOMAIN messages
           /\ messages'[j] = messages[IF j < i THEN j ELSE j + 1]
  BY <1>1, <1>2, RemoveAtFacts
<1>4. \A j \in DOMAIN messages' : messages'[j] \in ToSet(messages) /\ messages'[j].id <= stored
  BY <1>3 DEF ToSet, TablesInv
<1>5. ASSUME NEW j \in DOMAIN messages', NEW l \in DOMAIN messages', j < l
      PROVE  messages'[l].id < messages'[j].id
  <2> DEFINE a == IF j < i THEN j ELSE j + 1
             b == IF l < i THEN l ELSE l + 1
  <2>1. a < b
    BY <1>2, <1>3, <1>5
  <2>2. /\ a \in DOMAIN messages /\ messages'[j] = messages[a]
        /\ b \in DOMAIN messages /\ messages'[l] = messages[b]
    BY <1>3
  <2> HIDE DEF a, b
  <2> QED
    BY <2>1, <2>2 DEF TablesInv
<1> QED
  BY <1>1, <1>3, <1>4, <1>5 DEF TablesInv, MessagesStep, ToSet

\* The administrator adds or removes a participant.
LEMMA TablesParticipants ==
  ASSUME TablesInv,
         \/ \E u \in User, k \in Chat : AdminAddParticipant(u, k)
         \/ \E i \in DOMAIN participants : AdminRemoveParticipant(i)
  PROVE  TablesInv' /\ MessagesStep
<1>1. UNCHANGED <<chats, messages, stored>>
  BY DEF AdminAddParticipant, AdminRemoveParticipant
<1>2. participants' \in Seq(ParticipantRow)
  <2>1. ASSUME NEW u \in User, NEW k \in Chat, AdminAddParticipant(u, k)
        PROVE  participants' \in Seq(ParticipantRow)
    <3>1. [chat |-> k, user |-> u] \in ParticipantRow
      BY DEF ParticipantRow
    <3> QED
      BY <2>1, <3>1, FrontFacts DEF AdminAddParticipant, TablesInv
  <2>2. ASSUME NEW i \in DOMAIN participants, AdminRemoveParticipant(i)
        PROVE  participants' \in Seq(ParticipantRow)
    BY <2>2, RemoveAtFacts DEF AdminRemoveParticipant, TablesInv
  <2> QED
    BY <2>1, <2>2
<1> QED
  BY <1>1, <1>2 DEF TablesInv, MessagesStep

\* The administrator creates a chat.
LEMMA TablesCreateChat ==
  ASSUME TablesInv, NEW k \in Chat, AdminCreateChat(k)
  PROVE  TablesInv' /\ MessagesStep
<1>1. /\ k \notin ToSet(chats) /\ chats' = <<k>> \o chats
      /\ UNCHANGED <<participants, messages, stored>>
  BY DEF AdminCreateChat
<1>2. chats \in Seq(Chat) /\ Len(chats) \in Nat /\ DOMAIN chats = 1 .. Len(chats)
  BY DEF TablesInv
<1>3. /\ chats' \in Seq(Chat) /\ DOMAIN chats' = 1 .. (Len(chats) + 1) /\ chats'[1] = k
      /\ \A j \in 2 .. (Len(chats) + 1) : j - 1 \in 1 .. Len(chats) /\ chats'[j] = chats[j - 1]
  BY <1>1, <1>2, FrontFacts
<1>4. ASSUME NEW i \in DOMAIN chats', NEW j \in DOMAIN chats', chats'[i] = chats'[j]
      PROVE  i = j
  <2>1. /\ i = 1 \/ i \in 2 .. (Len(chats) + 1)
        /\ j = 1 \/ j \in 2 .. (Len(chats) + 1)
    BY <1>2, <1>3
  <2>2. \A l \in 2 .. (Len(chats) + 1) : chats'[l] # k
    BY <1>1, <1>2, <1>3 DEF ToSet
  <2>3. CASE i \in 2 .. (Len(chats) + 1) /\ j \in 2 .. (Len(chats) + 1)
    <3>1. i - 1 = j - 1
      BY <1>2, <1>3, <1>4, <2>3 DEF TablesInv, IsInjective
    <3> QED
      BY <2>3, <3>1
  <2> QED
    BY <1>3, <1>4, <2>1, <2>2, <2>3
<1> QED
  BY <1>1, <1>3, <1>4 DEF TablesInv, MessagesStep, IsInjective

\* The administrator deletes a chat, and its participants and messages go.
LEMMA TablesDeleteChat ==
  ASSUME TablesInv, NEW k \in Chat, AdminDeleteChat(k)
  PROVE  TablesInv' /\ MessagesStep
<1> DEFINE C == {i \in DOMAIN chats : chats[i] # k}
           P == {i \in DOMAIN participants : participants[i].chat # k}
           M == {i \in DOMAIN messages : messages[i].chat # k}
<1>1. /\ chats' = SelectAt(chats, C) /\ participants' = SelectAt(participants, P)
      /\ messages' = SelectAt(messages, M) /\ stored' = stored /\ Deleting
  BY DEF AdminDeleteChat, OutsideChat
<1>2. /\ C \in SUBSET DOMAIN chats /\ P \in SUBSET DOMAIN participants /\ M \in SUBSET DOMAIN messages
      /\ chats \in Seq(Chat) /\ participants \in Seq(ParticipantRow) /\ messages \in Seq(MessageRow)
  BY DEF TablesInv
<1> HIDE DEF C, P, M
<1>3. chats' \in Seq(Chat) /\ participants' \in Seq(ParticipantRow) /\ messages' \in Seq(MessageRow)
  BY <1>1, <1>2, SelectAtFacts
<1>4. IsInjective(chats')
  <2>1. /\ DOMAIN chats' = 1 .. Cardinality(C)
        /\ Ascending(C) \in Bijection(1 .. Cardinality(C), C)
        /\ \A n \in 1 .. Cardinality(C) : Ascending(C)[n] \in C /\ chats'[n] = chats[Ascending(C)[n]]
    BY <1>1, <1>2, SelectAtFacts
  <2> QED
    BY <1>2, <2>1 DEF TablesInv, IsInjective, Bijection, Injection
<1>5. \A i, j \in DOMAIN messages' : i < j => messages'[j].id < messages'[i].id
  BY <1>1, <1>2, FilterDescends DEF TablesInv
<1>6. ToSet(messages') \subseteq ToSet(messages)
  BY <1>1, <1>2, FilterValues DEF ToSet
<1>7. \A i \in DOMAIN messages' : messages'[i].id <= stored'
  BY <1>1, <1>6 DEF TablesInv, ToSet
<1> QED
  BY <1>1, <1>3, <1>4, <1>5, <1>6, <1>7 DEF TablesInv, MessagesStep

\* Every change of the tables.
LEMMA TablesStep ==
  ASSUME TablesInv, TablesChange
  PROVE  TablesInv' /\ MessagesStep
  BY TablesStore, TablesDeleteMessage, TablesParticipants, TablesCreateChat, TablesDeleteChat
     DEF TablesChange

\* Pairs of numbers in their order.
LEMMA InPairOrderFacts ==
  ASSUME NEW S \in SUBSET (Nat \X Nat), IsFiniteSet(S)
  PROVE  /\ Cardinality(S) \in Nat
         /\ InPairOrder(S) \in Bijection(1 .. Cardinality(S), S)
<1> DEFINE upto == [p \in S |-> {q \in S : q[1] < p[1] \/ (q[1] = p[1] /\ q[2] <= p[2])}]
<1>1. \A p \in S : p[1] \in Nat /\ p[2] \in Nat /\ p = <<p[1], p[2]>>
  OBVIOUS
<1>2. IsOrderOf(upto, S)
  <2>1. upto \in [S -> SUBSET S]
    OBVIOUS
  <2>2. \A p, q \in S : q \in upto[p] <=> (q[1] < p[1] \/ (q[1] = p[1] /\ q[2] <= p[2]))
    OBVIOUS
  <2> HIDE DEF upto
  <2>3. ASSUME NEW p \in S, NEW q \in S
        PROVE  /\ p \in upto[p]
               /\ p \in upto[q] \/ q \in upto[p]
               /\ p \in upto[q] /\ q \in upto[p] => p = q
    BY <1>1, <2>2
  <2>4. ASSUME NEW p \in S, NEW q \in S, p \in upto[q]
        PROVE  upto[p] \subseteq upto[q]
    <3> SUFFICES ASSUME NEW x \in S, x \in upto[p] PROVE x \in upto[q]
      BY <2>1
    <3> QED
      BY <1>1, <2>2, <2>4
  <2> QED
    BY <2>1, <2>3, <2>4 DEF IsOrderOf
<1> HIDE DEF upto
<1> QED
  BY <1>2, SortedFacts DEF InPairOrder, upto

\* The list of a user's chats has an entry for each row of the join.
LEMMA ChatsOfFacts ==
  ASSUME chats \in Seq(Chat), participants \in Seq(ParticipantRow), NEW u
  PROVE  /\ IsFiniteSet(Joined(u)) /\ Cardinality(Joined(u)) \in Nat
         /\ ChatsOf(u) \in Seq(ChatRow)
         /\ DOMAIN ChatsOf(u) = 1 .. Cardinality(Joined(u))
         /\ InPairOrder(Joined(u)) \in Bijection(1 .. Cardinality(Joined(u)), Joined(u))
         /\ \A n \in 1 .. Cardinality(Joined(u)) :
              /\ InPairOrder(Joined(u))[n] \in Joined(u)
              /\ ChatsOf(u)[n].chat = chats[InPairOrder(Joined(u))[n][1]]
<1>1. /\ DOMAIN chats = 1 .. Len(chats) /\ Len(chats) \in Nat
      /\ DOMAIN participants = 1 .. Len(participants) /\ Len(participants) \in Nat
  OBVIOUS
<1>2. IsFiniteSet(DOMAIN chats) /\ IsFiniteSet(DOMAIN participants)
  BY <1>1, FS_Interval
<1>3. IsFiniteSet((DOMAIN chats) \X (DOMAIN participants))
  BY <1>2, FS_Product
<1>4. Joined(u) \subseteq (DOMAIN chats) \X (DOMAIN participants)
  BY DEF Joined
<1>5. IsFiniteSet(Joined(u))
  BY <1>3, <1>4, FS_Subset
<1>6. Joined(u) \in SUBSET (Nat \X Nat)
  BY <1>1, <1>4
<1> DEFINE N == Cardinality(Joined(u))
           order == InPairOrder(Joined(u))
<1>7. N \in Nat /\ order \in Bijection(1 .. N, Joined(u))
  BY <1>5, <1>6, InPairOrderFacts
<1>8. ChatsOf(u) = [n \in 1 .. N |-> [chat |-> chats[order[n][1]]]]
  BY DEF ChatsOf
<1> HIDE DEF N, order
<1>9. \A n \in 1 .. N : order[n] \in Joined(u)
  BY <1>7 DEF Bijection, Injection
<1>10. \A n \in 1 .. N : chats[order[n][1]] \in Chat
  BY <1>4, <1>9
<1>11. \A n \in 1 .. N : [chat |-> chats[order[n][1]]] \in ChatRow
  BY <1>10 DEF ChatRow
<1>12. ChatsOf(u) \in Seq(ChatRow)
  BY <1>7, <1>8, <1>11
<1> QED
  BY <1>5, <1>7, <1>8, <1>9, <1>12 DEF N, order

\* A chat is listed as often as its user is a participant of it.
LEMMA ListedAsOften ==
  ASSUME TablesInv, NEW u, NEW i \in DOMAIN chats
  PROVE  Cardinality({n \in DOMAIN ChatsOf(u) : ChatsOf(u)[n].chat = chats[i]}) =
           Cardinality(Memberships(u, chats[i]))
<1> DEFINE N == Cardinality(Joined(u))
           order == InPairOrder(Joined(u))
           places == {n \in DOMAIN ChatsOf(u) : ChatsOf(u)[n].chat = chats[i]}
           rows == Memberships(u, chats[i])
           f == [n \in places |-> order[n][2]]
<1>1. /\ N \in Nat /\ DOMAIN ChatsOf(u) = 1 .. N /\ order \in Bijection(1 .. N, Joined(u))
      /\ \A n \in 1 .. N : order[n] \in Joined(u) /\ ChatsOf(u)[n].chat = chats[order[n][1]]
  BY ChatsOfFacts DEF TablesInv
<1> HIDE DEF N, order
<1>2. \A p \in Joined(u) : /\ p[1] \in DOMAIN chats /\ p[2] \in DOMAIN participants
                           /\ p = <<p[1], p[2]>> /\ p[2] \in Memberships(u, chats[p[1]])
  BY DEF Joined
<1>3. \A n \in places : n \in 1 .. N /\ order[n] \in Joined(u) /\ order[n][1] = i
  BY <1>1, <1>2 DEF TablesInv, IsInjective
<1>4. \A j \in rows : <<i, j>> \in Joined(u)
  BY DEF Joined, Memberships
<1>5. f \in [places -> rows]
  BY <1>2, <1>3
<1>6. ASSUME NEW m \in places, NEW n \in places, f[m] = f[n]
      PROVE  m = n
  <2>1. order[m] = order[n]
    BY <1>2, <1>3, <1>6
  <2> QED
    BY <1>1, <1>3, <2>1 DEF Bijection, Injection, IsInjective
<1>7. ASSUME NEW j \in rows
      PROVE  \E n \in places : f[n] = j
  <2>1. PICK n \in 1 .. N : order[n] = <<i, j>>
    BY <1>1, <1>4 DEF Bijection, Surjection
  <2>2. order[n][1] = i /\ order[n][2] = j
    BY <2>1
  <2>3. n \in places
    BY <1>1, <2>2
  <2> QED
    BY <2>2, <2>3
<1> HIDE DEF f
<1>8. f \in Bijection(places, rows)
  BY <1>5, <1>6, <1>7 DEF Bijection, Injection, Surjection, IsInjective
<1>9. IsFiniteSet(places)
  <2>1. IsFiniteSet(1 .. N)
    BY <1>1, FS_Interval
  <2>2. places \subseteq 1 .. N
    BY <1>1
  <2> QED
    BY <2>1, <2>2, FS_Subset
<1> HIDE DEF places, rows
<1>10. Cardinality(places) = Cardinality(rows)
  BY <1>8, <1>9, FS_Bijection DEF ExistsBijection
<1> QED
  BY <1>10 DEF places, rows

\* A chat that is listed once has one row of participants for its user, and the
\* other way round.
LEMMA ListedOnce == TablesInv => ReadableIffListedOnce
<1> SUFFICES ASSUME TablesInv, NEW u \in User, NEW k \in Chat
             PROVE  Permitted(u, k) <=>
                      Cardinality({n \in DOMAIN ChatsOf(u) : ChatsOf(u)[n].chat = k}) = 1
  BY Zenon DEF ReadableIffListedOnce
<1>1. CASE k \in ToSet(chats)
  <2>1. PICK i \in DOMAIN chats : k = chats[i]
    BY <1>1 DEF ToSet
  <2> QED
    BY <1>1, <2>1, ListedAsOften, Zenon DEF Permitted
<1>2. CASE k \notin ToSet(chats)
  <2>1. ~Permitted(u, k)
    BY <1>2 DEF Permitted
  <2>2. \A n \in DOMAIN ChatsOf(u) : ChatsOf(u)[n].chat \in ToSet(chats)
    <3>1. /\ DOMAIN ChatsOf(u) = 1 .. Cardinality(Joined(u))
          /\ \A n \in 1 .. Cardinality(Joined(u)) :
               /\ InPairOrder(Joined(u))[n] \in Joined(u)
               /\ ChatsOf(u)[n].chat = chats[InPairOrder(Joined(u))[n][1]]
      BY ChatsOfFacts DEF TablesInv
    <3>2. \A p \in Joined(u) : chats[p[1]] \in ToSet(chats)
      BY DEF Joined, ToSet
    <3> QED
      BY <3>1, <3>2
  <2>3. {n \in DOMAIN ChatsOf(u) : ChatsOf(u)[n].chat = k} = {}
    BY <1>2, <2>2
  <2>4. Cardinality({n \in DOMAIN ChatsOf(u) : ChatsOf(u)[n].chat = k}) = 0
    BY <2>3, FS_EmptySet
  <2> QED
    BY <2>1, <2>4
<1> QED
  BY <1>1, <1>2

\* As many values as places, when no value comes twice.
LEMMA ValuesCount ==
  ASSUME NEW f, NEW n \in Nat, \A i, j \in 1 .. n : f[i] = f[j] => i = j,
         NEW S, \A i \in 1 .. n : f[i] \in S, \A x \in S : \E i \in 1 .. n : x = f[i]
  PROVE  IsFiniteSet(S) /\ Cardinality(S) = n
<1> DEFINE g == [i \in 1 .. n |-> f[i]]
<1>1. g \in Bijection(1 .. n, S)
  BY DEF Bijection, Injection, Surjection, IsInjective
<1>2. IsFiniteSet(1 .. n) /\ Cardinality(1 .. n) = n
  <2>1. IsFiniteSet(1 .. n) /\ Cardinality(1 .. n) = IF 1 > n THEN 0 ELSE n - 1 + 1
    BY FS_Interval
  <2> QED
    BY <2>1
<1> HIDE DEF g
<1> QED
  BY <1>1, <1>2, FS_Bijection DEF ExistsBijection

\* The values of a list that has each once.
LEMMA ListCount ==
  ASSUME NEW T, NEW s \in Seq(T), \A i, j \in 1 .. Len(s) : s[i] = s[j] => i = j
  PROVE  IsFiniteSet(ToSet(s)) /\ Cardinality(ToSet(s)) = Len(s)
<1>1. Len(s) \in Nat /\ DOMAIN s = 1 .. Len(s)
  OBVIOUS
<1>2. /\ \A i \in 1 .. Len(s) : s[i] \in ToSet(s)
      /\ \A x \in ToSet(s) : \E i \in 1 .. Len(s) : x = s[i]
  BY <1>1 DEF ToSet
<1> QED
  BY <1>1, <1>2, ValuesCount

\* The messages of a chat as a list: each once, the newest first.
LEMMA MessagesOfFacts ==
  ASSUME TablesInv, NEW k
  PROVE  /\ MessagesOf(k) \in Seq(MessageRow)
         /\ ToSet(MessagesOf(k)) = Of(k)
         /\ \A i, j \in DOMAIN MessagesOf(k) : i < j => MessagesOf(k)[j].id < MessagesOf(k)[i].id
         /\ \A i \in DOMAIN MessagesOf(k) : MessagesOf(k)[i].id \in Nat
         /\ IsFiniteSet(Of(k)) /\ Cardinality(Of(k)) = Len(MessagesOf(k))
<1> DEFINE S == {i \in DOMAIN messages : messages[i].chat = k}
           L == MessagesOf(k)
<1>1. messages \in Seq(MessageRow) /\ S \in SUBSET DOMAIN messages
  BY DEF TablesInv
<1>2. L = SelectAt(messages, S)
  BY DEF MessagesOf, InChat
<1>3. ToSet(L) = Of(k)
  <2>1. ToSet(L) = {messages[i] : i \in S}
    BY <1>1, <1>2, FilterValues
  <2> QED
    BY <2>1 DEF Of, ToSet
<1> HIDE DEF S, L
<1>4. L \in Seq(MessageRow)
  BY <1>1, <1>2, SelectAtFacts
<1>5. \A i, j \in DOMAIN L : i < j => L[j].id < L[i].id
  BY <1>1, <1>2, FilterDescends DEF TablesInv
<1>6. DOMAIN L = 1 .. Len(L) /\ Len(L) \in Nat /\ \A i \in DOMAIN L : L[i] \in MessageRow
  BY <1>4
<1>7. \A i \in DOMAIN L : L[i].id \in Nat
  BY <1>6 DEF MessageRow
<1>8. ASSUME NEW i \in 1 .. Len(L), NEW j \in 1 .. Len(L), L[i] = L[j]
      PROVE  i = j
  <2>1. ~(i < j) /\ ~(j < i)
    BY <1>5, <1>6, <1>7, <1>8
  <2> QED
    BY <1>6, <2>1
<1>9. /\ \A i \in 1 .. Len(L) : L[i] \in Of(k)
      /\ \A m \in Of(k) : \E i \in 1 .. Len(L) : m = L[i]
  BY <1>3, <1>6 DEF ToSet
<1>10. IsFiniteSet(Of(k)) /\ Cardinality(Of(k)) = Len(L)
  BY <1>6, <1>8, <1>9, ValuesCount
<1> QED
  BY <1>3, <1>4, <1>5, <1>7, <1>10 DEF L

\* The first n of them are those that are not older than number n.
LEMMA FirstMessages ==
  ASSUME TablesInv, NEW k, NEW n \in DOMAIN MessagesOf(k)
  PROVE  Cardinality({m \in Of(k) : m.id >= MessagesOf(k)[n].id}) = n
<1> DEFINE L == MessagesOf(k)
<1>1. /\ DOMAIN L = 1 .. Len(L) /\ Len(L) \in Nat
      /\ \A i, j \in DOMAIN L : i < j => L[j].id < L[i].id
      /\ \A i \in DOMAIN L : L[i].id \in Nat
      /\ ToSet(L) = Of(k)
  BY MessagesOfFacts
<1> HIDE DEF L
<1>2. n \in DOMAIN L /\ n \in Nat
  BY <1>1 DEF L
<1>3. \A i \in DOMAIN L : L[i].id >= L[n].id <=> i <= n
  <2> SUFFICES ASSUME NEW i \in DOMAIN L PROVE L[i].id >= L[n].id <=> i <= n
    OBVIOUS
  <2>1. CASE i < n
    BY <1>1, <1>2, <2>1
  <2>2. CASE i = n
    BY <1>1, <1>2, <2>2
  <2>3. CASE n < i
    BY <1>1, <1>2, <2>3
  <2> QED
    BY <1>1, <1>2, <2>1, <2>2, <2>3
<1> DEFINE S == {m \in Of(k) : m.id >= L[n].id}
<1>4. (\A i \in 1 .. n : L[i] \in S) /\ (\A m \in S : \E i \in 1 .. n : m = L[i])
  <2>1. ASSUME NEW m \in Of(k), m.id >= L[n].id
        PROVE  \E i \in 1 .. n : m = L[i]
    <3>1. PICK i \in DOMAIN L : m = L[i]
      BY <1>1 DEF ToSet
    <3>2. i \in 1 .. n
      BY <1>1, <1>2, <1>3, <2>1, <3>1
    <3> QED
      BY <3>1, <3>2
  <2>2. ASSUME NEW i \in 1 .. n
        PROVE  L[i] \in Of(k) /\ L[i].id >= L[n].id
    <3>1. i \in DOMAIN L /\ i <= n
      BY <1>1, <1>2
    <3> QED
      BY <1>1, <1>3, <3>1 DEF ToSet
  <2> QED
    BY <2>1, <2>2
<1>5. ASSUME NEW i \in 1 .. n, NEW j \in 1 .. n, L[i] = L[j]
      PROVE  i = j
  <2>1. i \in DOMAIN L /\ j \in DOMAIN L
    BY <1>1, <1>2
  <2>2. ~(i < j) /\ ~(j < i)
    BY <1>1, <1>5, <2>1
  <2> QED
    BY <1>2, <2>2
<1> HIDE DEF S
<1>6. Cardinality(S) = n
  BY <1>2, <1>4, <1>5, ValuesCount
<1> QED
  BY <1>6 DEF L, S

\* What a query returns, whatever is asked for.
LEMMA QueryFacts ==
  ASSUME TablesInv, NEW q, q.controller \in Controllers
  PROVE  /\ Query(q) \in Seq(Row)
         /\ q.controller # "chats" => \A row \in ToSet(Query(q)) : row.chat = q.chat
         /\ q.controller = "messages" => Query(q) = MessagesOf(q.chat)
<1>1. CASE q.controller = "chats"
  <2>1. Query(q) = ChatsOf(q.user)
    BY <1>1 DEF Query
  <2>2. ChatsOf(q.user) \in Seq(ChatRow)
    BY ChatsOfFacts DEF TablesInv
  <2>3. Query(q) \in Seq(Row)
    BY <2>1, <2>2, SeqOfWiderSet DEF Row
  <2> QED
    BY <1>1, <2>3
<1>2. CASE q.controller = "participants"
  <2> DEFINE S == {i \in DOMAIN participants : participants[i].chat = q.chat}
  <2>1. Query(q) = SelectAt(participants, S)
    BY <1>2 DEF Query, ParticipantsOf, InChat
  <2>2. participants \in Seq(ParticipantRow) /\ S \in SUBSET DOMAIN participants
    BY DEF TablesInv
  <2>3. SelectAt(participants, S) \in Seq(ParticipantRow)
    BY <2>2, SelectAtFacts
  <2>4. Query(q) \in Seq(Row)
    BY <2>1, <2>3, SeqOfWiderSet DEF Row
  <2>5. ToSet(Query(q)) = {participants[i] : i \in S}
    BY <2>1, <2>2, FilterValues
  <2> QED
    BY <1>2, <2>4, <2>5
<1>3. CASE q.controller = "messages"
  <2>1. Query(q) = MessagesOf(q.chat)
    BY <1>3 DEF Query
  <2>2. MessagesOf(q.chat) \in Seq(MessageRow) /\ ToSet(MessagesOf(q.chat)) = Of(q.chat)
    BY MessagesOfFacts
  <2>3. Query(q) \in Seq(Row)
    BY <2>1, <2>2, SeqOfWiderSet DEF Row
  <2> QED
    BY <2>1, <2>2, <2>3 DEF Of
<1> QED
  BY <1>1, <1>2, <1>3, ListAssumption

\* The rows after the first bottom, up to top or the end.
Cut(all, bottom, top) ==
  SubSeq(all, bottom + 1, IF top < Len(all) THEN top ELSE Len(all))

\* What such a slice is.
LEMMA CutFacts ==
  ASSUME NEW T, NEW all \in Seq(T), NEW bottom \in Nat, NEW top \in Nat
  PROVE  LET end == IF top < Len(all) THEN top ELSE Len(all)
             cut == Cut(all, bottom, top)
         IN  /\ cut \in Seq(T)
             /\ Len(cut) = IF bottom < end THEN end - bottom ELSE 0
             /\ \A i \in DOMAIN cut : bottom + i \in DOMAIN all /\ cut[i] = all[bottom + i]
             /\ ToSet(cut) \subseteq ToSet(all)
<1> DEFINE end == IF top < Len(all) THEN top ELSE Len(all)
           cut == SubSeq(all, bottom + 1, end)
<1>1. Len(all) \in Nat /\ DOMAIN all = 1 .. Len(all) /\ end \in Nat /\ end <= Len(all)
  OBVIOUS
<1>2. cut = Cut(all, bottom, top)
  BY DEF Cut
<1> HIDE DEF end
<1>3. \A i \in (bottom + 1) .. end : all[i] \in T
  BY <1>1
<1>4. /\ cut \in Seq(T)
      /\ Len(cut) = IF bottom + 1 <= end THEN end - (bottom + 1) + 1 ELSE 0
      /\ \A i \in 1 .. (end - (bottom + 1) + 1) : cut[i] = all[(bottom + 1) + i - 1]
  BY <1>1, <1>3, SubSeqProperties
<1> HIDE DEF cut
<1>5. Len(cut) = IF bottom < end THEN end - bottom ELSE 0
  BY <1>1, <1>4
<1>6. ASSUME NEW i \in DOMAIN cut
      PROVE  bottom + i \in DOMAIN all /\ cut[i] = all[bottom + i]
  <2>1. i \in 1 .. Len(cut)
    BY <1>4
  <2>2. i \in 1 .. (end - (bottom + 1) + 1) /\ (bottom + 1) + i - 1 = bottom + i
    BY <1>1, <1>5, <2>1
  <2>3. bottom + i \in DOMAIN all
    BY <1>1, <2>2
  <2> QED
    BY <1>4, <2>2, <2>3
<1>7. ToSet(cut) \subseteq ToSet(all)
  BY <1>6 DEF ToSet
<1> QED
  BY <1>2, <1>4, <1>5, <1>6, <1>7 DEF end

----------------------------------------------------------------------------
(* Types.                                                                  *)

\* The requests; the paginators; and that whoever is past the count finds a
\* page there, since nobody takes a page away.
CallsTyped == DOMAIN http \subseteq Request /\ \A r \in DOMAIN http : http[r] \in Call

\* The attributes of the paginators.
PaginatorsTyped ==
  paginator \in [Controllers -> [request : Request \cup {NoRequest}, page : PageObject \cup {NoPage}]]

PagesMade == \A r \in DOMAIN http : http[r].at \in Paged => Shared(r).page \in PageObject

TypedInv ==
  /\ TablesInv /\ changes \in 0 .. MaxChanges
  /\ CallsTyped /\ PaginatorsTyped /\ PagesMade

\* The type invariant is part of this.
LEMMA TypedIsTypeOK == TypedInv => TypeOK
  BY DEF TypedInv, TablesInv, CallsTyped, PaginatorsTyped, TypeOK

\* No request has come yet.
LEMMA TypedInit == Init => TypedInv
<1> SUFFICES ASSUME Init PROVE TypedInv
  OBVIOUS
<1>1. TablesInv
  BY TablesInit
<1>2. changes = 0 /\ DOMAIN http = {}
  BY DEF Init
<1>3. PaginatorsTyped
  BY DEF Init, PaginatorsTyped
<1> QED
  BY <1>1, <1>2, <1>3, ListAssumption DEF TypedInv, CallsTyped, PagesMade

\* A step of one request that leaves the paginators and the tables alone.
LEMMA TypedOwn ==
  ASSUME TypedInv, NEW r \in DOMAIN http, UNCHANGED <<tables, paginator>>,
         DOMAIN http' = DOMAIN http, \A s \in DOMAIN http : s # r => http'[s] = http[s],
         http'[r] \in Call, http'[r].controller = http[r].controller,
         http'[r].at \in Paged => http[r].at \in Paged
  PROVE  TypedInv'
<1>1. TablesInv'
  BY TablesStay DEF TypedInv
<1>2. CallsTyped'
  BY DEF TypedInv, CallsTyped
<1>3. PagesMade'
  BY DEF TypedInv, PagesMade, Shared
<1> QED
  BY <1>1, <1>2, <1>3 DEF TypedInv, PaginatorsTyped, tables

\* Where a request can be.
Places == Inside \cup {"parse", "paginate", "answered", "refused", "failed", "crashed"}

\* A request goes on to another place, and nothing else happens.
LEMMA TypedGoTo ==
  ASSUME TypedInv, NEW r \in DOMAIN http, UNCHANGED <<tables, paginator>>,
         NEW step \in {"paginate", "refused", "failed", "total"}, GoTo(r, step),
         step = "total" => http[r].at \in Paged
  PROVE  TypedInv'
<1>1. http[r] \in Call
  BY DEF TypedInv, CallsTyped
<1>2. /\ DOMAIN http' = DOMAIN http /\ \A s \in DOMAIN http : s # r => http'[s] = http[s]
      /\ http'[r] = [http[r] EXCEPT !.at = step]
  BY DEF GoTo
<1>3. step \in Places
  BY DEF Places, Inside
<1>4. http'[r] \in Call /\ http'[r].controller = http[r].controller /\ http'[r].at = step
  BY <1>1, <1>2, <1>3 DEF Call, Places
<1> QED
  BY <1>2, <1>4, TypedOwn DEF Paged, Inside

\* The steps before and between the uses of the paginator.
LEMMA TypedParse ==
  ASSUME TypedInv, NEW r \in DOMAIN http, Parse(r)
  PROVE  TypedInv'
  BY TypedGoTo DEF Parse

\* The serializers move the request on.
LEMMA TypedSerialize ==
  ASSUME TypedInv, NEW r \in DOMAIN http, Serialize(r)
  PROVE  TypedInv'
  BY TypedGoTo DEF Serialize, Paged, Inside

\* What a request reads of the paginator is of the right types.
LEMMA PageReadTyped ==
  ASSUME SharingInv, TypedInv, NEW r \in DOMAIN http, http[r].at \in Paged
  PROVE  /\ Shared(r).page \in PageObject
         /\ Shared(r).request \in Request
         /\ {Shared(r).page.of, Shared(r).request} \subseteq Request
         /\ Shared(r).page.of \in DOMAIN http
         /\ http[Shared(r).page.of].controller \in Controllers
<1>1. Shared(r).page \in PageObject
  BY DEF TypedInv, PagesMade
<1>2. http[r].met \subseteq Request
  BY DEF TypedInv, CallsTyped, Call
<1>3. {Shared(r).page.of, Shared(r).request} \subseteq http[r].met
  BY ReadsOfThoseMet
<1>4. Shared(r).page.of \in DOMAIN http
  BY DEF SharingInv, Found, FoundBy, Shared
<1> QED
  BY <1>1, <1>2, <1>3, <1>4 DEF SharingInv, Shape

\* A request that has read something of the paginator.
LEMMA ReadTyped ==
  ASSUME NEW q \in Call, NEW step \in Places, NEW read \in SUBSET Request
  PROVE  /\ [q EXCEPT !.at = step, !.read = read] \in Call
         /\ \A count \in Nat : [q EXCEPT !.at = step, !.count = count, !.read = read] \in Call
         /\ \A link \in Link :
              /\ [q EXCEPT !.at = step, !.next = link, !.read = read] \in Call
              /\ [q EXCEPT !.at = step, !.previous = link, !.read = read] \in Call
<1>1. [q EXCEPT !.at = step, !.read = read] \in Call
  BY DEF Call, Places
<1>2. ASSUME NEW count \in Nat
      PROVE  [q EXCEPT !.at = step, !.count = count, !.read = read] \in Call
  BY DEF Call, Places
<1>3. ASSUME NEW link \in Link
      PROVE  /\ [q EXCEPT !.at = step, !.next = link, !.read = read] \in Call
             /\ [q EXCEPT !.at = step, !.previous = link, !.read = read] \in Call
  BY DEF Call, Places
<1> QED
  BY <1>1, <1>2, <1>3

\* The count.
LEMMA TypedTotal ==
  ASSUME SharingInv, TypedInv, NEW r \in DOMAIN http, Total(r)
  PROVE  TypedInv'
<1> DEFINE count == Shared(r).page.count
           read  == http[r].read \cup {Shared(r).page.of}
<1>1. /\ http[r].at = "total" /\ UNCHANGED <<tables, paginator>>
      /\ http' = [http EXCEPT ![r].at = "next", ![r].count = count, ![r].read = read]
  BY DEF Total
<1>2. http[r].at \in Paged
  BY <1>1 DEF Paged, Inside
<1>3. http[r] \in Call /\ read \in SUBSET Request /\ count \in Nat
  BY <1>2, PageReadTyped DEF PageObject, TypedInv, CallsTyped, Call
<1> HIDE DEF count, read
<1>4. /\ DOMAIN http' = DOMAIN http /\ \A s \in DOMAIN http : s # r => http'[s] = http[s]
      /\ http'[r] = [http[r] EXCEPT !.at = "next", !.count = count, !.read = read]
  BY <1>1
<1>5. http'[r] \in Call /\ http'[r].controller = http[r].controller
  <2>1. "next" \in Places
    BY DEF Places, Inside
  <2>2. [http[r] EXCEPT !.at = "next", !.count = count, !.read = read] \in Call
    BY <1>3, <2>1, ReadTyped, Zenon
  <2> QED
    BY <1>3, <1>4, <2>2 DEF Call
<1> QED
  BY <1>1, <1>2, <1>4, <1>5, TypedOwn

\* Whether there is a link.
LEMMA TypedHasLink ==
  ASSUME SharingInv, TypedInv, NEW r \in DOMAIN http, NEW offset,
         NEW ask \in {"next", "previous"},
         NEW make \in {"nextLink", "previousLink"}, NEW otherwise \in {"previous", "answered"},
         HasLink(r, ask, offset, make, otherwise)
  PROVE  TypedInv'
<1> DEFINE step == IF Shared(r).page.number + offset \in 1..Shared(r).page.pages
                     THEN make ELSE otherwise
           read == http[r].read \cup {Shared(r).page.of}
<1>1. /\ http[r].at = ask /\ UNCHANGED <<tables, paginator>>
      /\ http' = [http EXCEPT ![r].at = step, ![r].read = read]
  BY DEF HasLink
<1>2. http[r].at \in Paged
  BY <1>1 DEF Paged, Inside
<1>3. http[r] \in Call /\ read \in SUBSET Request /\ step \in Places
  BY <1>2, PageReadTyped DEF TypedInv, CallsTyped, Call, Places, Inside
<1> HIDE DEF step, read
<1>4. /\ DOMAIN http' = DOMAIN http /\ \A s \in DOMAIN http : s # r => http'[s] = http[s]
      /\ http'[r] = [http[r] EXCEPT !.at = step, !.read = read]
  BY <1>1
<1>5. http'[r] \in Call /\ http'[r].controller = http[r].controller
  <2>1. [http[r] EXCEPT !.at = step, !.read = read] \in Call
    BY <1>3, ReadTyped, Zenon
  <2> QED
    BY <1>3, <1>4, <2>1 DEF Call
<1> QED
  BY <1>1, <1>2, <1>4, <1>5, TypedOwn

\* A link that is made is one to a page that the paginator's page has.
LEMMA MadeLinkTyped ==
  ASSUME SharingInv, TypedInv, NEW r \in DOMAIN http, http[r].at \in Paged,
         NEW offset \in Int, ~Crashes(r, offset)
  PROVE  MadeLink(r, offset) \in [request : Request, number : Nat]
<1>1. /\ Shared(r).request \in Request
      /\ Shared(r).page.number \in Nat /\ Shared(r).page.pages \in Nat
  BY PageReadTyped DEF PageObject
<1>2. Shared(r).page.number + offset \in Nat
  BY <1>1 DEF Crashes
<1> QED
  BY <1>1, <1>2 DEF MadeLink

\* The links.
LEMMA TypedNextLink ==
  ASSUME SharingInv, TypedInv, NEW r \in DOMAIN http, NextLink(r)
  PROVE  TypedInv'
<1> DEFINE step == IF Crashes(r, 1) THEN "crashed" ELSE "previous"
           link == IF Crashes(r, 1) THEN http[r].next ELSE MadeLink(r, 1)
           read == http[r].read \cup {Shared(r).page.of, Shared(r).request}
<1>1. /\ http[r].at = "nextLink" /\ UNCHANGED <<tables, paginator>>
      /\ http' = [http EXCEPT ![r].at = step, ![r].next = link, ![r].read = read]
  BY DEF NextLink
<1>2. http[r].at \in Paged
  BY <1>1 DEF Paged, Inside
<1>3. http[r] \in Call /\ read \in SUBSET Request /\ step \in Places
  BY <1>2, PageReadTyped DEF TypedInv, CallsTyped, Call, Places, Inside
<1>4. link \in Link
  BY <1>2, <1>3, MadeLinkTyped DEF Link, Call
<1> HIDE DEF step, link, read
<1>5. /\ DOMAIN http' = DOMAIN http /\ \A s \in DOMAIN http : s # r => http'[s] = http[s]
      /\ http'[r] = [http[r] EXCEPT !.at = step, !.next = link, !.read = read]
  BY <1>1
<1>6. http'[r] \in Call /\ http'[r].controller = http[r].controller
  <2>1. [http[r] EXCEPT !.at = step, !.next = link, !.read = read] \in Call
    BY <1>3, <1>4, ReadTyped, Zenon
  <2> QED
    BY <1>3, <1>5, <2>1 DEF Call
<1> QED
  BY <1>1, <1>2, <1>5, <1>6, TypedOwn

\* The link to the previous page, in the same way.
LEMMA TypedPreviousLink ==
  ASSUME SharingInv, TypedInv, NEW r \in DOMAIN http, PreviousLink(r)
  PROVE  TypedInv'
<1> DEFINE step == IF Crashes(r, -1) THEN "crashed" ELSE "answered"
           link == IF Crashes(r, -1) THEN http[r].previous ELSE MadeLink(r, -1)
           read == http[r].read \cup {Shared(r).page.of, Shared(r).request}
<1>1. /\ http[r].at = "previousLink" /\ UNCHANGED <<tables, paginator>>
      /\ http' = [http EXCEPT ![r].at = step, ![r].previous = link, ![r].read = read]
  BY DEF PreviousLink
<1>2. http[r].at \in Paged
  BY <1>1 DEF Paged, Inside
<1>3. http[r] \in Call /\ read \in SUBSET Request /\ step \in Places
  BY <1>2, PageReadTyped DEF TypedInv, CallsTyped, Call, Places, Inside
<1>4. link \in Link
  BY <1>2, <1>3, MadeLinkTyped DEF Link, Call
<1> HIDE DEF step, link, read
<1>5. /\ DOMAIN http' = DOMAIN http /\ \A s \in DOMAIN http : s # r => http'[s] = http[s]
      /\ http'[r] = [http[r] EXCEPT !.at = step, !.previous = link, !.read = read]
  BY <1>1
<1>6. http'[r] \in Call /\ http'[r].controller = http[r].controller
  <2>1. [http[r] EXCEPT !.at = step, !.previous = link, !.read = read] \in Call
    BY <1>3, <1>4, ReadTyped, Zenon
  <2> QED
    BY <1>3, <1>5, <2>1 DEF Call
<1> QED
  BY <1>1, <1>2, <1>5, <1>6, TypedOwn

\* A request comes.
LEMMA TypedArrive ==
  ASSUME TypedInv, NEW r \in Request, NEW c \in Controllers, NEW u \in User,
         NEW k \in Chat \cup {NoChat}, NEW p \in Page, NEW l \in Limit, Arrive(r, c, u, k, p, l)
  PROVE  TypedInv'
<1> DEFINE new == [at |-> "parse", controller |-> c, user |-> u, chat |-> k, page |-> p,
                   limit |-> l, rows |-> << >>, count |-> 0, next |-> NoLink,
                   previous |-> NoLink, known |-> stored, read |-> {}, met |-> {r},
                   after |-> {s \in DOMAIN http : http[s].at = "answered"},
                   undisturbed |-> TRUE]
<1>1. /\ r \notin DOMAIN http /\ DOMAIN http' = DOMAIN http \cup {r}
      /\ \A s \in DOMAIN http : http'[s] = http[s]
      /\ http'[r] = new
      /\ UNCHANGED <<tables, paginator>>
  BY DEF Arrive
<1>2. new \in Call
  <2>1. {s \in DOMAIN http : http[s].at = "answered"} \in SUBSET Request /\ stored \in Nat
    BY DEF TypedInv, CallsTyped, TablesInv
  <2>2. << >> \in Seq(Row) /\ NoLink \in Link
    BY DEF Link
  <2> QED
    BY <2>1, <2>2 DEF Call
<1>3. new.at = "parse"
  OBVIOUS
<1> HIDE DEF new
<1>4. CallsTyped'
  BY <1>1, <1>2 DEF TypedInv, CallsTyped
<1>5. PagesMade'
  <2>1. http'[r].at \notin Paged
    BY <1>1, <1>3 DEF Paged, Inside
  <2> QED
    BY <1>1, <2>1 DEF TypedInv, PagesMade, Shared
<1>6. TablesInv'
  BY <1>1, TablesStay DEF TypedInv
<1> QED
  BY <1>1, <1>4, <1>5, <1>6 DEF TypedInv, PaginatorsTyped, tables

\* A request that meets others.
LEMMA MetTyped ==
  ASSUME NEW q \in Call, NEW met \in SUBSET Request
  PROVE  /\ [q EXCEPT !.met = met] \in Call
         /\ \A step \in Places : [q EXCEPT !.at = step, !.met = met] \in Call
<1>1. [q EXCEPT !.met = met] \in Call
  BY DEF Call
<1>2. ASSUME NEW step \in Places
      PROVE  [q EXCEPT !.at = step, !.met = met] \in Call
  BY DEF Call, Places
<1> QED
  BY <1>1, <1>2

\* A request that has its rows.
LEMMA WithRowsTyped ==
  ASSUME NEW q \in Call, NEW step \in Places, NEW list \in Seq(Row), NEW known \in SUBSET Request
  PROVE  [q EXCEPT !.at = step, !.rows = list, !.read = known] \in Call
<1>1. PICK a : a = [q EXCEPT !.at = step]
  OBVIOUS
<1>2. PICK b : b = [a EXCEPT !.rows = list]
  OBVIOUS
<1>3. a \in Call
  BY <1>1 DEF Call, Places
<1>4. b \in Call
  BY <1>2, <1>3 DEF Call
<1>5. [b EXCEPT !.read = known] \in Call
  BY <1>4 DEF Call
<1>6. [q EXCEPT !.at = step, !.rows = list, !.read = known] = [b EXCEPT !.read = known]
  BY <1>1, <1>2
<1> QED
  BY <1>5, <1>6

\* A request enters its controller: what becomes of the requests.
LEMMA EnterFacts ==
  ASSUME SharingInv, TypedInv, NEW r \in DOMAIN http, Paginate(r)
  PROVE  /\ http[r].at = "paginate" /\ http'[r].at = "count"
         /\ DOMAIN http' = DOMAIN http
         /\ \A s \in DOMAIN http :
              /\ s # r => http'[s].at = http[s].at
              /\ http'[s] \in Call
              /\ http[s].met \subseteq http'[s].met
              /\ \A f \in {"controller", "user", "chat", "page", "limit", "rows", "count", "next",
                           "known", "after", "undisturbed"} : http'[s][f] = http[s][f]
         /\ UNCHANGED tables
         /\ paginator' = [paginator EXCEPT ![http[r].controller].request = r]
<1> DEFINE there == {s \in DOMAIN http : http[s].controller = http[r].controller /\ http[s].at \in Inside}
<1>1. /\ http[r].at = "paginate" /\ UNCHANGED tables
      /\ paginator' = [paginator EXCEPT ![http[r].controller].request = r]
      /\ http' = [s \in DOMAIN http |->
                    IF s = r THEN [http[s] EXCEPT !.at = "count", !.met = @ \cup there]
                    ELSE IF s \in there THEN [http[s] EXCEPT !.met = @ \cup {r}]
                    ELSE http[s]]
  BY DEF Paginate, Entering
<1>2. there \subseteq Request /\ r \in Request /\ \A s \in DOMAIN http : http[s] \in Call
  BY DEF TypedInv, CallsTyped
<1>5. DOMAIN http' = DOMAIN http
  BY <1>1
<1> HIDE DEF there
<1>3. ASSUME NEW s \in DOMAIN http
      PROVE  /\ http'[s].at = IF s = r THEN "count" ELSE http[s].at
             /\ http'[s] \in Call
             /\ http[s].met \subseteq http'[s].met
             /\ \A f \in {"controller", "user", "chat", "page", "limit", "rows", "count", "next",
                          "known", "after", "undisturbed"} : http'[s][f] = http[s][f]
  <2>1. CASE s = r
    <3> DEFINE met == http[s].met \cup there
    <3>1. http'[s] = [http[s] EXCEPT !.at = "count", !.met = met]
      BY <1>1, <2>1
    <3>2. http[s] \in Call /\ "count" \in Places /\ met \in SUBSET Request
      BY <1>2 DEF Places, Inside, Call
    <3>3. http[s].met \subseteq met
      OBVIOUS
    <3> HIDE DEF met
    <3>4. [http[s] EXCEPT !.at = "count", !.met = met] \in Call
      BY <3>2, MetTyped, Zenon
    <3> QED
      BY <2>1, <3>1, <3>2, <3>3, <3>4 DEF Call
  <2>2. CASE s # r /\ s \in there
    <3> DEFINE met == http[s].met \cup {r}
    <3>1. http'[s] = [http[s] EXCEPT !.met = met]
      BY <1>1, <2>2
    <3>2. http[s] \in Call /\ met \in SUBSET Request
      BY <1>2 DEF Call
    <3>3. http[s].met \subseteq met
      OBVIOUS
    <3> HIDE DEF met
    <3>4. [http[s] EXCEPT !.met = met] \in Call
      BY <3>2, MetTyped, Zenon
    <3> QED
      BY <2>2, <3>1, <3>2, <3>3, <3>4 DEF Call
  <2>3. CASE s # r /\ s \notin there
    BY <1>1, <1>2, <2>3
  <2> QED
    BY <2>1, <2>2, <2>3
<1>4. /\ http[r].at = "paginate" /\ UNCHANGED tables
      /\ paginator' = [paginator EXCEPT ![http[r].controller].request = r]
  BY <1>1
<1>6. http'[r].at = "count"
  BY <1>3
<1>7. \A s \in DOMAIN http : s # r => http'[s].at = http[s].at
  BY <1>3
<1> QED
  BY <1>3, <1>4, <1>5, <1>6, <1>7, Zenon

\* A request enters: it is the request that the paginator has now.
LEMMA TypedPaginate ==
  ASSUME SharingInv, TypedInv, NEW r \in DOMAIN http, Paginate(r)
  PROVE  TypedInv'
<1> DEFINE c == http[r].controller
<1>1. /\ http[r].at = "paginate" /\ http'[r].at = "count"
      /\ DOMAIN http' = DOMAIN http
      /\ \A s \in DOMAIN http :
           /\ s # r => http'[s].at = http[s].at
           /\ http'[s] \in Call /\ http'[s].controller = http[s].controller
      /\ UNCHANGED tables
      /\ paginator' = [paginator EXCEPT ![c].request = r]
  BY EnterFacts
<1>2. c \in Controllers /\ r \in Request
  BY DEF SharingInv, Shape, TypedInv, CallsTyped
<1> HIDE DEF c
<1>3. PaginatorsTyped'
  BY <1>1, <1>2 DEF TypedInv, PaginatorsTyped
<1>4. \A d \in Controllers : paginator'[d].page = paginator[d].page
  BY <1>1, <1>2 DEF TypedInv, PaginatorsTyped
<1>5. PagesMade'
  <2> SUFFICES ASSUME NEW s \in DOMAIN http, http'[s].at \in Paged
               PROVE  Shared(s).page' \in PageObject
    BY <1>1 DEF PagesMade
  <2>1. s # r /\ http[s].at \in Paged
    BY <1>1 DEF Paged, Inside
  <2>2. http[s].controller \in Controllers
    BY DEF SharingInv, Shape
  <2> QED
    BY <1>1, <1>4, <2>1, <2>2 DEF TypedInv, PagesMade, Shared
<1>6. TablesInv'
  BY <1>1, TablesStay DEF TypedInv
<1>7. CallsTyped'
  BY <1>1 DEF TypedInv, CallsTyped
<1> QED
  BY <1>1, <1>3, <1>5, <1>6, <1>7 DEF TypedInv, tables

\* The size of a page is positive, whatever the limit.
LEMMA SizeFacts ==
  ASSUME NEW q
  PROVE  SizeOf(q) \in Nat \ {0}
  BY ListAssumption DEF SizeOf

\* The page that a request makes, when its number is that of a page.
LEMMA PageOfTyped ==
  ASSUME TypedInv, NEW r \in DOMAIN http, NEW count \in Nat,
         http[r].page \in 1 .. Pages(SizeOf(http[r]), count)
  PROVE  PageOf(r, count) \in PageObject
<1> DEFINE n == http[r].page
           size == SizeOf(http[r])
<1>1. size \in Nat \ {0}
  BY SizeFacts
<1>2. Pages(size, count) \in Nat
  BY <1>1, PagesFacts
<1>3. n \in Nat \ {0}
  BY <1>2
<1> HIDE DEF n, size
<1>4. Bottom(n, size) \in Nat
  <2>1. n - 1 \in Nat
    BY <1>3
  <2> QED
    BY <1>1, <2>1 DEF Bottom
<1>5. Top(n, size, count) \in Nat
  BY <1>1, <1>4 DEF Top
<1>6. r \in Request
  BY DEF TypedInv, CallsTyped
<1> QED
  BY <1>2, <1>3, <1>4, <1>5, <1>6 DEF PageOf, PageObject, n, size

\* The rows are counted: the requests, and the page that is made.
LEMMA CountFacts ==
  ASSUME SharingInv, TypedInv, NEW r \in DOMAIN http, Count(r)
  PROVE  LET c == http[r].controller
             count == Len(Query(http[r]))
         IN  /\ http[r].at = "count" /\ c \in Controllers /\ count \in Nat
             /\ UNCHANGED tables
             /\ \/ GoTo(r, "refused") /\ UNCHANGED paginator
                \/ /\ GoTo(r, "list")
                   /\ http[r].page \in 1 .. Pages(SizeOf(http[r]), count)
                   /\ paginator' = [paginator EXCEPT ![c].page = PageOf(r, count)]
                   /\ PageOf(r, count) \in PageObject
<1> DEFINE c == http[r].controller
           count == Len(Query(http[r]))
<1>1. c \in Controllers
  BY DEF SharingInv, Shape
<1>2. count \in Nat
  BY <1>1, QueryFacts DEF TypedInv
<1>3. /\ http[r].at = "count" /\ UNCHANGED tables
      /\ \/ GoTo(r, "refused") /\ UNCHANGED paginator
         \/ /\ GoTo(r, "list")
            /\ http[r].page \in 1 .. Pages(SizeOf(http[r]), count)
            /\ paginator' = [paginator EXCEPT ![c].page = PageOf(r, count)]
  BY DEF Count
<1> HIDE DEF count
<1>4. http[r].page \in 1 .. Pages(SizeOf(http[r]), count) => PageOf(r, count) \in PageObject
  BY <1>2, PageOfTyped
<1> QED
  BY <1>1, <1>2, <1>3, <1>4 DEF count

\* The page that is kept is one.
LEMMA TypedCount ==
  ASSUME SharingInv, TypedInv, NEW r \in DOMAIN http, Count(r)
  PROVE  TypedInv'
<1> DEFINE c == http[r].controller
           page == PageOf(r, Len(Query(http[r])))
<1>1. CASE GoTo(r, "refused") /\ UNCHANGED <<tables, paginator>>
  BY <1>1, TypedGoTo
<1>2. CASE /\ GoTo(r, "list") /\ UNCHANGED tables
           /\ paginator' = [paginator EXCEPT ![c].page = page] /\ page \in PageObject
  <2>1. c \in Controllers /\ \A s \in DOMAIN http : http[s].controller \in Controllers /\ http[s] \in Call
    BY DEF SharingInv, Shape, TypedInv, CallsTyped
  <2> HIDE DEF c, page
  <2>2. /\ PaginatorsTyped'
        /\ paginator'[c].page = page
        /\ \A d \in Controllers : d # c => paginator'[d] = paginator[d]
    BY <1>2, <2>1 DEF TypedInv, PaginatorsTyped
  <2>3. /\ DOMAIN http' = DOMAIN http /\ \A s \in DOMAIN http : s # r => http'[s] = http[s]
        /\ http'[r] = [http[r] EXCEPT !.at = "list"]
    BY <1>2 DEF GoTo
  <2>4. http'[r] \in Call /\ http'[r].controller = c
    <3>1. http[r] \in Call /\ "list" \in Places
      BY <2>1 DEF Places, Inside
    <3> QED
      BY <2>3, <3>1 DEF Call, Places, c
  <2>5. CallsTyped'
    BY <2>3, <2>4 DEF TypedInv, CallsTyped
  <2>6. PagesMade'
    <3> SUFFICES ASSUME NEW s \in DOMAIN http, http'[s].at \in Paged
                 PROVE  Shared(s).page' \in PageObject
      BY <2>3 DEF PagesMade
    <3>1. http'[s].controller = http[s].controller /\ http[s].controller \in Controllers
      BY <2>1, <2>3, <2>4 DEF c
    <3>2. CASE http[s].controller = c
      BY <1>2, <2>2, <3>1, <3>2 DEF Shared
    <3>3. CASE http[s].controller # c
      <4>1. s # r
        BY <3>3 DEF c
      <4> QED
        BY <2>2, <2>3, <3>1, <3>3, <4>1 DEF TypedInv, PagesMade, Shared
    <3> QED
      BY <3>2, <3>3
  <2>7. TablesInv'
    BY <1>2, TablesStay DEF TypedInv
  <2> QED
    BY <1>2, <2>2, <2>5, <2>6, <2>7 DEF TypedInv, tables
<1> QED
  BY <1>1, <1>2, CountFacts

\* The rows are read: what becomes of the request and of the page.
LEMMA ListFacts ==
  ASSUME SharingInv, TypedInv, NEW r \in DOMAIN http, List(r)
  PROVE  LET c    == http[r].controller
             page == Shared(r).page
             rows == RowsOf(page)
         IN  /\ http[r].at = "list" /\ http'[r].at = "serialize" /\ c \in Controllers
             /\ page \in PageObject /\ page.of \in DOMAIN http
             /\ rows \in Seq(Row)
             /\ UNCHANGED tables
             /\ DOMAIN http' = DOMAIN http /\ \A s \in DOMAIN http : s # r => http'[s] = http[s]
             /\ http'[r] \in Call /\ http'[r].rows = rows
             /\ \A f \in {"controller", "user", "chat", "page", "limit", "count", "next",
                          "known", "met", "after", "undisturbed"} : http'[r][f] = http[r][f]
             /\ DOMAIN paginator' = Controllers
             /\ paginator'[c].page = [page EXCEPT !.rows = rows]
             /\ paginator'[c].page \in PageObject
             /\ \A d \in Controllers : d # c => paginator'[d] = paginator[d]
             /\ PaginatorsTyped'
<1> DEFINE c    == http[r].controller
           page == Shared(r).page
           rows == RowsOf(page)
           all  == Query(http[page.of])
           read == http[r].read \cup {page.of}
<1>1. /\ http[r].at = "list" /\ UNCHANGED tables
      /\ paginator' = [paginator EXCEPT ![c].page.rows = rows]
      /\ http' = [http EXCEPT ![r].at = "serialize", ![r].rows = rows, ![r].read = read]
  BY DEF List
<1>2. http[r].at \in Paged
  BY <1>1 DEF Paged, Inside
<1>3. /\ page \in PageObject /\ page.of \in DOMAIN http /\ page.of \in Request
      /\ all \in Seq(Row)
  <2>1. /\ page \in PageObject /\ page.of \in DOMAIN http /\ page.of \in Request
        /\ http[page.of].controller \in Controllers
    BY <1>2, PageReadTyped
  <2> QED
    BY <2>1, QueryFacts DEF TypedInv
<1>4. rows \in Seq(Row)
  <2>1. /\ page.bottom \in Nat /\ page.top \in Nat
        /\ page.rows # Unread => page.rows \in Seq(Row)
    BY <1>3 DEF PageObject
  <2>2. Cut(all, page.bottom, page.top) \in Seq(Row)
    BY <1>3, <2>1, CutFacts
  <2> QED
    BY <2>1, <2>2 DEF RowsOf, Cut
<1>5. /\ c \in Controllers /\ http[r] \in Call /\ read \in SUBSET Request
      /\ paginator[c].page = page
  BY <1>3 DEF SharingInv, Shape, TypedInv, CallsTyped, Call, Shared
<1> HIDE DEF c, page, rows, all, read
<1>6. /\ DOMAIN http' = DOMAIN http /\ \A s \in DOMAIN http : s # r => http'[s] = http[s]
      /\ http'[r] = [http[r] EXCEPT !.at = "serialize", !.rows = rows, !.read = read]
  BY <1>1
<1>7. http'[r] \in Call
  <2>1. "serialize" \in Places
    BY DEF Places, Inside
  <2>2. [http[r] EXCEPT !.at = "serialize", !.rows = rows, !.read = read] \in Call
    BY <1>4, <1>5, <2>1, WithRowsTyped, Zenon
  <2> QED
    BY <1>6, <2>2
<1>8. /\ http'[r].at = "serialize" /\ http'[r].rows = rows
      /\ \A f \in {"controller", "user", "chat", "page", "limit", "count", "next",
                   "known", "met", "after", "undisturbed"} : http'[r][f] = http[r][f]
  BY <1>5, <1>6 DEF Call
<1>9. [page EXCEPT !.rows = rows] \in PageObject
  BY <1>3, <1>4 DEF PageObject
<1>10. /\ DOMAIN paginator' = Controllers
       /\ paginator'[c].page = [page EXCEPT !.rows = rows]
       /\ paginator'[c] = [paginator[c] EXCEPT !.page = [page EXCEPT !.rows = rows]]
       /\ \A d \in Controllers : d # c => paginator'[d] = paginator[d]
       /\ paginator' = [paginator EXCEPT ![c] = paginator'[c]]
  BY <1>1, <1>5 DEF TypedInv, PaginatorsTyped
<1>11. PaginatorsTyped'
  <2> DEFINE P == [request : Request \cup {NoRequest}, page : PageObject \cup {NoPage}]
  <2>1. paginator \in [Controllers -> P]
    BY DEF TypedInv, PaginatorsTyped
  <2>2. paginator[c] \in P
    BY <1>5, <2>1
  <2> HIDE DEF PageObject
  <2>3. [paginator[c] EXCEPT !.page = [page EXCEPT !.rows = rows]] \in P
    BY <1>9, <2>2
  <2> HIDE DEF P
  <2>4. paginator' \in [Controllers -> P]
    BY <1>5, <1>10, <2>1, <2>3
  <2> QED
    BY <2>4 DEF PaginatorsTyped, P
<1> QED
  BY <1>1, <1>3, <1>4, <1>5, <1>6, <1>7, <1>8, <1>9, <1>10, <1>11 DEF c, page, rows

\* The rows that are kept and listed are rows.
LEMMA TypedList ==
  ASSUME SharingInv, TypedInv, NEW r \in DOMAIN http, List(r)
  PROVE  TypedInv'
<1> DEFINE c == http[r].controller
<1>1. /\ http[r].at = "list" /\ c \in Controllers
      /\ UNCHANGED tables
      /\ DOMAIN http' = DOMAIN http /\ \A s \in DOMAIN http : s # r => http'[s] = http[s]
      /\ http'[r] \in Call /\ http'[r].controller = c
      /\ paginator'[c].page \in PageObject
      /\ \A d \in Controllers : d # c => paginator'[d] = paginator[d]
      /\ PaginatorsTyped'
  BY ListFacts
<1>2. \A s \in DOMAIN http : http'[s].controller = http[s].controller /\ http[s].controller \in Controllers
  BY <1>1 DEF SharingInv, Shape
<1> HIDE DEF c
<1>3. PagesMade'
  <2> SUFFICES ASSUME NEW s \in DOMAIN http, http'[s].at \in Paged
               PROVE  Shared(s).page' \in PageObject
    BY <1>1 DEF PagesMade
  <2>1. CASE http[s].controller = c
    BY <1>1, <1>2, <2>1 DEF Shared
  <2>2. CASE http[s].controller # c
    <3>1. s # r
      BY <2>2 DEF c
    <3> QED
      BY <1>1, <1>2, <2>2, <3>1 DEF TypedInv, PagesMade, Shared
  <2> QED
    BY <2>1, <2>2
<1>4. CallsTyped'
  BY <1>1 DEF TypedInv, CallsTyped
<1>5. TablesInv'
  BY <1>1, TablesStay DEF TypedInv
<1> QED
  BY <1>1, <1>3, <1>4, <1>5 DEF TypedInv, tables

\* The tables change: what becomes of the requests.
LEMMA ChangeFacts ==
  ASSUME TypedInv, TablesChange
  PROVE  /\ changes < MaxChanges /\ changes' = changes + 1 /\ UNCHANGED paginator
         /\ DOMAIN http' = DOMAIN http
         /\ \A s \in DOMAIN http :
              /\ http'[s] \in Call
              /\ \A f \in {"at", "controller", "user", "chat", "page", "limit", "rows", "count", "next",
                           "known", "met", "after"} : http'[s][f] = http[s][f]
              /\ http'[s].undisturbed => http[s].undisturbed /\ ~Deleting
<1>1. /\ changes < MaxChanges /\ changes' = changes + 1 /\ UNCHANGED paginator
      /\ Deleting \/ UNCHANGED http
  BY DEF TablesChange, Store, DeleteMessage, AdminAddParticipant, AdminRemoveParticipant,
     AdminCreateChat, AdminDeleteChat, Change
<1>2. \A s \in DOMAIN http : http[s] \in Call
  BY DEF TypedInv, CallsTyped
<1>3. CASE ~Deleting
  BY <1>1, <1>2, <1>3
<1>4. CASE Deleting
  <2>1. /\ DOMAIN http' = DOMAIN http
        /\ \A s \in DOMAIN http : http'[s] = [http[s] EXCEPT !.undisturbed = FALSE]
    BY <1>4 DEF Deleting
  <2>2. ASSUME NEW q \in Call
        PROVE  /\ [q EXCEPT !.undisturbed = FALSE] \in Call
               /\ ~[q EXCEPT !.undisturbed = FALSE].undisturbed
               /\ \A f \in {"at", "controller", "user", "chat", "page", "limit", "rows", "count",
                            "next", "known", "met", "after"} :
                    [q EXCEPT !.undisturbed = FALSE][f] = q[f]
    BY DEF Call
  <2>3. ASSUME NEW s \in DOMAIN http
        PROVE  /\ http'[s] \in Call
               /\ \A f \in {"at", "controller", "user", "chat", "page", "limit", "rows", "count",
                            "next", "known", "met", "after"} : http'[s][f] = http[s][f]
               /\ ~http'[s].undisturbed
    <3>1. http'[s] = [http[s] EXCEPT !.undisturbed = FALSE] /\ http[s] \in Call
      BY <1>2, <2>1
    <3>2. /\ [http[s] EXCEPT !.undisturbed = FALSE] \in Call
          /\ ~[http[s] EXCEPT !.undisturbed = FALSE].undisturbed
          /\ \A f \in {"at", "controller", "user", "chat", "page", "limit", "rows", "count",
                       "next", "known", "met", "after"} :
               [http[s] EXCEPT !.undisturbed = FALSE][f] = http[s][f]
      BY <2>2, <3>1
    <3> QED
      BY <3>1, <3>2, Zenon
  <2> QED
    BY <1>1, <2>1, <2>3
<1> QED
  BY <1>3, <1>4

\* The tables change: some requests are no longer undisturbed.
LEMMA TypedTables ==
  ASSUME SharingInv, TypedInv, TablesChange
  PROVE  TypedInv'
<1>1. TablesInv'
  BY TablesStep DEF TypedInv
<1>2. changes < MaxChanges /\ changes' = changes + 1 /\ UNCHANGED paginator
  BY ChangeFacts
<1>3. changes' \in 0 .. MaxChanges
  BY <1>2, ListAssumption DEF TypedInv
<1>4. /\ DOMAIN http' = DOMAIN http
      /\ \A s \in DOMAIN http : /\ http'[s] \in Call /\ http'[s].at = http[s].at
                                /\ http'[s].controller = http[s].controller
  BY ChangeFacts
<1>5. CallsTyped'
  BY <1>4 DEF TypedInv, CallsTyped
<1>6. PagesMade'
  BY <1>2, <1>4 DEF TypedInv, PagesMade, Shared
<1> QED
  BY <1>1, <1>2, <1>3, <1>5, <1>6 DEF TypedInv, PaginatorsTyped

\* Every step preserves the types.
LEMMA TypedStep ==
  ASSUME SharingInv, TypedInv, [Next]_vars
  PROVE  TypedInv'
<1>1. CASE UNCHANGED vars
  <2>1. TablesInv'
    BY <1>1, TablesStay DEF TypedInv, vars
  <2> QED
    BY <1>1, <2>1 DEF TypedInv, vars, tables, CallsTyped, PaginatorsTyped, PagesMade, Shared
<1>2. CASE TablesChange
  BY <1>2, TypedTables
<1>3. ASSUME NEW r \in DOMAIN http, Get(r)
      PROVE  TypedInv'
  BY <1>3, TypedParse, TypedPaginate, TypedCount, TypedList, TypedSerialize, TypedTotal,
     TypedHasLink, TypedNextLink, TypedPreviousLink DEF Get
<1>4. ASSUME NEW r \in Request, NEW c \in Controllers, NEW u \in User, NEW p \in Page,
             NEW l \in Limit, NEW k \in (IF c = "chats" THEN {NoChat} ELSE Chat),
             Arrive(r, c, u, k, p, l)
      PROVE  TypedInv'
  <2>1. k \in Chat \cup {NoChat}
    OBVIOUS
  <2> QED
    BY <1>4, <2>1, TypedArrive
<1> QED
  BY <1>1, <1>2, <1>3, <1>4 DEF Next

----------------------------------------------------------------------------
(* What a request that is alone may rely on.                               *)

\* Requests know no message of the future, and those that had been answered
\* when one came stay so.
CameBefore ==
  \A s \in DOMAIN http :
    /\ http[s].known <= stored
    /\ \A r \in http[s].after : r \in DOMAIN http /\ http[r].at = "answered"

\* The page that such a request has made and not yet read: its slice, nobody
\* has read it, and the count is enough for the old messages, and is not too
\* high as long as none has been deleted.
PageOfOwn(r) ==
  LET q == http[r]  p == Shared(r).page
  IN  /\ q.page \in Nat \ {0}
      /\ p.bottom = Bottom(q.page, SizeOf(q))
      /\ p.top = Top(q.page, SizeOf(q), p.count)
      /\ p.rows = Unread
      /\ q.controller = "messages" =>
           /\ Cardinality(Old(q)) <= p.count
           /\ q.undisturbed => p.count <= Cardinality(Of(q.chat))

\* The count that is in its answer, or will be.
CountOf(r) ==
  IF http[r].at \in {"serialize", "total"} THEN Shared(r).page.count ELSE http[r].count

\* The new ones among the rows of request q.
NewOnes(q) == {m \in ToSet(q.rows) : m.id > q.known}

\* A history of one page lacks no more old messages than it has new ones.
Displaces(r) ==
  LET q == http[r]
  IN  q.page = 1 /\ CountOf(r) <= SizeOf(q) => Cardinality(Missing(q)) <= Cardinality(NewOnes(q))

\* The messages of chat k that are not older than message x.
Since(k, x) == {m \in Of(k) : m.id >= x.id}

\* Pages that are full reach as deep as their number says, counted from the
\* newest message of now: messages that are stored only add to that.
Reaches(r) ==
  LET q == http[r]
  IN  q.undisturbed /\ q.page * SizeOf(q) < CountOf(r) =>
        /\ q.rows # << >> /\ Last(q.rows) \in Of(q.chat)
        /\ Cardinality(Since(q.chat, Last(q.rows))) >= q.page * SizeOf(q)

\* The page asked for has a number, and the rows are of the chat and not too many.
Fits(q) ==
  /\ q.page \in Nat \ {0}
  /\ Len(q.rows) <= SizeOf(q)
  /\ q.controller # "chats" => \A row \in ToSet(q.rows) : row.chat = q.chat

\* What request r has for certain if it is alone: a page that is its own, and
\* then rows that are.
OwnParts(r) ==
  Lone(r) =>
    /\ http[r].at = "list" => PageOfOwn(r)
    /\ http[r].at \in Listed =>
         /\ Fits(http[r])
         /\ http[r].controller = "messages" => Displaces(r) /\ Reaches(r)

\* Between the page of r and the following one, which s has read later, there
\* is no message.
Follows(r, s) ==
  LET a == http[r]  b == http[s]
  IN  /\ {a.controller, b.controller} = {"messages"} /\ a.chat = b.chat
      /\ a.at = "answered" /\ b.at \in Listed /\ Lone(r) /\ Lone(s)
      /\ r \in b.after /\ a.undisturbed
      /\ a.next # NoLink /\ b.page = a.page + 1 /\ SizeOf(a) = SizeOf(b)
      /\ b.rows # << >>
      => \A m \in Of(a.chat) : ~(Head(b.rows).id < m.id /\ m.id < Last(a.rows).id)

\* The invariant of requests that are alone.
AloneInv ==
  /\ CameBefore
  /\ \A r \in DOMAIN http : OwnParts(r)
  /\ \A r, s \in DOMAIN http : Follows(r, s)

\* The messages after a step: those that came are new.
LEMMA OfFacts ==
  ASSUME TypedInv, TypedInv', MessagesStep, NEW k
  PROVE  /\ IsFiniteSet(Of(k)) /\ IsFiniteSet(Of(k)')
         /\ \A m \in Of(k) : m.id \in Nat /\ m.id <= stored
         /\ \A m \in Of(k)' : m.id \in Nat /\ (m \in Of(k) \/ m.id > stored)
         /\ ToSet(messages) \subseteq ToSet(messages') => Of(k) \subseteq Of(k)'
<1>1. TablesInv /\ TablesInv'
  BY DEF TypedInv
<1>2. IsFiniteSet(Of(k))
  BY <1>1, MessagesOfFacts
<1>3. IsFiniteSet(Of(k)')
  <2>1. TablesInv' => IsFiniteSet(Of(k))'
    BY MessagesOfFacts, PTL
  <2> QED
    BY <1>1, <2>1
<1>4. \A m \in ToSet(messages) : m \in MessageRow /\ m.id <= stored
  BY <1>1 DEF TablesInv, ToSet
<1>5. \A m \in ToSet(messages') : m \in MessageRow
  BY <1>1 DEF TablesInv, ToSet
<1> QED
  BY <1>2, <1>3, <1>4, <1>5 DEF Of, MessagesStep, MessageRow

\* What a step is to a request whose rows it does not read: the request keeps
\* what it has, and so does its page, if it is alone.
Stays(r) ==
  /\ r \in DOMAIN http'
  /\ \A f \in {"controller", "chat", "page", "limit", "rows", "known", "after"} :
       http'[r][f] = http[r][f]
  /\ Lone(r)' => Lone(r)
  /\ http'[r].undisturbed => http[r].undisturbed /\ ToSet(messages) \subseteq ToSet(messages')
  /\ http'[r].at = "list" /\ Lone(r)' => http[r].at = "list" /\ Shared(r).page' = Shared(r).page
  /\ http'[r].at \in Listed => http[r].at \in Listed
  /\ http'[r].at \in Listed /\ Lone(r)' => CountOf(r)' = CountOf(r)
  /\ http[r].at = "answered" => http'[r].at = "answered" /\ http'[r].next = http[r].next

\* The fields by name.
LEMMA StaysFields ==
  ASSUME NEW r, Stays(r)
  PROVE  /\ http'[r].controller = http[r].controller /\ http'[r].chat = http[r].chat
         /\ http'[r].page = http[r].page /\ http'[r].limit = http[r].limit
         /\ http'[r].rows = http[r].rows /\ http'[r].known = http[r].known
         /\ http'[r].after = http[r].after
         /\ SizeOf(http'[r]) = SizeOf(http[r])
<1>1. \A f \in {"controller", "chat", "page", "limit", "rows", "known", "after"} :
        http'[r][f] = http[r][f]
  BY DEF Stays
<1>2. /\ http'[r].controller = http[r].controller /\ http'[r].chat = http[r].chat
      /\ http'[r].page = http[r].page /\ http'[r].limit = http[r].limit
      /\ http'[r].rows = http[r].rows /\ http'[r].known = http[r].known
      /\ http'[r].after = http[r].after
  BY <1>1, Zenon
<1> QED
  BY <1>2 DEF SizeOf

\* A part of a finite set has no more elements.
LEMMA Fewer ==
  ASSUME NEW S, NEW T, IsFiniteSet(T), S \subseteq T
  PROVE  /\ IsFiniteSet(S) /\ Cardinality(S) \in Nat /\ Cardinality(T) \in Nat
         /\ Cardinality(S) <= Cardinality(T)
  BY FS_Subset, FS_CardinalityType

\* A list has finitely many values.
LEMMA ValuesFinite ==
  ASSUME NEW T, NEW list \in Seq(T)
  PROVE  IsFiniteSet(ToSet(list)) /\ Cardinality(ToSet(list)) \in Nat
<1> DEFINE g == [i \in 1 .. Len(list) |-> list[i]]
<1>1. Len(list) \in Nat /\ DOMAIN list = 1 .. Len(list)
  OBVIOUS
<1>2. g \in Surjection(1 .. Len(list), ToSet(list))
  BY <1>1 DEF Surjection, ToSet
<1>3. IsFiniteSet(1 .. Len(list))
  BY <1>1, FS_Interval
<1> HIDE DEF g
<1> QED
  BY <1>2, <1>3, FS_Surjection, FS_CardinalityType

\* Such a step preserves what a lone request may rely on.
LEMMA OwnStays ==
  ASSUME TypedInv, TypedInv', MessagesStep, CameBefore,
         NEW r \in DOMAIN http, OwnParts(r), Stays(r)
  PROVE  OwnParts(r)'
<1> DEFINE q == http[r]
<1>0. PICK k : k = q.chat
  OBVIOUS
<1> SUFFICES ASSUME Lone(r)'
             PROVE  /\ http'[r].at = "list" => PageOfOwn(r)'
                    /\ http'[r].at \in Listed =>
                         /\ Fits(http'[r])
                         /\ http'[r].controller = "messages" => Displaces(r)' /\ Reaches(r)'
  BY DEF OwnParts, Listed
<1>1. Lone(r)
  BY DEF Stays
<1>2. /\ http'[r].controller = q.controller /\ http'[r].chat = q.chat
      /\ http'[r].page = q.page /\ http'[r].limit = q.limit /\ http'[r].rows = q.rows
      /\ http'[r].known = q.known /\ SizeOf(http'[r]) = SizeOf(q)
  BY StaysFields
<1>3. /\ IsFiniteSet(Of(k)) /\ IsFiniteSet(Of(k)')
      /\ \A m \in Of(k) : m.id \in Nat /\ m.id <= stored
      /\ \A m \in Of(k)' : m.id \in Nat /\ (m \in Of(k) \/ m.id > stored)
      /\ ToSet(messages) \subseteq ToSet(messages') => Of(k) \subseteq Of(k)'
  BY OfFacts, Zenon
<1>4. q \in Call /\ q.known \in Nat /\ q.known <= stored /\ stored \in Nat /\ q.page \in Page
  BY DEF CameBefore, TypedInv, CallsTyped, Call, TablesInv
<1>5. http'[r].undisturbed => q.undisturbed /\ Of(k) \subseteq Of(k)'
  BY <1>3 DEF Stays
<1>6. \A m \in Of(k)' : m.id <= q.known => m \in Of(k)
  BY <1>3, <1>4
<1>7. ASSUME http'[r].at = "list"
      PROVE  PageOfOwn(r)'
  <2>1. PageOfOwn(r) /\ Shared(r).page' = Shared(r).page /\ q.at = "list"
    BY <1>1, <1>7 DEF OwnParts, Stays
  <2>2. Shared(r).page.count \in Nat
    BY <2>1 DEF TypedInv, PagesMade, Paged, Inside, PageObject
  <2>3. ASSUME q.controller = "messages"
        PROVE  /\ Cardinality(Old(http[r])') <= Shared(r).page.count
               /\ http'[r].undisturbed => Shared(r).page.count <= Cardinality(Of(http[r].chat)')
    <3>0. Of(http[r].chat)' = Of(k)'
      BY <1>0, <1>2 DEF Of
    <3>1. Old(http[r])' = {m \in Of(k)' : m.id <= q.known}
      BY <1>0, <1>2 DEF Old, Of
    <3>2. Old(q) = {m \in Of(k) : m.id <= q.known}
      BY <1>0 DEF Old
    <3>3. Old(http[r])' \subseteq Old(q)
      BY <1>6, <3>1, <3>2
    <3>4. IsFiniteSet(Old(q))
      BY <1>3, <3>2, FS_Subset
    <3>5. /\ Cardinality(Old(http[r])') <= Cardinality(Old(q))
          /\ Cardinality(Old(http[r])') \in Nat /\ Cardinality(Old(q)) \in Nat
      BY <3>3, <3>4, Fewer
    <3>6. Cardinality(Old(q)) <= Shared(r).page.count
      BY <2>1, <2>3 DEF PageOfOwn
    <3>7. ASSUME http'[r].undisturbed
          PROVE  Shared(r).page.count <= Cardinality(Of(k)')
      <4>1. Shared(r).page.count <= Cardinality(Of(k))
        BY <1>0, <1>5, <2>1, <2>3, <3>7 DEF PageOfOwn
      <4>2. /\ Cardinality(Of(k)) <= Cardinality(Of(k)')
            /\ Cardinality(Of(k)) \in Nat /\ Cardinality(Of(k)') \in Nat
        BY <1>3, <1>5, <3>7, Fewer
      <4> QED
        BY <2>2, <4>1, <4>2
    <3> QED
      BY <2>2, <3>0, <3>5, <3>6, <3>7
  <2> QED
    BY <1>2, <2>1, <2>3 DEF PageOfOwn
<1>8. ASSUME http'[r].at \in Listed
      PROVE  /\ Fits(http'[r])
             /\ http'[r].controller = "messages" => Displaces(r)' /\ Reaches(r)'
  <2>1. q.at \in Listed /\ CountOf(r)' = CountOf(r)
    BY <1>8 DEF Stays
  <2>2. /\ Fits(q)
        /\ q.controller = "messages" => Displaces(r) /\ Reaches(r)
    BY <1>1, <2>1 DEF OwnParts
  <2>3. Fits(http'[r])
    BY <1>2, <2>2 DEF Fits
  <2>4. ASSUME q.controller = "messages"
        PROVE  Displaces(r)'
    <3> SUFFICES ASSUME q.page = 1, CountOf(r) <= SizeOf(q)
                 PROVE  Cardinality(Missing(http[r])') <= Cardinality(NewOnes(http'[r]))
      BY <1>2, <2>1 DEF Displaces, NewOnes
    <3>1. NewOnes(http'[r]) = NewOnes(q)
      BY <1>2 DEF NewOnes
    <3>2. Cardinality(Missing(q)) <= Cardinality(NewOnes(q))
      BY <2>2, <2>4 DEF Displaces
    <3>3. Missing(q) = {m \in Of(k) : m.id <= q.known /\ m \notin ToSet(q.rows)}
      BY <1>0 DEF Missing, Of
    <3>4. Missing(http[r])' = {m \in Of(k)' : m.id <= q.known /\ m \notin ToSet(q.rows)}
      BY <1>0, <1>2 DEF Missing, Of
    <3>5. Missing(http[r])' \subseteq Missing(q)
      BY <1>6, <3>3, <3>4
    <3>6. IsFiniteSet(Missing(q))
      BY <1>3, <3>3, FS_Subset
    <3>7. /\ Cardinality(Missing(http[r])') <= Cardinality(Missing(q))
          /\ Cardinality(Missing(http[r])') \in Nat /\ Cardinality(Missing(q)) \in Nat
      BY <3>5, <3>6, Fewer
    <3>8. Cardinality(NewOnes(q)) \in Nat
      <4>1. q.rows \in Seq(Row)
        BY <1>4 DEF Call
      <4>2. IsFiniteSet(ToSet(q.rows))
        BY <4>1, ValuesFinite
      <4> QED
        BY <4>2, Fewer DEF NewOnes
    <3> QED
      BY <3>1, <3>2, <3>7, <3>8
  <2>5. ASSUME q.controller = "messages"
        PROVE  Reaches(r)'
    <3>0. PICK x : x = Last(q.rows)
      OBVIOUS
    <3>4. /\ Of(http[r].chat)' = Of(k)' /\ Last(http'[r].rows) = x
          /\ Since(http[r].chat, Last(http[r].rows))' = Since(k, x)'
      BY <1>0, <1>2, <3>0 DEF Of, Since
    <3> SUFFICES ASSUME http'[r].undisturbed, q.page * SizeOf(q) < CountOf(r)
                 PROVE  /\ q.rows # << >> /\ x \in Of(k)'
                        /\ Cardinality(Since(k, x)') >= q.page * SizeOf(q)
      BY <1>2, <2>1, <3>4 DEF Reaches
    <3>1. /\ q.rows # << >> /\ x \in Of(k)
          /\ Cardinality(Since(k, x)) >= q.page * SizeOf(q)
      BY <1>0, <1>5, <2>2, <2>5, <3>0 DEF Reaches
    <3>2. Since(k, x) \subseteq Since(k, x)' /\ IsFiniteSet(Since(k, x)')
      BY <1>3, <1>5, FS_Subset DEF Since
    <3>3. /\ Cardinality(Since(k, x)) <= Cardinality(Since(k, x)')
          /\ Cardinality(Since(k, x)) \in Nat /\ Cardinality(Since(k, x)') \in Nat
      BY <3>2, Fewer
    <3>5. q.page * SizeOf(q) \in Nat
      <4>1. q.page \in Nat /\ SizeOf(q) \in Nat
        BY <2>2, SizeFacts DEF Fits
      <4> QED
        BY <4>1
    <3> QED
      BY <1>5, <3>1, <3>3, <3>5
  <2> QED
    BY <1>2, <2>3, <2>4, <2>5
<1> QED
  BY <1>7, <1>8

\* A page with a link to a next one is full.
LEMMA LinkedIsFull ==
  ASSUME SharingInv, TypedInv, NEW r \in DOMAIN http, OwnParts(r), Lone(r),
         http[r].at = "answered", http[r].controller = "messages",
         http[r].undisturbed, http[r].next # NoLink
  PROVE  /\ http[r].rows # << >> /\ Last(http[r].rows) \in Of(http[r].chat)
         /\ Cardinality(Since(http[r].chat, Last(http[r].rows))) >= http[r].page * SizeOf(http[r])
<1> DEFINE q == http[r]
<1>1. q.next = NextOf(r)
  BY DEF SharingInv, LinksSoFar, LinksOf
<1>2. q.page + 1 \in 1 .. Pages(SizeOf(q), q.count)
  BY <1>1 DEF NextOf
<1>3. q.page \in Nat \ {0} /\ Reaches(r)
  BY DEF OwnParts, Listed, Fits
<1>4. q.count \in Nat
  BY DEF TypedInv, CallsTyped, Call
<1>5. q.page * SizeOf(q) < q.count
  BY <1>2, <1>3, <1>4, SizeFacts, PagesFacts
<1>6. CountOf(r) = q.count
  BY DEF CountOf
<1> QED
  BY <1>3, <1>5, <1>6 DEF Reaches

\* Two pages between which there is no message: none comes between them either.
LEMMA FollowsStays ==
  ASSUME SharingInv, TypedInv, TypedInv', MessagesStep, CameBefore,
         NEW r \in DOMAIN http, NEW s \in DOMAIN http,
         OwnParts(r), Follows(r, s), Stays(r), Stays(s)
  PROVE  Follows(r, s)'
<1> DEFINE a == http[r]
           b == http[s]
<1>0. PICK k : k = a.chat
  OBVIOUS
<1>1. /\ http'[r].controller = a.controller /\ http'[r].chat = k /\ http'[r].page = a.page
      /\ http'[r].rows = a.rows /\ SizeOf(http'[r]) = SizeOf(a)
      /\ http'[s].controller = b.controller /\ http'[s].chat = b.chat /\ http'[s].page = b.page
      /\ http'[s].rows = b.rows /\ http'[s].after = b.after /\ SizeOf(http'[s]) = SizeOf(b)
  BY <1>0, StaysFields
<1>2. Of(http[r].chat)' = Of(k)'
  BY <1>1 DEF Of
<1> SUFFICES ASSUME {a.controller, b.controller} = {"messages"}, a.chat = b.chat,
                    http'[s].at \in Listed, Lone(r)', Lone(s)', r \in b.after,
                    http'[r].undisturbed, http'[r].next # NoLink, b.page = a.page + 1,
                    SizeOf(a) = SizeOf(b), b.rows # << >>,
                    NEW m \in Of(k)'
             PROVE  ~(Head(b.rows).id < m.id /\ m.id < Last(a.rows).id)
  BY <1>0, <1>1, <1>2 DEF Follows
<1>3. /\ a.at = "answered" /\ a.next # NoLink /\ a.undisturbed /\ Lone(r)
      /\ b.at \in Listed /\ Lone(s)
  BY DEF CameBefore, Stays
<1>4. \A n \in Of(k) : ~(Head(b.rows).id < n.id /\ n.id < Last(a.rows).id)
  BY <1>0, <1>3 DEF Follows
<1>5. /\ \A n \in Of(k) : n.id \in Nat /\ n.id <= stored
      /\ m.id \in Nat /\ (m \in Of(k) \/ m.id > stored)
  BY OfFacts
<1>6. Last(a.rows) \in Of(k)
  BY <1>0, <1>3, LinkedIsFull
<1>7. stored \in Nat
  BY DEF TypedInv, TablesInv
<1> QED
  BY <1>4, <1>5, <1>6, <1>7

\* A step that all requests but one are at most moved on by.
LEMMA AloneFrom ==
  ASSUME SharingInv, TypedInv, TypedInv', MessagesStep, AloneInv,
         NEW r, DOMAIN http' = DOMAIN http \cup {r},
         \A s \in DOMAIN http : s # r => Stays(s),
         r \in DOMAIN http => http[r].at # "answered",
         http'[r].at # "answered", http'[r].known <= stored,
         \A s \in http'[r].after : s \in DOMAIN http /\ s # r /\ http[s].at = "answered",
         OwnParts(r)',
         \A s \in DOMAIN http : s # r => Follows(s, r)'
  PROVE  AloneInv'
<1>1. \A s \in DOMAIN http : s # r =>
        /\ http'[s].known = http[s].known /\ http'[s].after = http[s].after
        /\ http[s].at = "answered" => http'[s].at = "answered"
  BY StaysFields DEF Stays
<1>2. /\ stored \in Nat /\ stored' \in Nat /\ stored <= stored'
      /\ \A s \in DOMAIN http' : http'[s].known \in Nat
  BY DEF MessagesStep, TypedInv, TablesInv, CallsTyped, Call
<1>3. CameBefore'
  <2> SUFFICES ASSUME NEW s \in DOMAIN http'
               PROVE  /\ http'[s].known <= stored'
                      /\ \A t \in http'[s].after : t \in DOMAIN http' /\ http'[t].at = "answered"
    BY DEF CameBefore
  <2>1. CASE s = r
    BY <1>1, <1>2, <2>1
  <2>2. CASE s # r
    <3>1. /\ s \in DOMAIN http /\ http[s].known <= stored /\ http[s].known \in Nat
          /\ \A t \in http[s].after : t \in DOMAIN http /\ http[t].at = "answered"
      BY <2>2 DEF AloneInv, CameBefore, TypedInv, CallsTyped, Call
    <3> QED
      BY <1>1, <1>2, <2>2, <3>1
  <2> QED
    BY <2>1, <2>2
<1>4. \A s \in DOMAIN http' : OwnParts(s)'
  <2> SUFFICES ASSUME NEW s \in DOMAIN http' PROVE OwnParts(s)'
    OBVIOUS
  <2>1. CASE s # r
    <3>1. s \in DOMAIN http /\ OwnParts(s) /\ Stays(s) /\ CameBefore
      BY <2>1 DEF AloneInv
    <3> QED
      BY <3>1, OwnStays
  <2> QED
    BY <2>1
<1>5. ASSUME NEW s \in DOMAIN http', NEW t \in DOMAIN http'
      PROVE  Follows(s, t)'
  <2>1. CASE s = r
    BY <2>1 DEF Follows
  <2>2. CASE s # r /\ t = r
    BY <2>2
  <2>3. CASE s # r /\ t # r
    <3>1. /\ s \in DOMAIN http /\ t \in DOMAIN http /\ OwnParts(s) /\ Follows(s, t)
          /\ Stays(s) /\ Stays(t) /\ CameBefore
      BY <2>3 DEF AloneInv
    <3> QED
      BY <3>1, FollowsStays
  <2> QED
    BY <2>1, <2>2, <2>3
<1> QED
  BY <1>3, <1>4, <1>5 DEF AloneInv

\* A step that all requests are at most moved on by.
LEMMA AllStay ==
  ASSUME SharingInv, TypedInv, TypedInv', MessagesStep, AloneInv,
         DOMAIN http' = DOMAIN http, \A s \in DOMAIN http : Stays(s)
  PROVE  AloneInv'
<1>1. \A s \in DOMAIN http :
        /\ http'[s].known = http[s].known /\ http'[s].after = http[s].after
        /\ http[s].at = "answered" => http'[s].at = "answered"
  BY StaysFields DEF Stays
<1>2. /\ stored \in Nat /\ stored' \in Nat /\ stored <= stored'
      /\ \A s \in DOMAIN http : http[s].known \in Nat
  BY DEF MessagesStep, TypedInv, TablesInv, CallsTyped, Call
<1>3. CameBefore'
  BY <1>1, <1>2 DEF AloneInv, CameBefore
<1>4. \A s \in DOMAIN http' : OwnParts(s)'
  BY OwnStays DEF AloneInv
<1>5. \A s, t \in DOMAIN http' : Follows(s, t)'
  BY FollowsStays DEF AloneInv
<1> QED
  BY <1>3, <1>4, <1>5 DEF AloneInv

\* No request has come yet.
LEMMA AloneInit == Init => AloneInv
  BY DEF Init, AloneInv, CameBefore

\* Nothing happens.
LEMMA AloneStutter ==
  ASSUME SharingInv, TypedInv, TypedInv', AloneInv, UNCHANGED vars
  PROVE  AloneInv'
<1>1. UNCHANGED tables /\ http' = http /\ paginator' = paginator
  BY DEF vars
<1>2. MessagesStep /\ ToSet(messages) \subseteq ToSet(messages')
  BY <1>1, TablesStay DEF TypedInv, tables
<1>3. \A s \in DOMAIN http : Stays(s)
  BY <1>1, <1>2 DEF Stays, Lone, Shared, CountOf
<1> QED
  BY <1>1, <1>2, <1>3, AllStay

\* The tables change.
LEMMA AloneTables ==
  ASSUME SharingInv, TypedInv, TypedInv', AloneInv, TablesChange
  PROVE  AloneInv'
<1>1. MessagesStep
  BY TablesStep DEF TypedInv
<1>2. /\ UNCHANGED paginator /\ DOMAIN http' = DOMAIN http
      /\ \A s \in DOMAIN http :
           /\ \A f \in {"at", "controller", "user", "chat", "page", "limit", "rows", "count", "next",
                        "known", "met", "after"} : http'[s][f] = http[s][f]
           /\ http'[s].undisturbed => http[s].undisturbed /\ ~Deleting
  BY ChangeFacts
<1>3. ASSUME NEW s \in DOMAIN http
      PROVE  Stays(s)
  <2>1. \A f \in {"at", "controller", "user", "chat", "page", "limit", "rows", "count", "next",
                  "known", "met", "after"} : http'[s][f] = http[s][f]
    BY <1>2
  <2>2. /\ http'[s].at = http[s].at /\ http'[s].met = http[s].met
        /\ http'[s].controller = http[s].controller /\ http'[s].count = http[s].count
        /\ http'[s].next = http[s].next
    BY <2>1, Zenon
  <2>3. \A f \in {"controller", "chat", "page", "limit", "rows", "known", "after"} :
          http'[s][f] = http[s][f]
    BY <2>1
  <2>4. http'[s].undisturbed => http[s].undisturbed /\ ToSet(messages) \subseteq ToSet(messages')
    BY <1>1, <1>2 DEF MessagesStep
  <2>5. Shared(s).page' = Shared(s).page
    BY <1>2, <2>2 DEF Shared
  <2>6. CountOf(s)' = CountOf(s) /\ (Lone(s)' => Lone(s))
    BY <2>2, <2>5 DEF CountOf, Lone
  <2> QED
    BY <1>2, <2>2, <2>3, <2>4, <2>5, <2>6 DEF Stays
<1> QED
  BY <1>1, <1>2, <1>3, AllStay

\* A request comes.
LEMMA AloneArrive ==
  ASSUME SharingInv, TypedInv, TypedInv', AloneInv,
         NEW r \in Request, NEW c, NEW u, NEW k, NEW p, NEW l, Arrive(r, c, u, k, p, l)
  PROVE  AloneInv'
<1>1. /\ r \notin DOMAIN http /\ DOMAIN http' = DOMAIN http \cup {r}
      /\ \A s \in DOMAIN http : http'[s] = http[s]
      /\ http'[r].at = "parse" /\ http'[r].known = stored
      /\ http'[r].after = {s \in DOMAIN http : http[s].at = "answered"}
      /\ UNCHANGED <<tables, paginator>>
  BY DEF Arrive
<1>2. MessagesStep /\ ToSet(messages) \subseteq ToSet(messages')
  BY <1>1, TablesStay DEF TypedInv, tables
<1>3. ASSUME NEW s \in DOMAIN http
      PROVE  Stays(s)
  BY <1>1, <1>2 DEF Stays, Lone, Shared, CountOf
<1>4. OwnParts(r)' /\ \A s \in DOMAIN http : Follows(s, r)'
  BY <1>1 DEF OwnParts, Follows, Listed
<1>5. stored \in Nat
  BY DEF TypedInv, TablesInv
<1> QED
  BY <1>1, <1>2, <1>3, <1>4, <1>5, AloneFrom

\* A step of one request that leaves the paginators and the tables alone, and
\* after which its rows, if it has any, are those it had, with their count.
LEMMA AloneOwn ==
  ASSUME SharingInv, TypedInv, TypedInv', AloneInv,
         NEW r \in DOMAIN http, UNCHANGED <<tables, paginator>>,
         DOMAIN http' = DOMAIN http, \A s \in DOMAIN http : s # r => http'[s] = http[s],
         \A f \in {"controller", "chat", "page", "limit", "rows", "known", "met", "after",
                   "undisturbed"} : http'[r][f] = http[r][f],
         http[r].at # "answered", http'[r].at # "list",
         http'[r].at \in Listed => http[r].at \in Listed /\ CountOf(r)' = CountOf(r)
  PROVE  AloneInv'
<1>1. MessagesStep /\ ToSet(messages) \subseteq ToSet(messages')
  BY TablesStay DEF TypedInv, tables
<1>2. ASSUME NEW s \in DOMAIN http, s # r
      PROVE  Stays(s)
  BY <1>1, <1>2 DEF Stays, Lone, Shared, CountOf
<1>3. Stays(r)
  <2>1. http'[r].met = http[r].met /\ http'[r].undisturbed = http[r].undisturbed
    BY Zenon
  <2>2. \A f \in {"controller", "chat", "page", "limit", "rows", "known", "after"} :
          http'[r][f] = http[r][f]
    OBVIOUS
  <2> QED
    BY <1>1, <2>1, <2>2 DEF Stays, Lone
<1>4. \A s \in DOMAIN http : Stays(s)
  BY <1>2, <1>3
<1> QED
  BY <1>1, <1>4, AllStay

\* Steps that only move a request on.
LEMMA AloneGoTo ==
  ASSUME SharingInv, TypedInv, TypedInv', AloneInv,
         NEW r \in DOMAIN http, UNCHANGED <<tables, paginator>>,
         NEW step \in {"paginate", "refused", "failed", "total"}, GoTo(r, step),
         http[r].at # "answered", step = "total" => http[r].at = "serialize"
  PROVE  AloneInv'
<1>1. http[r] \in Call /\ step \in Places
  BY DEF TypedInv, CallsTyped, Places, Inside
<1>2. /\ DOMAIN http' = DOMAIN http /\ \A s \in DOMAIN http : s # r => http'[s] = http[s]
      /\ http'[r] = [http[r] EXCEPT !.at = step]
  BY DEF GoTo
<1>3. /\ http'[r].at = step
      /\ \A f \in {"controller", "chat", "page", "limit", "rows", "known", "met", "after",
                   "undisturbed"} : http'[r][f] = http[r][f]
  BY <1>1, <1>2 DEF Call
<1>4. http'[r].controller = http[r].controller
  BY <1>3, Zenon
<1>5. http'[r].at \in Listed => http[r].at \in Listed /\ CountOf(r)' = CountOf(r)
  BY <1>3, <1>4 DEF Listed, CountOf, Shared
<1> QED
  BY <1>2, <1>3, <1>5, AloneOwn

\* A request is parsed.
LEMMA AloneParse ==
  ASSUME SharingInv, TypedInv, TypedInv', AloneInv, NEW r \in DOMAIN http, Parse(r)
  PROVE  AloneInv'
<1>1. PICK step \in {"paginate", "refused", "failed"} : GoTo(r, step)
  BY DEF Parse
<1>2. http[r].at = "parse" /\ UNCHANGED <<tables, paginator>>
  BY DEF Parse
<1> QED
  BY <1>1, <1>2, AloneGoTo

\* Its rows are serialized.
LEMMA AloneSerialize ==
  ASSUME SharingInv, TypedInv, TypedInv', AloneInv, NEW r \in DOMAIN http, Serialize(r)
  PROVE  AloneInv'
<1>1. PICK step \in {"total", "failed"} : GoTo(r, step)
  BY DEF Serialize
<1>2. http[r].at = "serialize" /\ UNCHANGED <<tables, paginator>>
  BY DEF Serialize
<1> QED
  BY <1>1, <1>2, AloneGoTo

\* The count of the answer is the one that its page has.
LEMMA AloneTotal ==
  ASSUME SharingInv, TypedInv, TypedInv', AloneInv, NEW r \in DOMAIN http, Total(r)
  PROVE  AloneInv'
<1> DEFINE count == Shared(r).page.count
           read  == http[r].read \cup {Shared(r).page.of}
<1>1. /\ http[r].at = "total" /\ UNCHANGED <<tables, paginator>>
      /\ http' = [http EXCEPT ![r].at = "next", ![r].count = count, ![r].read = read]
  BY DEF Total
<1>2. CountOf(r) = count
  BY <1>1 DEF CountOf
<1> HIDE DEF count, read
<1>3. http[r] \in Call
  BY DEF TypedInv, CallsTyped
<1>4. /\ DOMAIN http' = DOMAIN http /\ \A s \in DOMAIN http : s # r => http'[s] = http[s]
      /\ http'[r] = [http[r] EXCEPT !.at = "next", !.count = count, !.read = read]
  BY <1>1
<1>5. /\ http'[r].at = "next" /\ http'[r].count = count
      /\ \A f \in {"controller", "chat", "page", "limit", "rows", "known", "met", "after",
                   "undisturbed"} : http'[r][f] = http[r][f]
  BY <1>3, <1>4 DEF Call
<1>6. CountOf(r)' = count
  BY <1>5 DEF CountOf
<1>7. http[r].at \in Listed /\ http[r].at # "answered" /\ http'[r].at # "list"
  BY <1>1, <1>5 DEF Listed
<1> QED
  BY <1>1, <1>2, <1>4, <1>5, <1>6, <1>7, AloneOwn

\* Whether there is a link.
LEMMA AloneHasLink ==
  ASSUME SharingInv, TypedInv, TypedInv', AloneInv, NEW r \in DOMAIN http, NEW offset,
         NEW ask \in {"next", "previous"},
         NEW make \in {"nextLink", "previousLink"}, NEW otherwise \in {"previous", "answered"},
         HasLink(r, ask, offset, make, otherwise)
  PROVE  AloneInv'
<1> DEFINE step == IF Shared(r).page.number + offset \in 1..Shared(r).page.pages
                     THEN make ELSE otherwise
           read == http[r].read \cup {Shared(r).page.of}
<1>1. /\ http[r].at = ask /\ UNCHANGED <<tables, paginator>>
      /\ http' = [http EXCEPT ![r].at = step, ![r].read = read]
      /\ step \in {"nextLink", "previousLink", "previous", "answered"}
  BY DEF HasLink
<1> HIDE DEF step, read
<1>3. http[r] \in Call
  BY DEF TypedInv, CallsTyped
<1>4. /\ DOMAIN http' = DOMAIN http /\ \A s \in DOMAIN http : s # r => http'[s] = http[s]
      /\ http'[r] = [http[r] EXCEPT !.at = step, !.read = read]
  BY <1>1
<1>5. /\ http'[r].at = step /\ http'[r].count = http[r].count
      /\ \A f \in {"controller", "chat", "page", "limit", "rows", "known", "met", "after",
                   "undisturbed"} : http'[r][f] = http[r][f]
  BY <1>3, <1>4 DEF Call
<1>6. CountOf(r)' = CountOf(r)
  BY <1>1, <1>5 DEF CountOf
<1>7. http[r].at \in Listed /\ http[r].at # "answered" /\ http'[r].at # "list"
  BY <1>1, <1>5 DEF Listed
<1> QED
  BY <1>1, <1>4, <1>5, <1>6, <1>7, AloneOwn

\* The links are made.
LEMMA AloneNextLink ==
  ASSUME SharingInv, TypedInv, TypedInv', AloneInv, NEW r \in DOMAIN http, NextLink(r)
  PROVE  AloneInv'
<1> DEFINE step == IF Crashes(r, 1) THEN "crashed" ELSE "previous"
           link == IF Crashes(r, 1) THEN http[r].next ELSE MadeLink(r, 1)
           read == http[r].read \cup {Shared(r).page.of, Shared(r).request}
<1>1. /\ http[r].at = "nextLink" /\ UNCHANGED <<tables, paginator>>
      /\ http' = [http EXCEPT ![r].at = step, ![r].next = link, ![r].read = read]
      /\ step \in {"crashed", "previous"}
  BY DEF NextLink
<1> HIDE DEF step, link, read
<1>3. http[r] \in Call
  BY DEF TypedInv, CallsTyped
<1>4. /\ DOMAIN http' = DOMAIN http /\ \A s \in DOMAIN http : s # r => http'[s] = http[s]
      /\ http'[r] = [http[r] EXCEPT !.at = step, !.next = link, !.read = read]
  BY <1>1
<1>5. /\ http'[r].at = step /\ http'[r].count = http[r].count
      /\ \A f \in {"controller", "chat", "page", "limit", "rows", "known", "met", "after",
                   "undisturbed"} : http'[r][f] = http[r][f]
  BY <1>3, <1>4 DEF Call
<1>6. CountOf(r)' = CountOf(r)
  BY <1>1, <1>5 DEF CountOf
<1>7. http[r].at \in Listed /\ http[r].at # "answered" /\ http'[r].at # "list"
  BY <1>1, <1>5 DEF Listed
<1> QED
  BY <1>1, <1>4, <1>5, <1>6, <1>7, AloneOwn

\* The link to the previous page, in the same way.
LEMMA AlonePreviousLink ==
  ASSUME SharingInv, TypedInv, TypedInv', AloneInv, NEW r \in DOMAIN http, PreviousLink(r)
  PROVE  AloneInv'
<1> DEFINE step == IF Crashes(r, -1) THEN "crashed" ELSE "answered"
           link == IF Crashes(r, -1) THEN http[r].previous ELSE MadeLink(r, -1)
           read == http[r].read \cup {Shared(r).page.of, Shared(r).request}
<1>1. /\ http[r].at = "previousLink" /\ UNCHANGED <<tables, paginator>>
      /\ http' = [http EXCEPT ![r].at = step, ![r].previous = link, ![r].read = read]
      /\ step \in {"crashed", "answered"}
  BY DEF PreviousLink
<1> HIDE DEF step, link, read
<1>3. http[r] \in Call
  BY DEF TypedInv, CallsTyped
<1>4. /\ DOMAIN http' = DOMAIN http /\ \A s \in DOMAIN http : s # r => http'[s] = http[s]
      /\ http'[r] = [http[r] EXCEPT !.at = step, !.previous = link, !.read = read]
  BY <1>1
<1>5. /\ http'[r].at = step /\ http'[r].count = http[r].count
      /\ \A f \in {"controller", "chat", "page", "limit", "rows", "known", "met", "after",
                   "undisturbed"} : http'[r][f] = http[r][f]
  BY <1>3, <1>4 DEF Call
<1>6. CountOf(r)' = CountOf(r)
  BY <1>1, <1>5 DEF CountOf
<1>7. http[r].at \in Listed /\ http[r].at # "answered" /\ http'[r].at # "list"
  BY <1>1, <1>5 DEF Listed
<1> QED
  BY <1>1, <1>4, <1>5, <1>6, <1>7, AloneOwn

\* A request enters its controller: those that are there already have now met it.
LEMMA AlonePaginate ==
  ASSUME SharingInv, TypedInv, TypedInv', AloneInv, NEW r \in DOMAIN http, Paginate(r)
  PROVE  AloneInv'
<1> DEFINE c == http[r].controller
<1>1. /\ http[r].at = "paginate" /\ http'[r].at = "count"
      /\ DOMAIN http' = DOMAIN http
      /\ \A s \in DOMAIN http :
           /\ s # r => http'[s].at = http[s].at
           /\ http[s].met \subseteq http'[s].met
           /\ \A f \in {"controller", "user", "chat", "page", "limit", "rows", "count", "next",
                        "known", "after", "undisturbed"} : http'[s][f] = http[s][f]
      /\ UNCHANGED tables
      /\ paginator' = [paginator EXCEPT ![c].request = r]
  BY EnterFacts
<1>2. MessagesStep /\ ToSet(messages) \subseteq ToSet(messages')
  BY <1>1, TablesStay DEF TypedInv, tables
<1>3. \A d \in Controllers : paginator'[d].page = paginator[d].page
  BY <1>1 DEF TypedInv, PaginatorsTyped
<1>4. \A s \in DOMAIN http : s \in http[s].met /\ http[s].controller \in Controllers
  BY DEF SharingInv, Together, Shape
<1>5. ASSUME NEW s \in DOMAIN http
      PROVE  Stays(s)
  <2>1. \A f \in {"controller", "user", "chat", "page", "limit", "rows", "count", "next",
                  "known", "after", "undisturbed"} : http'[s][f] = http[s][f]
    BY <1>1
  <2>2. /\ http'[s].controller = http[s].controller /\ http'[s].count = http[s].count
        /\ http'[s].next = http[s].next /\ http'[s].undisturbed = http[s].undisturbed
    BY <2>1, Zenon
  <2>3. \A f \in {"controller", "chat", "page", "limit", "rows", "known", "after"} :
          http'[s][f] = http[s][f]
    BY <2>1
  <2>4. Shared(s).page' = Shared(s).page
    BY <1>3, <1>4, <2>2 DEF Shared
  <2>5. Lone(s)' => Lone(s)
    BY <1>1, <1>4 DEF Lone
  <2>6. /\ http'[s].at = "list" => http[s].at = "list"
        /\ http'[s].at \in Listed => http'[s].at = http[s].at
        /\ http[s].at = "answered" => http'[s].at = "answered"
    BY <1>1 DEF Listed
  <2>7. http'[s].at \in Listed => CountOf(s)' = CountOf(s)
    BY <2>2, <2>4, <2>6 DEF CountOf
  <2> QED
    BY <1>1, <1>2, <2>2, <2>3, <2>4, <2>5, <2>6, <2>7 DEF Stays
<1> QED
  BY <1>1, <1>2, <1>5, AllStay

\* A step of a request that is inside: the others stay, for one that is inside
\* together with it is not alone.
LEMMA OthersStay ==
  ASSUME SharingInv, TypedInv, NEW r \in DOMAIN http, http[r].at \in Inside, UNCHANGED tables,
         DOMAIN http' = DOMAIN http, \A s \in DOMAIN http : s # r => http'[s] = http[s],
         \A d \in Controllers : d # http[r].controller => paginator'[d] = paginator[d],
         NEW s \in DOMAIN http, s # r
  PROVE  Stays(s)
<1>1. ToSet(messages) \subseteq ToSet(messages')
  BY TablesStay DEF TypedInv, tables
<1>2. http[s].controller \in Controllers
  BY DEF SharingInv, Shape
<1>3. Lone(s) /\ http[s].at \in Inside => http[s].controller # http[r].controller
  BY DEF SharingInv, Together, Lone
<1>4. Lone(s) /\ http[s].at \in Inside => Shared(s).page' = Shared(s).page
  BY <1>2, <1>3 DEF Shared
<1>5. Lone(s)' = Lone(s)
  BY DEF Lone
<1>6. Lone(s) => CountOf(s)' = CountOf(s)
  BY <1>4 DEF CountOf, Inside
<1> QED
  BY <1>1, <1>4, <1>5, <1>6 DEF Stays, Inside

\* The rows are counted: those that were there when the request came are all
\* counted, but for those that have been deleted.
LEMMA AloneCount ==
  ASSUME SharingInv, TypedInv, TypedInv', AloneInv, NEW r \in DOMAIN http, Count(r)
  PROVE  AloneInv'
<1> DEFINE q == http[r]
           c == http[r].controller
           count == Len(Query(http[r]))
           page == PageOf(r, count)
<1>1. /\ q.at = "count" /\ c \in Controllers /\ count \in Nat
      /\ UNCHANGED tables
      /\ \/ GoTo(r, "refused") /\ UNCHANGED paginator
         \/ /\ GoTo(r, "list")
            /\ q.page \in 1 .. Pages(SizeOf(q), count)
            /\ paginator' = [paginator EXCEPT ![c].page = page]
            /\ page \in PageObject
  BY CountFacts
<1>2. CASE GoTo(r, "refused") /\ UNCHANGED paginator
  BY <1>1, <1>2, AloneGoTo
<1>3. CASE /\ GoTo(r, "list")
           /\ q.page \in 1 .. Pages(SizeOf(q), count)
           /\ paginator' = [paginator EXCEPT ![c].page = page]
           /\ page \in PageObject
  <2>1. q \in Call /\ "list" \in Places
    BY DEF TypedInv, CallsTyped, Places, Inside
  <2>2. /\ DOMAIN http' = DOMAIN http /\ \A s \in DOMAIN http : s # r => http'[s] = http[s]
        /\ http'[r] = [q EXCEPT !.at = "list"]
    BY <1>3 DEF GoTo
  <2>3. /\ http'[r].at = "list"
        /\ \A f \in {"controller", "chat", "page", "limit", "known", "after", "undisturbed"} :
             http'[r][f] = q[f]
    BY <2>1, <2>2 DEF Call
  <2>4. /\ http'[r].controller = c /\ http'[r].chat = q.chat /\ http'[r].page = q.page
        /\ http'[r].limit = q.limit /\ http'[r].known = q.known /\ http'[r].after = q.after
        /\ http'[r].undisturbed = q.undisturbed
    BY <2>3, Zenon
  <2>5. SizeOf(http'[r]) = SizeOf(q)
    BY <2>4 DEF SizeOf
  <2> HIDE DEF page
  <2>6. /\ paginator'[c].page = page
        /\ \A d \in Controllers : d # c => paginator'[d] = paginator[d]
    BY <1>1, <1>3 DEF TypedInv, PaginatorsTyped
  <2>7. /\ page.bottom = Bottom(q.page, SizeOf(q)) /\ page.top = Top(q.page, SizeOf(q), count)
        /\ page.count = count /\ page.rows = Unread
    BY DEF page, PageOf
  <2>8. ASSUME c = "messages"
        PROVE  Cardinality(Old(q)) <= count /\ count = Cardinality(Of(q.chat))
    <3>1. count = Cardinality(Of(q.chat)) /\ IsFiniteSet(Of(q.chat))
      BY <1>1, <2>8, QueryFacts, MessagesOfFacts DEF TypedInv
    <3>2. Old(q) \subseteq Of(q.chat)
      BY DEF Old
    <3> QED
      BY <3>1, <3>2, Fewer
  <2>9. q.page \in Nat \ {0}
    <3>1. Pages(SizeOf(q), count) \in Nat
      BY <1>1, SizeFacts, PagesFacts
    <3> QED
      BY <1>3, <3>1
  <2> HIDE DEF count
  <2>10. PageOfOwn(r)'
    <3>1. Shared(r).page' = page
      BY <2>4, <2>6 DEF Shared
    <3>2. Of(http[r].chat)' = Of(q.chat) /\ Old(http[r])' = Old(q)
      BY <1>1, <2>4 DEF Of, Old, tables
    <3>3. /\ page.bottom = Bottom(http'[r].page, SizeOf(http'[r]))
          /\ page.top = Top(http'[r].page, SizeOf(http'[r]), page.count)
      BY <2>4, <2>5, <2>7
    <3>4. c = "messages" => /\ Cardinality(Old(q)) <= page.count
                            /\ page.count <= Cardinality(Of(q.chat))
      BY <1>1, <2>7, <2>8
    <3> QED
      BY <2>4, <2>7, <2>9, <3>1, <3>2, <3>3, <3>4 DEF PageOfOwn
  <2>11. OwnParts(r)' /\ \A s \in DOMAIN http : Follows(s, r)'
    BY <2>3, <2>10 DEF OwnParts, Follows, Listed
  <2>12. \A s \in DOMAIN http : s # r => Stays(s)
    BY <1>1, <2>2, <2>6, OthersStay DEF Inside
  <2>13. MessagesStep
    BY <1>1, TablesStay DEF TypedInv, tables
  <2>14. /\ q.at # "answered" /\ http'[r].known <= stored /\ http'[r].at # "answered"
         /\ \A s \in http'[r].after : s \in DOMAIN http /\ s # r /\ http[s].at = "answered"
    BY <1>1, <2>3, <2>4 DEF AloneInv, CameBefore
  <2>15. DOMAIN http' = DOMAIN http \cup {r}
    BY <2>2
  <2> QED
    BY <2>11, <2>12, <2>13, <2>14, <2>15, AloneFrom
<1> QED
  BY <1>1, <1>2, <1>3

\* Of two finite sets the greater has no fewer elements of its own.
LEMMA GreaterHasMoreOfItsOwn ==
  ASSUME NEW A, NEW B, IsFiniteSet(A), IsFiniteSet(B), Cardinality(A) <= Cardinality(B)
  PROVE  Cardinality(A \ B) <= Cardinality(B \ A)
<1> DEFINE both == Cardinality(A \cap B)
<1>1. Cardinality(A \ B) = Cardinality(A) - both
  BY FS_Difference
<1>2. Cardinality(B \ A) = Cardinality(B) - both
  <2>1. Cardinality(B \ A) = Cardinality(B) - Cardinality(B \cap A) /\ B \cap A = A \cap B
    BY FS_Difference
  <2> QED
    BY <2>1
<1>3. Cardinality(A) \in Nat /\ Cardinality(B) \in Nat /\ both \in Nat
  BY FS_Intersection, FS_CardinalityType
<1> HIDE DEF both
<1> QED
  BY <1>1, <1>2, <1>3

\* A part that lacks two elements.
LEMMA LackingTwo ==
  ASSUME NEW T, IsFiniteSet(T), NEW S \in SUBSET T, NEW x \in T, NEW y \in T, x # y,
         x \notin S, y \notin S
  PROVE  Cardinality(S) + 2 <= Cardinality(T)
<1>1. IsFiniteSet(T \ {x}) /\ Cardinality(T \ {x}) = Cardinality(T) - 1
  BY FS_RemoveElement
<1>2. /\ IsFiniteSet((T \ {x}) \ {y})
      /\ Cardinality((T \ {x}) \ {y}) = Cardinality(T \ {x}) - 1
  <2>1. y \in T \ {x}
    OBVIOUS
  <2> QED
    BY <1>1, <2>1, FS_RemoveElement
<1>3. S \subseteq (T \ {x}) \ {y}
  OBVIOUS
<1>4. /\ Cardinality(S) \in Nat /\ Cardinality((T \ {x}) \ {y}) \in Nat
      /\ Cardinality(S) <= Cardinality((T \ {x}) \ {y})
  BY <1>2, <1>3, Fewer
<1>5. Cardinality(T) \in Nat
  BY FS_CardinalityType
<1> QED
  BY <1>1, <1>2, <1>4, <1>5

\* The rows that a request which is alone is about to list.
LEMMA RowsWhenAlone ==
  ASSUME SharingInv, TypedInv, NEW r \in DOMAIN http, http[r].at = "list", Lone(r), PageOfOwn(r)
  PROVE  LET q    == http[r]
             size == SizeOf(q)
             page == Shared(r).page
             all  == Query(q)
             rows == RowsOf(page)
             skipped == (q.page - 1) * size
             end  == IF page.top < Len(all) THEN page.top ELSE Len(all)
         IN  /\ skipped \in Nat /\ skipped + size = q.page * size
             /\ page.count \in Nat /\ page.top \in Nat
             /\ page.top = IF skipped + size >= page.count THEN page.count ELSE skipped + size
             /\ all \in Seq(Row) /\ rows \in Seq(Row)
             /\ Len(rows) = IF skipped < end THEN end - skipped ELSE 0
             /\ \A i \in DOMAIN rows : skipped + i \in DOMAIN all /\ rows[i] = all[skipped + i]
             /\ ToSet(rows) \subseteq ToSet(all)
<1> DEFINE q    == http[r]
           size == SizeOf(q)
           page == Shared(r).page
           all  == Query(q)
           skipped == (q.page - 1) * size
<1>1. q.at \in Paged
  BY DEF Paged, Inside
<1>2. page \in PageObject /\ page.of = r /\ q.controller \in Controllers
  <2>1. page.of \in q.met
    BY <1>1, ReadsOfThoseMet
  <2> QED
    BY <1>1, <2>1, PageReadTyped DEF Lone, SharingInv, Shape
<1>3. /\ page.bottom \in Nat /\ page.top \in Nat /\ page.count \in Nat
  BY <1>2 DEF PageObject
<1>4. all \in Seq(Row)
  BY <1>2, QueryFacts DEF TypedInv
<1>5. /\ q.page \in Nat \ {0} /\ page.bottom = skipped /\ page.rows = Unread
      /\ page.top = IF skipped + size >= page.count THEN page.count ELSE skipped + size
  BY DEF PageOfOwn, Bottom, Top
<1>6. size \in Nat \ {0}
  BY SizeFacts
<1> HIDE DEF size
<1>7. skipped \in Nat /\ skipped + size = q.page * size
  BY <1>5, <1>6
<1>8. RowsOf(page) = Cut(all, skipped, page.top)
  BY <1>2, <1>5 DEF RowsOf, Cut
<1> HIDE DEF q, page, all, skipped
<1>9. LET end == IF page.top < Len(all) THEN page.top ELSE Len(all)
          cut == Cut(all, skipped, page.top)
      IN  /\ cut \in Seq(Row)
          /\ Len(cut) = IF skipped < end THEN end - skipped ELSE 0
          /\ \A i \in DOMAIN cut : skipped + i \in DOMAIN all /\ cut[i] = all[skipped + i]
          /\ ToSet(cut) \subseteq ToSet(all)
  BY <1>3, <1>4, <1>7, CutFacts
<1> QED
  BY <1>3, <1>4, <1>5, <1>7, <1>8, <1>9 DEF q, page, all, skipped, size

\* In a history read while alone, the old messages that are lacking are no more
\* than the new ones: a page that is to hold all that were counted holds at
\* least as many as there were old ones.
LEMMA RowsDisplace ==
  ASSUME SharingInv, TypedInv, NEW r \in DOMAIN http, http[r].at = "list", Lone(r), PageOfOwn(r),
         http[r].controller = "messages", http[r].page = 1,
         Shared(r).page.count <= SizeOf(http[r])
  PROVE  LET q    == http[r]
             rows == ToSet(RowsOf(Shared(r).page))
         IN  Cardinality({m \in Of(q.chat) : m.id <= q.known /\ m \notin rows}) <=
               Cardinality({m \in rows : m.id > q.known})
<1> DEFINE q     == http[r]
           size  == SizeOf(q)
           page  == Shared(r).page
           all   == Query(q)
           rows  == RowsOf(page)
           skipped == (q.page - 1) * size
           end   == IF page.top < Len(all) THEN page.top ELSE Len(all)
           of    == Of(q.chat)
           old   == Old(q)
<1>1. /\ page.count \in Nat /\ page.top \in Nat
      /\ page.top = IF skipped + size >= page.count THEN page.count ELSE skipped + size
      /\ all \in Seq(Row) /\ rows \in Seq(Row)
      /\ Len(rows) = IF skipped < end THEN end - skipped ELSE 0
      /\ \A i \in DOMAIN rows : skipped + i \in DOMAIN all /\ rows[i] = all[skipped + i]
      /\ ToSet(rows) \subseteq ToSet(all)
  BY RowsWhenAlone, Zenon
<1>2. /\ all = MessagesOf(q.chat) /\ ToSet(all) = of /\ IsFiniteSet(of) /\ Cardinality(of) = Len(all)
      /\ \A i, j \in DOMAIN all : i < j => all[j].id < all[i].id
      /\ \A i \in DOMAIN all : all[i].id \in Nat
  BY QueryFacts, MessagesOfFacts DEF TypedInv, SharingInv, Shape
<1>3. size \in Nat \ {0}
  BY SizeFacts
<1>4. skipped = 0
  BY <1>3
<1>5. /\ old = {m \in of : m.id <= q.known} /\ Cardinality(old) <= page.count
      /\ q.known \in Nat
  BY DEF PageOfOwn, Old, TypedInv, CallsTyped, Call
<1> HIDE DEF old, of, all, rows, skipped, page, size
<1>6. Len(all) \in Nat /\ DOMAIN all = 1 .. Len(all) /\ DOMAIN rows = 1 .. Len(rows)
  BY <1>1
<1>7. page.top = page.count
  BY <1>1, <1>3, <1>4 DEF page, size
<1>8. Len(rows) = end /\ end \in Nat
  BY <1>1, <1>4, <1>6
<1>9. \A i \in 1 .. end : i \in DOMAIN all /\ rows[i] = all[i]
  BY <1>1, <1>4, <1>6, <1>8
<1>10. ASSUME NEW i \in 1 .. end, NEW j \in 1 .. end, rows[i] = rows[j]
       PROVE  i = j
  <2> HIDE DEF end
  <2>1. /\ i \in DOMAIN all /\ j \in DOMAIN all /\ i \in Nat /\ j \in Nat
        /\ all[i] = all[j] /\ all[i].id \in Nat
    BY <1>2, <1>6, <1>9, <1>10
  <2>2. ~(i < j) /\ ~(j < i)
    BY <1>2, <2>1
  <2> QED
    BY <2>1, <2>2
<1> DEFINE new == ToSet(rows)
<1>11. /\ \A i \in 1 .. end : rows[i] \in new
       /\ \A m \in new : \E i \in 1 .. end : m = rows[i]
  BY <1>6, <1>8 DEF ToSet
<1>12. /\ new \subseteq of /\ \A m \in of : m.id \in Nat
  BY <1>1, <1>2 DEF ToSet
<1> HIDE DEF new, end
<1>13. IsFiniteSet(new) /\ Cardinality(new) = end
  <2>1. \A i, j \in 1 .. Len(rows) : rows[i] = rows[j] => i = j
    BY <1>8, <1>10
  <2>2. IsFiniteSet(ToSet(rows)) /\ Cardinality(ToSet(rows)) = Len(rows)
    BY <1>1, <2>1, ListCount
  <2> QED
    BY <1>8, <2>2 DEF new
<1>14. /\ IsFiniteSet(old) /\ Cardinality(old) \in Nat /\ Cardinality(old) <= Len(all)
  BY <1>2, <1>5, Fewer
<1>15. Cardinality(old) <= Cardinality(new)
  BY <1>1, <1>5, <1>6, <1>7, <1>13, <1>14 DEF end
<1>16. Cardinality(old \ new) <= Cardinality(new \ old)
  BY <1>13, <1>14, <1>15, GreaterHasMoreOfItsOwn
<1>17. old \ new = {m \in of : m.id <= q.known /\ m \notin new}
  BY <1>5
<1>18. new \ old = {m \in new : m.id > q.known}
  BY <1>5, <1>12
<1> QED
  BY <1>16, <1>17, <1>18 DEF new, rows, of, page

\* A page that is not the last one, of a table from which nothing has been
\* deleted, ends with the message that has its number among the newest.
LEMMA RowsReach ==
  ASSUME SharingInv, TypedInv, NEW r \in DOMAIN http, http[r].at = "list", Lone(r), PageOfOwn(r),
         http[r].controller = "messages", http[r].undisturbed,
         http[r].page * SizeOf(http[r]) < Shared(r).page.count
  PROVE  LET q    == http[r]
             rows == RowsOf(Shared(r).page)
         IN  /\ rows # << >> /\ Last(rows) \in Of(q.chat)
             /\ Cardinality(Since(q.chat, Last(rows))) = q.page * SizeOf(q)
<1> DEFINE q     == http[r]
           size  == SizeOf(q)
           page  == Shared(r).page
           all   == Query(q)
           rows  == RowsOf(page)
           skipped == (q.page - 1) * size
           upto  == q.page * size
           end   == IF page.top < Len(all) THEN page.top ELSE Len(all)
<1>0. PICK k : k = q.chat
  OBVIOUS
<1>1. /\ skipped \in Nat /\ skipped + size = upto
      /\ page.count \in Nat /\ page.top \in Nat
      /\ page.top = IF skipped + size >= page.count THEN page.count ELSE skipped + size
      /\ all \in Seq(Row) /\ rows \in Seq(Row)
      /\ Len(rows) = IF skipped < end THEN end - skipped ELSE 0
      /\ \A i \in DOMAIN rows : skipped + i \in DOMAIN all /\ rows[i] = all[skipped + i]
  BY RowsWhenAlone, Zenon
<1>2. all = MessagesOf(k) /\ ToSet(all) = Of(k) /\ Cardinality(Of(k)) = Len(all)
  BY <1>0, QueryFacts, MessagesOfFacts DEF TypedInv, SharingInv, Shape
<1>3. size \in Nat \ {0}
  BY SizeFacts
<1>4. page.count <= Len(all) /\ upto < page.count
  BY <1>0, <1>2 DEF PageOfOwn
<1> HIDE DEF all, rows, skipped, page, size, upto
<1>5. Len(all) \in Nat /\ DOMAIN all = 1 .. Len(all) /\ DOMAIN rows = 1 .. Len(rows)
  BY <1>1
<1>6. page.top = upto /\ end = upto /\ upto \in Nat
  <2>1. ASSUME NEW u \in Nat, NEW s \in Nat, NEW z \in Nat, NEW c \in Nat, NEW l \in Nat, NEW t \in Nat,
               u = s + z, u < c, c <= l, t = IF s + z >= c THEN c ELSE s + z
        PROVE  t = u /\ (IF t < l THEN t ELSE l) = u
    BY <2>1
  <2>2. upto \in Nat /\ upto = skipped + size
    BY <1>1, <1>3
  <2>3. /\ skipped \in Nat /\ size \in Nat /\ page.count \in Nat /\ page.top \in Nat
        /\ page.top = IF skipped + size >= page.count THEN page.count ELSE skipped + size
    BY <1>1, <1>3
  <2>4. upto < page.count /\ page.count <= Len(all) /\ Len(all) \in Nat
    BY <1>4, <1>5
  <2>5. page.top = upto /\ (IF page.top < Len(all) THEN page.top ELSE Len(all)) = upto
    BY <2>1, <2>2, <2>3, <2>4
  <2> QED
    BY <2>2, <2>5
<1> HIDE DEF end
<1>7. Len(rows) = size
  BY <1>1, <1>3, <1>6
<1>8. rows # << >> /\ Last(rows) = rows[size] /\ size \in DOMAIN rows
  <2>1. Last(rows) = rows[Len(rows)]
    BY DEF Last
  <2>2. size \in DOMAIN rows
    BY <1>3, <1>5, <1>7
  <2> QED
    BY <1>1, <1>3, <1>7, <2>1, <2>2
<1>9. upto \in DOMAIN all /\ Last(rows) = all[upto]
  BY <1>1, <1>8
<1>10. Last(rows) \in Of(k)
  BY <1>2, <1>9 DEF ToSet
<1>11. Cardinality({m \in Of(k) : m.id >= all[upto].id}) = upto
  <2>1. upto \in DOMAIN MessagesOf(k)
    BY <1>2, <1>9
  <2>2. Cardinality({m \in Of(k) : m.id >= MessagesOf(k)[upto].id}) = upto
    BY <2>1, FirstMessages DEF TypedInv
  <2> QED
    BY <1>2, <2>2
<1>12. Cardinality(Since(k, Last(rows))) = upto
  BY <1>9, <1>11 DEF Since
<1> QED
  BY <1>0, <1>8, <1>10, <1>12 DEF rows, page, upto, size

\* The page after one that reaches as deep as its number says begins with the
\* next message at the latest.
LEMMA RowsFollow ==
  ASSUME SharingInv, TypedInv, NEW r \in DOMAIN http, http[r].at = "list", Lone(r), PageOfOwn(r),
         http[r].controller = "messages",
         RowsOf(Shared(r).page) # << >>,
         NEW x \in Of(http[r].chat),
         Cardinality(Since(http[r].chat, x)) >= (http[r].page - 1) * SizeOf(http[r]),
         NEW m \in Of(http[r].chat)
  PROVE  ~(Head(RowsOf(Shared(r).page)).id < m.id /\ m.id < x.id)
<1> DEFINE q     == http[r]
           size  == SizeOf(q)
           page  == Shared(r).page
           all   == Query(q)
           rows  == RowsOf(page)
           skipped == (q.page - 1) * size
<1>0. PICK k : k = q.chat
  OBVIOUS
<1>1. /\ skipped \in Nat
      /\ all \in Seq(Row) /\ rows \in Seq(Row)
      /\ \A i \in DOMAIN rows : skipped + i \in DOMAIN all /\ rows[i] = all[skipped + i]
  BY RowsWhenAlone, Zenon
<1>2. /\ all = MessagesOf(k) /\ ToSet(all) = Of(k) /\ IsFiniteSet(Of(k))
      /\ \A i \in DOMAIN all : all[i].id \in Nat
  BY <1>0, QueryFacts, MessagesOfFacts DEF TypedInv, SharingInv, Shape
<1>3. rows # << >> /\ x \in Of(k) /\ m \in Of(k) /\ Cardinality(Since(k, x)) >= skipped
  BY <1>0
<1> HIDE DEF all, rows, skipped, page, size
<1> DEFINE y == Head(rows)
<1>4. 1 \in DOMAIN rows /\ y = rows[1]
  BY <1>1, <1>3
<1>5. skipped + 1 \in DOMAIN all /\ y = all[skipped + 1]
  BY <1>1, <1>4
<1>6. y \in Of(k) /\ \A n \in Of(k) : n.id \in Nat
  BY <1>2, <1>5 DEF ToSet
<1>7. Cardinality(Since(k, y)) = skipped + 1
  <2>1. Cardinality({n \in Of(k) : n.id >= MessagesOf(k)[skipped + 1].id}) = skipped + 1
    BY <1>2, <1>5, FirstMessages DEF TypedInv
  <2> QED
    BY <1>2, <1>5, <2>1 DEF Since
<1> HIDE DEF y
<1>8. ASSUME y.id < m.id, m.id < x.id
      PROVE  FALSE
  <2>1. /\ Since(k, x) \in SUBSET Since(k, y) /\ y \in Since(k, y) /\ m \in Since(k, y)
        /\ y # m /\ y \notin Since(k, x) /\ m \notin Since(k, x)
    BY <1>3, <1>6, <1>8 DEF Since
  <2>2. IsFiniteSet(Since(k, y)) /\ IsFiniteSet(Since(k, x))
    BY <1>2, FS_Subset DEF Since
  <2>3. Cardinality(Since(k, x)) + 2 <= Cardinality(Since(k, y)) /\ Cardinality(Since(k, x)) \in Nat
    BY <2>1, <2>2, LackingTwo, FS_CardinalityType
  <2> QED
    BY <1>1, <1>3, <1>7, <2>3
<1> QED
  BY <1>8 DEF y, rows, page

\* The rows are listed: those of its own page, if the request is alone.
LEMMA AloneList ==
  ASSUME SharingInv, TypedInv, TypedInv', AloneInv, NEW r \in DOMAIN http, List(r)
  PROVE  AloneInv'
<1> DEFINE q == http[r]
           c == http[r].controller
           page == Shared(r).page
           rows == RowsOf(page)
<1>0. PICK k : k = q.chat
  OBVIOUS
<1>1. /\ q.at = "list" /\ http'[r].at = "serialize" /\ c \in Controllers
      /\ page \in PageObject
      /\ UNCHANGED tables
      /\ DOMAIN http' = DOMAIN http /\ \A s \in DOMAIN http : s # r => http'[s] = http[s]
      /\ http'[r] \in Call /\ http'[r].rows = rows
      /\ \A f \in {"controller", "user", "chat", "page", "limit", "count", "next",
                   "known", "met", "after", "undisturbed"} : http'[r][f] = http[r][f]
      /\ paginator'[c].page = [page EXCEPT !.rows = rows]
      /\ \A d \in Controllers : d # c => paginator'[d] = paginator[d]
  BY ListFacts
<1>2. /\ http'[r].controller = c /\ http'[r].chat = k /\ http'[r].page = q.page
      /\ http'[r].limit = q.limit /\ http'[r].known = q.known /\ http'[r].after = q.after
      /\ http'[r].met = q.met /\ http'[r].undisturbed = q.undisturbed
  BY <1>0, <1>1, Zenon
<1>3. SizeOf(http'[r]) = SizeOf(q) /\ (Lone(r)' <=> Lone(r))
  BY <1>2 DEF SizeOf, Lone
<1>4. CountOf(r)' = page.count
  <2>1. paginator'[c].page.count = page.count
    BY <1>1 DEF PageObject
  <2> QED
    BY <1>1, <1>2, <2>1 DEF CountOf, Shared
<1>5. /\ Of(k)' = Of(k) /\ \A x : Since(k, x)' = Since(k, x)
      /\ Of(http[r].chat)' = Of(k)
  BY <1>1, <1>2 DEF Of, Since, tables
<1>6. Lone(r) => PageOfOwn(r)
  BY <1>1 DEF AloneInv, OwnParts
<1>7. ASSUME Lone(r)
      PROVE  /\ Fits(http'[r])
             /\ c = "messages" => Displaces(r)' /\ Reaches(r)'
  <2>1. PageOfOwn(r)
    BY <1>6, <1>7
  <2>2. Fits(http'[r])
    <3> DEFINE size == SizeOf(q)
               all  == Query(q)
               skipped == (q.page - 1) * size
               end  == IF page.top < Len(all) THEN page.top ELSE Len(all)
    <3>1. /\ skipped \in Nat /\ page.count \in Nat /\ page.top \in Nat
          /\ page.top = IF skipped + size >= page.count THEN page.count ELSE skipped + size
          /\ all \in Seq(Row)
          /\ Len(rows) = IF skipped < end THEN end - skipped ELSE 0
          /\ ToSet(rows) \subseteq ToSet(all)
      BY <1>1, <1>7, <2>1, RowsWhenAlone, Zenon
    <3>2. size \in Nat \ {0}
      BY SizeFacts
    <3>3. q.controller # "chats" => \A row \in ToSet(all) : row.chat = q.chat
      BY <1>1, QueryFacts DEF TypedInv
    <3>4. q.page \in Nat \ {0}
      BY <2>1 DEF PageOfOwn
    <3> HIDE DEF size, all, skipped, rows, page
    <3>5. Len(all) \in Nat
      BY <3>1
    <3>6. Len(rows) <= size
      <4>1. page.top <= skipped + size
        BY <3>1, <3>2
      <4>2. end \in Nat /\ end <= skipped + size
        BY <3>1, <3>2, <3>5, <4>1
      <4> HIDE DEF end
      <4> QED
        BY <3>1, <3>2, <4>2
    <3>7. c # "chats" => \A row \in ToSet(rows) : row.chat = k
      BY <1>0, <3>1, <3>3
    <3> QED
      BY <1>1, <1>2, <1>3, <3>4, <3>6, <3>7 DEF Fits, size
  <2>3. ASSUME c = "messages"
        PROVE  Displaces(r)'
    <3> SUFFICES ASSUME q.page = 1, page.count <= SizeOf(q)
                 PROVE  Cardinality(Missing(http[r])') <= Cardinality(NewOnes(http[r])')
      BY <1>2, <1>3, <1>4 DEF Displaces
    <3>1. Cardinality({m \in Of(q.chat) : m.id <= q.known /\ m \notin ToSet(rows)}) <=
            Cardinality({m \in ToSet(rows) : m.id > q.known})
      BY <1>1, <1>7, <2>1, <2>3, RowsDisplace, Zenon
    <3> HIDE DEF rows
    <3>2. Missing(http[r])' = {m \in Of(k) : m.id <= q.known /\ m \notin ToSet(rows)}
      BY <1>1, <1>2, <1>5 DEF Missing, Of, tables
    <3>3. NewOnes(http[r])' = {m \in ToSet(rows) : m.id > q.known}
      BY <1>1, <1>2 DEF NewOnes
    <3> QED
      BY <1>0, <3>1, <3>2, <3>3
  <2>4. ASSUME c = "messages"
        PROVE  Reaches(r)'
    <3>1. PICK x : x = Last(rows)
      OBVIOUS
    <3>2. /\ Last(http'[r].rows) = x
          /\ Since(http[r].chat, Last(http[r].rows))' = Since(k, x)
      BY <1>1, <1>2, <1>5, <3>1 DEF Since
    <3> SUFFICES ASSUME q.undisturbed, q.page * SizeOf(q) < page.count
                 PROVE  /\ rows # << >> /\ x \in Of(k)
                        /\ Cardinality(Since(k, x)) >= q.page * SizeOf(q)
      BY <1>1, <1>2, <1>3, <1>4, <1>5, <3>2 DEF Reaches
    <3>3. /\ rows # << >> /\ Last(rows) \in Of(q.chat)
          /\ Cardinality(Since(q.chat, Last(rows))) = q.page * SizeOf(q)
      BY <1>1, <1>7, <2>1, <2>4, RowsReach, Zenon
    <3>4. q.page * SizeOf(q) \in Nat
      <4>1. q.page \in Nat /\ SizeOf(q) \in Nat
        BY <2>1, SizeFacts DEF PageOfOwn
      <4> QED
        BY <4>1
    <3> QED
      BY <1>0, <3>1, <3>3, <3>4
  <2> QED
    BY <2>2, <2>3, <2>4
<1>8. OwnParts(r)'
  BY <1>1, <1>2, <1>3, <1>7 DEF OwnParts
<1>9. ASSUME NEW s \in DOMAIN http, s # r
      PROVE  Follows(s, r)'
  <2> DEFINE a == http[s]
  <2>1. http'[s] = a
    BY <1>1, <1>9
  <2> SUFFICES ASSUME {a.controller, c} = {"messages"}, a.chat = k, a.at = "answered",
                      Lone(s), Lone(r), a.undisturbed, a.next # NoLink,
                      q.page = a.page + 1, SizeOf(a) = SizeOf(q), rows # << >>,
                      NEW m \in Of(k)
               PROVE  ~(Head(rows).id < m.id /\ m.id < Last(a.rows).id)
    <3>1. Of(http[s].chat)' = Of(a.chat)
      BY <1>1, <2>1 DEF Of, tables
    <3>2. Lone(s)' <=> Lone(s)
      BY <2>1 DEF Lone
    <3>3. /\ http'[r].at \in Listed /\ http'[r].rows = rows /\ Of(http[s].chat)' = Of(a.chat)
          /\ http'[r].controller = c /\ http'[r].chat = k /\ http'[r].page = q.page
      BY <1>1, <1>2, <3>1 DEF Listed
    <3> HIDE DEF rows, page
    <3> QED
      BY <1>3, <2>1, <3>2, <3>3 DEF Follows
  <2>2. PICK x : x = Last(a.rows)
    OBVIOUS
  <2>3. x \in Of(k) /\ Cardinality(Since(k, x)) >= a.page * SizeOf(a) /\ a.page \in Nat
    <3>1. OwnParts(s)
      BY <1>9 DEF AloneInv
    <3>2. a.page \in Nat
      BY <3>1 DEF OwnParts, Fits, Listed
    <3> QED
      BY <2>2, <3>1, <3>2, LinkedIsFull
  <2>4. Cardinality(Since(k, x)) >= (q.page - 1) * SizeOf(q)
    <3>1. q.page - 1 = a.page
      BY <2>3
    <3> QED
      BY <2>3, <3>1
  <2>5. PageOfOwn(r) /\ c = "messages"
    BY <1>6
  <2>6. ~(Head(rows).id < m.id /\ m.id < x.id)
    BY <1>0, <1>1, <2>3, <2>4, <2>5, RowsFollow
  <2> QED
    BY <2>2, <2>6
<1>10. \A s \in DOMAIN http : s # r => Stays(s)
  BY <1>1, OthersStay DEF Inside
<1>11. MessagesStep
  BY <1>1, TablesStay DEF TypedInv, tables
<1>12. /\ q.at # "answered" /\ http'[r].at # "answered" /\ http'[r].known <= stored
       /\ \A s \in http'[r].after : s \in DOMAIN http /\ s # r /\ http[s].at = "answered"
  BY <1>1, <1>2 DEF AloneInv, CameBefore
<1>13. DOMAIN http' = DOMAIN http \cup {r}
  BY <1>1
<1> QED
  BY <1>8, <1>9, <1>10, <1>11, <1>12, <1>13, AloneFrom

\* Every step preserves what requests that are alone may rely on.
LEMMA AloneStep ==
  ASSUME SharingInv, TypedInv, TypedInv', AloneInv, [Next]_vars
  PROVE  AloneInv'
<1>1. CASE UNCHANGED vars
  BY <1>1, AloneStutter
<1>2. CASE TablesChange
  BY <1>2, AloneTables
<1>3. ASSUME NEW r \in DOMAIN http, Get(r)
      PROVE  AloneInv'
  BY <1>3, AloneParse, AlonePaginate, AloneCount, AloneList, AloneSerialize, AloneTotal,
     AloneHasLink, AloneNextLink, AlonePreviousLink DEF Get
<1>4. ASSUME NEW r \in Request, NEW c \in Controllers, NEW u \in User, NEW p \in Page,
             NEW l \in Limit, NEW k, Arrive(r, c, u, k, p, l)
      PROVE  AloneInv'
  BY <1>4, AloneArrive
<1> QED
  BY <1>1, <1>2, <1>3, <1>4 DEF Next

\* The whole invariant.
ListingInv == SharingInv /\ TypedInv /\ AloneInv

\* It holds of all behaviours.
LEMMA ListingInvariant == Spec => []ListingInv
<1>1. Init => ListingInv
  BY SharingInit, TypedInit, AloneInit DEF ListingInv
<1>2. ListingInv /\ [Next]_vars => ListingInv'
  <2> SUFFICES ASSUME ListingInv, [Next]_vars PROVE ListingInv'
    OBVIOUS
  <2>1. SharingInv' /\ TypedInv'
    BY SharingStep, TypedStep DEF ListingInv
  <2> QED
    BY <2>1, AloneStep DEF ListingInv
<1> QED
  BY <1>1, <1>2, PTL DEF Spec

\* The state of the tables, of the paginators and of the requests is well typed.
THEOREM ListsTyped == Spec => []TypeOK
  BY ListingInvariant, TypedIsTypeOK, PTL DEF ListingInv

\* A chat is listed once just if its user may read it: for any tables that come
\* about by creating and deleting rows.
THEOREM OnceIfReadable == Spec => []ReadableIffListedOnce
<1>1. ListingInv => ReadableIffListedOnce
  BY ListedOnce DEF ListingInv, TypedInv
<1> QED
  BY <1>1, ListingInvariant, PTL

\* A request that met no other lists rows of its chat, and no more than its
\* limit: although the slice is made of the paginator that all requests share.
THEOREM OwnRows == Spec => []OwnRowsWhenAlone
<1>1. ListingInv => OwnRowsWhenAlone
  BY DEF ListingInv, AloneInv, OwnParts, Fits, OwnRowsWhenAlone
<1> QED
  BY <1>1, ListingInvariant, PTL

\* A history that fits its page misses at most one message for each that was
\* stored while it was read.
THEOREM NewInsteadOfOld == Spec => []NewDisplacesOld
<1>1. ASSUME ListingInv, NEW r \in DOMAIN http, OnlyPage(r)
      PROVE  Cardinality(Missing(http[r])) <=
               Cardinality({m \in ToSet(http[r].rows) : m.id > http[r].known})
  <2> DEFINE q == http[r]
  <2>1. /\ q.controller = "messages" /\ q.at = "answered" /\ Lone(r) /\ q.page = 1
        /\ q.next = NoLink /\ r \in Request /\ q.count \in Nat
    BY <1>1 DEF OnlyPage, ListingInv, TypedInv, CallsTyped, Call
  <2>2. Displaces(r)
    BY <1>1, <2>1 DEF ListingInv, AloneInv, OwnParts, Listed
  <2>3. q.next = NextOf(r)
    BY <1>1, <2>1 DEF ListingInv, SharingInv, LinksSoFar, LinksOf
  <2>4. q.page + 1 \notin 1 .. Pages(SizeOf(q), q.count)
    <3>1. [request |-> r, number |-> q.page + 1] # NoLink
      BY <2>1, ListAssumption
    <3> QED
      BY <2>1, <2>3, <3>1 DEF NextOf
  <2>5. SizeOf(q) \in Nat \ {0}
    BY SizeFacts
  <2>6. ~(q.page * SizeOf(q) < q.count)
    <3>1. q.page \in Nat \ {0} /\ q.count \in Nat
      BY <2>1
    <3> QED
      BY <2>4, <2>5, <3>1, PagesFacts
  <2>7. q.count <= SizeOf(q)
    BY <2>1, <2>5, <2>6
  <2>8. CountOf(r) = q.count
    BY <2>1 DEF CountOf
  <2> QED
    BY <2>1, <2>2, <2>7, <2>8 DEF Displaces, NewOnes
<1>2. ListingInv => NewDisplacesOld
  BY <1>1 DEF NewDisplacesOld
<1> QED
  BY <1>2, ListingInvariant, PTL

\* A client that follows next misses nothing between two pages, however many
\* messages are stored between its two requests and while they run.
THEOREM NextFollowsOn == Spec => []NextPageFollowsOn
<1>1. ASSUME ListingInv, NEW r \in DOMAIN http, NEW s \in DOMAIN http, Follows(r, s)
      PROVE  LET a == http[r]  b == http[s]
             IN  /\ {a.controller, b.controller} = {"messages"} /\ a.chat = b.chat
                 /\ {a.at, b.at} = {"answered"} /\ Lone(r) /\ Lone(s)
                 /\ r \in b.after /\ a.undisturbed
                 /\ a.next # NoLink /\ b.page = a.page + 1 /\ SizeOf(a) = SizeOf(b)
                 /\ a.rows # << >> /\ b.rows # << >>
                 => \A m \in ToSet(messages) :
                      m.chat = a.chat => ~(Head(b.rows).id < m.id /\ m.id < Last(a.rows).id)
  BY <1>1 DEF Follows, Of, Listed
<1>2. ListingInv => NextPageFollowsOn
  BY <1>1 DEF NextPageFollowsOn, ListingInv, AloneInv
<1> QED
  BY <1>2, ListingInvariant, PTL
=============================================================================
