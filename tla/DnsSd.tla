------------------------------- MODULE DnsSd -------------------------------
(***************************************************************************)
(* Services on the local network: rav::dnssd::BonjourAdvertiser registers  *)
(* them, rav::dnssd::BonjourBrowser finds, resolves and forgets them       *)
(* interface by interface, and rav::RavennaBrowser tells its subscribers.  *)
(*                                                                         *)
(* The daemon between them is external: it answers every query with what   *)
(* is different from what it answered before, later, in order, and only    *)
(* while the query is there.  The browser has one query for services, and  *)
(* for each service and interface one that resolves it and one for the     *)
(* addresses of its host.                                                  *)
(***************************************************************************)
EXTENDS Naturals, Sequences, Functions

CONSTANTS
  Names,          \* of services
  Interfaces,
  Hosts,
  Subscribers,
  NoHost,
  MaxAttempts,    \* process_results_failed_attempts_ that are allowed: 10
  MaxChanges      \* bound: what may change on the network, or fail

ASSUME NamesAssumption == "any" \notin Names /\ NoHost \notin Hosts

VARIABLES
  registered,     \* registered_services_ of the advertiser: id -> name, host and TXT record
  nextId,         \* id_generator_ of the advertiser
  up,             \* the interfaces over which the browser hears the advertiser
  address,        \* the address of each host
  queries,        \* the queries of the browser, and what the daemon told it of each
  replies,        \* those that the browser has still to process
  enabled,        \* session_browser_ exists
  services,       \* services_ of the browser, by name
  attempts,       \* process_results_failed_attempts_
  subscribers,    \* subscribers_ of the RAVENNA browser
  known,          \* the sessions that a subscriber was told of
  stale,          \* history: offers that were withdrawn since their service was found, with
                  \* NoHost for a query of the address that timed out
  changes

network == <<registered, nextId, up, address, changes>>
browser == <<queries, replies, services, attempts>>
told == <<subscribers, known, enabled>>
dnsVars == <<network, browser, told, stale>>

-----------------------------------------------------------------------------
(* Maps and lists.                                                         *)

\* A map in which a key has a value, and what is left of a list.
Put(map, key, value) == [k \in DOMAIN map \cup {key} |-> IF k = key THEN value ELSE map[k]]
Only(list, wanted) ==
  LET left[n \in 0..Len(list)] ==
        IF n = 0 THEN <<>> ELSE IF list[n] \in wanted THEN Append(left[n - 1], list[n]) ELSE left[n - 1]
  IN  left[Len(list)]

-----------------------------------------------------------------------------
(* The daemon.                                                             *)

Query(kind, name, interface) == [kind |-> kind, name |-> name, interface |-> interface]
Browse == Query("browse", "any", "any")

Offer(name, host) == [name |-> name, host |-> host, txt |-> 0]
Offers(name) == {registered[id] : id \in {i \in DOMAIN registered : registered[i].name = name}}
Offered == {o.name : o \in Range(registered)}

\* What the daemon would say to a query, and how it says what is different.
Truth(query) ==
  CASE query.kind = "browse" -> Offered \X up
    [] query.kind = "resolve" -> IF query.interface \in up THEN Offers(query.name) ELSE {}
    [] OTHER -> {{address[queries[query].host]}}

Reply(query, what, add) == [query |-> query, what |-> what, add |-> add]

\* A service that is gone is not told to who resolves it.
Answer(query) ==
  /\ LET heard == queries[query].told
     IN  \E what \in Truth(query) \cup heard :
           /\ what \in heard => what \notin Truth(query) /\ query.kind # "resolve"
           /\ replies' = Append(replies, Reply(query, what, what \notin heard))
           /\ queries' = [queries EXCEPT ![query].told = IF query.kind = "resolve" THEN {what}
                                                         ELSE IF what \in heard THEN @ \ {what} ELSE @ \cup {what}]
  /\ UNCHANGED <<network, told, services, attempts, stale>>

\* kDNSServiceErr_Timeout
AddressTimeout(query) ==
  /\ query.kind = "address" /\ changes > 0 /\ queries[query].told # {}
  /\ changes' = changes - 1
  /\ replies' = Append(replies, Reply(query, {}, FALSE))
  /\ queries' = [queries EXCEPT ![query].told = Truth(query)]
  /\ stale' = stale \cup {Offer(query.name, NoHost)}
  /\ UNCHANGED <<registered, nextId, up, address, told, services, attempts>>

\* DNSServiceRefDeallocate of the queries that are not kept.
Kept(kept) == [q \in DOMAIN queries \cap kept |-> queries[q]]
Unanswered(kept) == Only(Tail(replies), {r \in Range(replies) : r.query \in kept})

-----------------------------------------------------------------------------
(* The advertiser, the interfaces and the hosts.                           *)

Change == changes > 0 /\ changes' = changes - 1 /\ UNCHANGED browser

\* register_service
Register(name, host) ==
  /\ Change /\ UNCHANGED told
  /\ name \notin Offered
  /\ registered' = Put(registered, nextId, Offer(name, host))
  /\ nextId' = nextId + 1
  /\ UNCHANGED <<up, address, stale>>

Withdrawn(offer) == IF offer.name \in DOMAIN services THEN stale \cup {offer} ELSE stale

\* unregister_service
Unregister(id) ==
  /\ Change /\ UNCHANGED told
  /\ registered' = [i \in DOMAIN registered \ {id} |-> registered[i]]
  /\ stale' = Withdrawn(registered[id])
  /\ UNCHANGED <<nextId, up, address>>

\* update_txt_record; for an unknown id it throws.
UpdateTxtRecord(id) ==
  /\ Change /\ UNCHANGED told
  /\ id \in DOMAIN registered
  /\ registered' = [registered EXCEPT ![id].txt = @ + 1]
  /\ stale' = Withdrawn(registered[id])
  /\ UNCHANGED <<nextId, up, address>>

InterfaceChange(interface) ==
  /\ Change /\ UNCHANGED told
  /\ up' = IF interface \in up THEN up \ {interface} ELSE up \cup {interface}
  /\ UNCHANGED <<registered, nextId, address, stale>>

AddressChange(host) ==
  /\ Change /\ UNCHANGED told
  /\ address' = [address EXCEPT ![host] = @ + 1]
  /\ UNCHANGED <<registered, nextId, up, stale>>

-----------------------------------------------------------------------------
(* The subscribers of the RAVENNA browser.                                 *)

\* SubscriberList::add and remove
AddSubscriber(list, s) == IF s \in Range(list) THEN list ELSE Append(list, s)
RemoveSubscriber(list, s) == Only(list, Range(list) \ {s})

\* ravenna_session_discovered and ravenna_session_removed of every subscriber
Discovered(name, description) ==
  [s \in Subscribers |-> IF s \in Range(subscribers) THEN Put(known[s], name, description) ELSE known[s]]
Forgotten(names) ==
  [s \in Subscribers |-> IF s \in Range(subscribers) THEN Restrict(known[s], DOMAIN known[s] \ names) ELSE known[s]]

Resolved == {name \in DOMAIN services : services[name].host # NoHost}
Description(service) == [host |-> service.host, txt |-> service.txt]

\* Mutant of Subscribe: all services are told.
SubscribeToAll(s) ==
  /\ s \notin Range(subscribers)
  /\ subscribers' = AddSubscriber(subscribers, s)
  /\ known' = [known EXCEPT ![s] = [name \in DOMAIN services |-> Description(services[name])]]
  /\ UNCHANGED <<network, browser, enabled, stale>>

\* subscribe: who comes late is told what the others know.
Subscribe(s) ==
  /\ s \notin Range(subscribers)
  /\ subscribers' = AddSubscriber(subscribers, s)
  /\ known' = [known EXCEPT ![s] = [name \in Resolved |-> Description(services[name])]]
  /\ UNCHANGED <<network, browser, enabled, stale>>

\* unsubscribe: from then on a subscriber does not know anything.
Unsubscribe(s) ==
  /\ s \in Range(subscribers)
  /\ subscribers' = RemoveSubscriber(subscribers, s)
  /\ known' = [known EXCEPT ![s] = <<>>]
  /\ Change
  /\ UNCHANGED <<registered, nextId, up, address, enabled, stale>>

\* set_session_browsing_enabled, with browse_for
SetSessionBrowsingEnabled ==
  /\ enabled' = ~enabled
  /\ queries' = IF enabled THEN <<>> ELSE Put(<<>>, Browse, [told |-> {}, host |-> NoHost])
  /\ replies' = <<>> /\ services' = <<>> /\ attempts' = 0
  /\ known' = IF enabled THEN Forgotten(Resolved) ELSE known
  /\ changes > 0 /\ changes' = changes - 1
  /\ UNCHANGED <<registered, nextId, up, address, subscribers, stale>>

-----------------------------------------------------------------------------
(* The browser.                                                            *)

NewService == [host |-> NoHost, txt |-> 0, interfaces |-> <<>>]

\* resolve_on_interface
ResolveOnInterface(name, interface) ==
  LET query == Query("resolve", name, interface)
  IN  queries' = IF query \in DOMAIN queries THEN queries ELSE Put(queries, query, [told |-> {}, host |-> NoHost])

\* browse_reply for a service that is there on an interface
ServiceAdded(name, interface) ==
  LET service == IF name \in DOMAIN services THEN services[name] ELSE NewService
  IN  /\ services' = Put(services, name, [service EXCEPT
                        !.interfaces = IF Query("resolve", name, interface) \in DOMAIN queries \/ interface \in DOMAIN @
                                       THEN @ ELSE Put(@, interface, {})])
      /\ ResolveOnInterface(name, interface)
      /\ stale' = IF name \in DOMAIN services THEN stale ELSE {o \in stale : o.name # name}
      /\ replies' = Tail(replies)
      /\ UNCHANGED known

Of(name, interface) == {Query("resolve", name, interface), Query("address", name, interface)}

\* Mutant of RemoveInterface: the query that resolves the service stays.
RemoveInterfaceKeepsResolver(name, interface) ==
  LET kept == DOMAIN queries \ {Query("address", name, interface)}
  IN  /\ services' = [services EXCEPT ![name].interfaces = Restrict(@, DOMAIN @ \ {interface})]
      /\ queries' = Kept(kept)
      /\ replies' = Unanswered(kept)

\* remove_interface
RemoveInterface(name, interface) ==
  LET kept == DOMAIN queries \ Of(name, interface)
  IN  /\ services' = [services EXCEPT ![name].interfaces = Restrict(@, DOMAIN @ \ {interface})]
      /\ queries' = Kept(kept)
      /\ replies' = Unanswered(kept)

\* browse_reply for a service that is gone from an interface, the last one or not
ServiceRemoved(name, interface) ==
  /\ IF DOMAIN services[name].interfaces \ {interface} # {}
     THEN RemoveInterface(name, interface) /\ UNCHANGED known
     ELSE LET kept == {q \in DOMAIN queries : q.name # name}
          IN  /\ services' = Restrict(services, DOMAIN services \ {name})
              /\ queries' = Kept(kept)
              /\ replies' = Unanswered(kept)
              /\ known' = Forgotten({name})
  /\ UNCHANGED stale

\* resolve_callback: a query for addresses that is already there stays, for the
\* host that was resolved before.
ServiceResolved(name, interface, offer) ==
  LET service == [services[name] EXCEPT !.host = offer.host, !.txt = offer.txt]
      query == Query("address", name, interface)
  IN  /\ services' = [services EXCEPT ![name] = service]
      /\ known' = Discovered(name, Description(service))
      /\ queries' = IF query \in DOMAIN queries THEN queries
                    ELSE Put(queries, query, [told |-> {}, host |-> offer.host])
      /\ replies' = Tail(replies)
      /\ UNCHANGED stale

\* get_addr_info_callback: an address that is gone comes in the same way as one
\* that is there, and is added.
AddressReply(name, interface, what) ==
  /\ IF what = {}
     THEN /\ queries' = Kept(DOMAIN queries \ {Query("address", name, interface)})
          /\ replies' = Unanswered(DOMAIN queries')
          /\ UNCHANGED services
     ELSE /\ services' = [services EXCEPT ![name].interfaces[interface] = @ \cup what]
          /\ replies' = Tail(replies)
          /\ UNCHANGED queries
  /\ UNCHANGED <<known, stale>>

\* async_process_results, when the daemon has something to say
ProcessResults ==
  /\ attempts <= MaxAttempts
  /\ replies # <<>>
  /\ attempts' = 0
  /\ LET reply == Head(replies)
         query == reply.query
     IN  CASE query.kind = "browse" /\ reply.add -> ServiceAdded(reply.what[1], reply.what[2])
           [] query.kind = "browse" /\ ~reply.add -> ServiceRemoved(reply.what[1], reply.what[2])
           [] query.kind = "resolve" -> ServiceResolved(query.name, query.interface, reply.what)
           [] query.kind = "address" -> AddressReply(query.name, query.interface, reply.what)
  /\ UNCHANGED <<network, subscribers, enabled>>

\* async_process_results, when DNSServiceProcessResult fails: after too many times
\* in a row it is not called again.
ProcessFails ==
  /\ enabled /\ attempts <= MaxAttempts
  /\ attempts' = attempts + 1
  /\ changes > 0 /\ changes' = changes - 1
  /\ UNCHANGED <<registered, nextId, up, address, queries, replies, services, told, stale>>

DnsInit ==
  /\ registered = <<>> /\ nextId = 1 /\ up = Interfaces /\ address = [h \in Hosts |-> 0]
  /\ queries = <<>> /\ replies = <<>> /\ services = <<>> /\ attempts = 0
  /\ subscribers = <<>> /\ known = [s \in Subscribers |-> <<>>] /\ enabled = FALSE
  /\ stale = {} /\ changes = MaxChanges

DnsNext ==
  \/ \E name \in Names, host \in Hosts : Register(name, host)
  \/ \E id \in DOMAIN registered : Unregister(id) \/ UpdateTxtRecord(id)
  \/ \E interface \in Interfaces : InterfaceChange(interface)
  \/ \E host \in Hosts : AddressChange(host)
  \/ \E query \in DOMAIN queries : Answer(query) \/ AddressTimeout(query)
  \/ \E s \in Subscribers : Subscribe(s) \/ Unsubscribe(s)
  \/ SetSessionBrowsingEnabled
  \/ ProcessResults
  \/ ProcessFails

DnsSpec == DnsInit /\ [][DnsNext]_dnsVars

-----------------------------------------------------------------------------

\* All subscribers of the RAVENNA browser know the same: the sessions that are
\* resolved, as they were described last.  Whoever subscribes late, while sessions
\* are half found, or when browsing is switched off and on, misses nothing and
\* keeps nothing.
SubscribersKnowSessions ==
  \A s \in Range(subscribers) : known[s] = [name \in Resolved |-> Description(services[name])]

\* Nothing is on its way to the browser.
Quiet ==
  /\ enabled /\ replies = <<>> /\ attempts <= MaxAttempts
  /\ \A query \in DOMAIN queries :
       Truth(query) = queries[query].told \/ (query.kind = "resolve" /\ Truth(query) = {})

\* When everything is said, the browser has the services that are advertised, on
\* the interfaces where they are heard, with their last host and TXT record, and
\* the address of the host; whatever appeared, disappeared and came back in the
\* meantime.  Two things may be old: the host and TXT record, when an offer came
\* back that was withdrawn before (what another one said in between on an interface
\* that has gone stays), and the address, when the service moved to another host
\* (the query for the address stays that of the first) or the query timed out.
BrowserSeesAdvertised ==
  Quiet =>
    /\ DOMAIN services = IF up = {} THEN {} ELSE Offered
    /\ \A name \in DOMAIN services :
         LET service == services[name]
         IN  /\ \A o \in Offers(name) \ stale : service.host = o.host /\ service.txt = o.txt
             /\ DOMAIN service.interfaces = up
             /\ (\A o \in stale : o.name = name => o.host = service.host) => \A i \in up : address[service.host] \in service.interfaces[i]

\* What is advertised reaches the browser, and through it the subscribers.
DiscoveryIsCurrent == BrowserSeesAdvertised /\ SubscribersKnowSessions
=============================================================================
