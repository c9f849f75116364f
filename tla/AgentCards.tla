----------------------------- MODULE AgentCards -----------------------------
(***************************************************************************)
(* card.rs, agent_registry.rs: what an Agent Card and a Registry           *)
(* descriptor allow the client to call.  Pure: every operator maps a card  *)
(* to the place that may be called, or to the error that refuses it.       *)
(*                                                                         *)
(* A card is abstracted to what the parsers decide on.  A URL is its place *)
(* relative to the granted endpoint: the "endpoint" itself, another URL of *)
(* the same "origin", the literal "wildcard" host with the endpoint's path *)
(* and query, the wildcard host with another path ("bind"), a "foreign"    *)
(* origin, or text that is "bad" as an endpoint.                           *)
(***************************************************************************)
EXTENDS Naturals, Sequences, FiniteSets

CardPlaces == {"endpoint", "origin", "wildcard", "bind", "foreign", "bad"}
Errors == {"InvalidCard", "UnsupportedCard", "CrossOrigin"}

\* What a card says: its adapter, the first flaw of its required fields, its
\* alternative authentication requirements and its interfaces in order.
Cards(maxInterfaces) ==
    [version : {"v1", "v03", "other"},
     flaw : {"none", "malformed", "extension", "modes"},
     security : {{}, {"open", "other"}, {"bearer"}, {"key"}, {"bearer", "key"}, {"other"}},
     interfaces : UNION {[1 .. n -> [known : BOOLEAN, at : CardPlaces]] : n \in 0 .. maxInterfaces}]

FieldError(card) ==
    IF card.flaw = "malformed" THEN "InvalidCard" ELSE "UnsupportedCard"

\* Requirements are alternatives: one that is empty, or one that the Bearer
\* token satisfies, is enough.
SecurityMet(card, token) ==
    \/ card.security = {}
    \/ "open" \in card.security
    \/ token /\ "bearer" \in card.security

KnownInterfaces(card) == {i \in DOMAIN card.interfaces : card.interfaces[i].known}
\* The first interface with a known binding decides, whatever follows it.
FirstKnown(card) ==
    card.interfaces[CHOOSE i \in KnownInterfaces(card) :
                        \A j \in KnownInterfaces(card) : i <= j].at

InterfaceError(place) == IF place = "bad" THEN "InvalidCard" ELSE "CrossOrigin"

\* parse_interface_url: any URL of the origin the card was fetched from.
OwnInterface(card) ==
    IF KnownInterfaces(card) = {} THEN "UnsupportedCard"
    ELSE IF FirstKnown(card) \in {"endpoint", "origin"} THEN FirstKnown(card)
    ELSE InterfaceError(FirstKnown(card))

\* The v0.3 adapter knows no extensions and looks at the output modes last.
ParseV03(card, token) ==
    IF card.flaw = "malformed" THEN "InvalidCard"
    ELSE IF ~SecurityMet(card, token) THEN "UnsupportedCard"
    ELSE IF OwnInterface(card) \in Errors \/ card.flaw # "modes" THEN OwnInterface(card)
    ELSE "UnsupportedCard"

ParseV1(card, token) ==
    IF card.flaw # "none" THEN FieldError(card)
    ELSE IF ~SecurityMet(card, token) THEN "UnsupportedCard"
    ELSE IF card.interfaces = <<>> THEN "InvalidCard"
    ELSE OwnInterface(card)

\* parse_agent_card: the place that may be called, or an error.
ParseCard(card, token) ==
    CASE card.version = "v1" -> ParseV1(card, token)
      [] card.version = "v03" -> ParseV03(card, token)
      [] OTHER -> "UnsupportedCard"

\* Compatibility tolerates cards that demand exactly the X-API-Key header.
KeyOnly(card) == card.security # {} /\ card.security \subseteq {"key"}
RegistrySecurityMet(card) ==
    card.security = {} \/ "open" \in card.security \/ KeyOnly(card)

\* Mutant: any URL of the descriptor's origin is called as advertised.
RegistryInterfaceOfOrigin(place) ==
    CASE place \in {"endpoint", "wildcard"} -> "endpoint"
      [] place = "origin" -> "origin"
      [] OTHER -> InterfaceError(place)

\* parse_registry_v1_interface: the wildcard host stands for the descriptor's.
RegistryInterface(place) ==
    CASE place \in {"endpoint", "wildcard"} -> "endpoint"
      [] place = "origin" -> "UnsupportedCard"
      [] OTHER -> InterfaceError(place)

ParseRegistryV1(card) ==
    IF card.flaw # "none" THEN FieldError(card)
    ELSE IF ~RegistrySecurityMet(card) THEN "UnsupportedCard"
    ELSE IF card.interfaces = <<>> THEN "InvalidCard"
    ELSE IF KnownInterfaces(card) = {} THEN "UnsupportedCard"
    ELSE RegistryInterface(FirstKnown(card))

\* parse_registry_agent_card: the strict parser first, compatibility only for
\* a v1 card it refuses.
StrictlyParsed(card) == ParseCard(card, FALSE) \notin Errors
ParseRegistryCard(card) ==
    IF StrictlyParsed(card)
    THEN IF ParseCard(card, FALSE) = "endpoint" THEN "endpoint" ELSE "UnsupportedCard"
    ELSE IF card.version # "v1" THEN ParseCard(card, FALSE)
    ELSE ParseRegistryV1(card)

\* Descriptors: what agent-registry lists and returns for a Resource URI.
Resources ==
    [listed : {0, 1, 2}, contents : {0, 1, 2},
     json : BOOLEAN, uris : BOOLEAN, identity : BOOLEAN,
     anonymous : BOOLEAN, endpoint : {"public", "private"}]

\* parse_registry_agent_descriptor: one listing, one JSON text, one identity.
DescriptorAccepted(r) ==
    /\ r.listed = 1
    /\ r.contents = 1
    /\ r.json
    /\ r.uris
    /\ r.identity
    /\ r.anonymous
    /\ r.endpoint = "public"
=============================================================================
