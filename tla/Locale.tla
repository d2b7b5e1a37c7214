-------------------------------- MODULE Locale --------------------------------
(***************************************************************************)
(* The locales of a process (locale/src/locale.cc): a map from domains to  *)
(* locales that get_locale fills and clear_domain empties, in any thread   *)
(* and without a lock.  This module gives the steps; a module that uses    *)
(* them says when they are taken.                                          *)
(***************************************************************************)
EXTENDS FiniteSets, Naturals

CONSTANTS
  Thread,
  Domain,     \* the message domains
  Id          \* the locale ids

ASSUME IdAssumption == Id \cap {"none", "classic"} = {}

VARIABLES
  invalid,    \* the ids for which generating a locale gives a conversion_error:
              \* none, or, where the system's encoding is at fault, all
  locales,    \* g_locales
  inside,     \* what each thread is doing with the map
  torn,       \* two threads were in the map at once, one of them changing it
  returned    \* of each domain: the locales returned since it was cleared

localeVars == <<invalid, locales, inside, torn, returned>>

NoLocale == [id |-> "none", paths |-> {}]
Classic == [id |-> "classic", paths |-> {}]

LocaleInit ==
  /\ invalid \in {{}, Id}
  /\ locales = [d \in Domain |-> NoLocale]
  /\ inside = [t \in Thread |-> "outside"]
  /\ torn = FALSE
  /\ returned = [d \in Domain |-> {}]

\* A thread starts to read or to change the map.
Enter(t, how) ==
  /\ inside' = [inside EXCEPT ![t] = how]
  /\ torn' = (torn \/ \E u \in Thread \ {t} :
                        inside[u] # "outside" /\ "changing" \in {how, inside[u]})
  /\ UNCHANGED <<invalid, locales, returned>>

Leave(t) == inside' = [inside EXCEPT ![t] = "outside"] /\ UNCHANGED <<invalid, torn>>

Returns(d, locale) == returned' = [returned EXCEPT ![d] = @ \cup {locale}]

\* The locale that the generator makes, with the paths of this request only.
\* When it cannot, the classic one is cached in its place.
Generated(request) ==
  IF request.id \in invalid THEN Classic ELSE [id |-> request.id, paths |-> request.paths]

Has(d) == locales[d] # NoLocale

\* map::find
FindIn(t, d) ==
  /\ Leave(t)
  /\ IF Has(d) THEN Returns(d, locales[d]) ELSE UNCHANGED returned
  /\ UNCHANGED locales

Overwritten(d, locale) == locale
\* map::insert keeps the locale that another thread has put there meanwhile.
Kept(d, locale) == IF Has(d) THEN locales[d] ELSE locale

GoodOnly(locale) == locale # Classic
\* Both the generated locale and the classic one are added.
Cached(locale) == TRUE

InsertInto(t, d, request) ==
  LET locale == Kept(d, Generated(request)) IN
  /\ Leave(t)
  /\ locales' = IF Cached(locale) THEN [locales EXCEPT ![d] = locale] ELSE locales
  /\ Returns(d, locale)

\* clear_domain
EraseFrom(t, d) ==
  /\ Leave(t)
  /\ locales' = [locales EXCEPT ![d] = NoLocale]
  /\ returned' = [returned EXCEPT ![d] = {}]

LocaleOK ==
  /\ invalid \subseteq Id /\ torn \in BOOLEAN
  /\ inside \in [Thread -> {"outside", "reading", "changing"}]
  /\ \A d \in Domain : locales[d].id \in Id \cup {"none", "classic"}

\* Whoever asks for the locale of a domain gets the same one until the domain
\* is cleared ("it returns the same locale until clear_domain is called for
\* that domain"), also threads of which each generated one of its own, for
\* different ids and paths.
SameLocale == ~torn => \A d \in Domain : Cardinality(returned[d]) <= 1
=============================================================================
