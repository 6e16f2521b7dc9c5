--------------------------- MODULE ParsleyMessages ---------------------------
(***************************************************************************)
(* Parsley's catalog of error messages: what its language files load,      *)
(* what a page adds, and which message a failed check shows.  Any number   *)
(* of files is loaded in any order.  Of a message only its language        *)
(* matters here, and of the messages for `type` the types they cover.      *)
(***************************************************************************)
EXTENDS Naturals, FiniteSets

CONSTANTS Nil,
          Files,    \* the files a page chooses from
          MaxLoads  \* bound on the files loaded

\* What is in the files: messages for the checks Parsley brings, or for those
\* of its further files; the first kind also sets the locale.
Types == {"email", "url", "number", "integer", "digits", "alphanum"}
Bundled == {"defaultMessage", "type", "notblank", "required", "pattern", "min", "max", "range",
            "minlength", "maxlength", "length", "mincheck", "maxcheck", "check", "equalto"}
Date == {"dateiso"}
Further == Date \cup {"minwords", "maxwords", "words", "gt", "gte", "lt", "lte", "notequalto"}
Main(locale, names) == [locale |-> locale, names |-> names, sets |-> locale]
Extra(locale, names) == [locale |-> locale, names |-> names, sets |-> Nil]

Al == Main("al", Bundled)
Ar == Main("ar", Bundled)
Bg == Main("bg", Bundled)
Ca == Main("ca", Bundled)
Cs == Main("cs", Bundled)
Da == Main("da", Bundled)
De == Main("de", Bundled)
El == Main("el", Bundled)
En == Main("en", Bundled)
Es == Main("es", Bundled)
Et == Main("et", Bundled)
Eu == Main("eu", Bundled)
Fa == Main("fa", Bundled)
Fi == Main("fi", Bundled)
Fr == Main("fr", Bundled)
He == Main("he", Bundled)
Hr == Main("hr", Bundled)
Hu == Main("hu", Bundled)
Id == Main("id", Bundled)
It == Main("it", Bundled)
Ja == Main("ja", Bundled)
Ko == Main("ko", Bundled)
Lt == Main("lt", Bundled)
Lv == Main("lv", Bundled)
Ms == Main("ms", Bundled)
Nl == Main("nl", Bundled \ {"check", "maxcheck", "mincheck"})
No == Main("no", Bundled)
Pl == Main("pl", Bundled)
PtBr == Main("pt-br", Bundled)
PtPt == Main("pt-pt", Bundled)
Ro == Main("ro", Bundled)
Ru == Main("ru", Bundled)
Sk == Main("sk", Bundled)
Sl == Main("sl", Bundled)
Sq == Main("sq", Bundled)
Sr == Main("sr", Bundled)
Sv == Main("sv", Bundled)
Th == Main("th", Bundled)
Tr == Main("tr", Bundled)
Ua == Main("ua", Bundled)
Uk == Main("uk", Bundled)
ZhCn == Main("zh-cn", Bundled)
ZhTw == Main("zh-tw", Bundled)
CsExtra == Extra("cs", Further \ {"notequalto"})
DeExtra == Extra("de", Further \ {"notequalto"})
ElExtra == Extra("el", Further)
EnExtra == Extra("en", Further)
FiExtra == Extra("fi", Date)
FrExtra == Extra("fr", Further)
HeExtra == Extra("he", Date)
HrExtra == Extra("hr", Further)
HuExtra == Extra("hu", Further)
IdExtra == Extra("id", Date)
ItExtra == Extra("it", Date)
JaExtra == Extra("ja", Further)
LtExtra == Extra("lt", Further)
LvExtra == Extra("lv", Further)
MsExtra == Extra("ms", Further \ {"notequalto"})
NlExtra == Extra("nl", Further \ {"gte", "lte", "notequalto"})
RoExtra == Extra("ro", Further)
RuExtra == Extra("ru", Further)
SkExtra == Extra("sk", Further \ {"notequalto"})
SlExtra == Extra("sl", Further)
SrExtra == Extra("sr", Further)
SvExtra == Extra("sv", Date)
UaExtra == Extra("ua", Further)
UkExtra == Extra("uk", Further \ {"gt", "gte", "lt", "lte", "notequalto"})
ZhCnExtra == Extra("zh-cn", Date)

AllFiles ==
    {Al, Ar, Bg, Ca, Cs, Da, De, El, En, Es, Et, Eu, Fa, Fi, Fr, He, Hr, Hu, Id, It, Ja,
     Ko, Lt, Lv, Ms, Nl, No, Pl, PtBr, PtPt, Ro, Ru, Sk, Sl, Sq, Sr, Sv, Th, Tr, Ua, Uk,
     ZhCn, ZhTw, CsExtra, DeExtra, ElExtra, EnExtra, FiExtra, FrExtra, HeExtra, HrExtra,
     HuExtra, IdExtra, ItExtra, JaExtra, LtExtra, LvExtra, MsExtra, NlExtra, RoExtra,
     RuExtra, SkExtra, SlExtra, SrExtra, SvExtra, UaExtra, UkExtra, ZhCnExtra}
-----------------------------------------------------------------------------
VARIABLES catalog,  \* locale -> Nil or its messages by name
          locale,   \* the locale in effect
          loads,    \* the files whose messages are in the catalog
          spoken    \* history: the language of the last file or call that set the locale

vars == <<catalog, locale, loads, spoken>>

Names == Bundled \cup Further
Locales == { f.locale : f \in Files } \cup {"en"}
Text(language, name, types) == [language |-> language, name |-> name, types |-> types]
Covered(name, types) == IF name = "type" THEN types ELSE {}
None == [n \in Names |-> Nil]
Messages(l) == IF catalog[l] = Nil THEN None ELSE catalog[l]

\* addMessages: one by one into the locale's messages, which are made if there
\* are none; a text replaces the one of that name, that of `type` as a whole.
AddMessages(l, names, types) ==
    [catalog EXCEPT ![l] =
       [n \in Names |-> IF n \in names THEN Text(l, n, Covered(n, types))
                        ELSE Messages(l)[n]]]

\* A language file; its setLocale never throws, the catalog being there by then.
Load(f) ==
    /\ Cardinality(loads) < MaxLoads
    /\ f \notin loads
    /\ loads' = loads \cup {f}
    /\ catalog' = AddMessages(f.locale, f.names, Types)
    /\ locale' = IF f.sets = Nil THEN locale ELSE f.sets
    /\ spoken' = IF f.sets = Nil THEN spoken ELSE f.locale

\* A page's own addMessage.
AddMessage(l, name, types) ==
    /\ catalog' = AddMessages(l, {name}, types)
    /\ UNCHANGED <<locale, loads, spoken>>

\* setLocale throws, and changes nothing, if the catalog has no such locale.
SetLocale(l) ==
    /\ catalog[l] # Nil
    /\ locale' = l /\ spoken' = l
    /\ UNCHANGED <<catalog, loads>>

\* addCatalog replaces all messages of the locale, those of an extra file too.
AddCatalog(f, set) ==
    LET l == f.locale IN
    /\ Cardinality(loads) < MaxLoads
    /\ catalog' = [catalog EXCEPT ![l] = [n \in Names |->
                     IF n \in f.names THEN Text(l, n, Covered(n, Types)) ELSE Nil]]
    /\ locale' = IF set THEN l ELSE locale
    /\ spoken' = IF set THEN l ELSE spoken
    /\ loads' = { g \in loads : g.locale # l } \cup {f}

-----------------------------------------------------------------------------
\* getErrorMessage for a failed check: its own message, that of a type by the
\* type asked for, or the locale's default, or the English one.
Checks == { [name |-> n, type |-> Nil] : n \in Names \ {"defaultMessage", "type"} }
          \cup { [name |-> "type", type |-> t] : t \in Types \cup {"date", "range"} }
OwnMessage(check) ==
    LET text == catalog[locale][check.name]
    IN  IF text # Nil /\ check.name = "type" /\ check.type \notin text.types THEN Nil ELSE text
ErrorMessage(check) ==
    IF OwnMessage(check) # Nil THEN OwnMessage(check)
    ELSE IF catalog[locale]["defaultMessage"] # Nil THEN catalog[locale]["defaultMessage"]
    ELSE catalog["en"]["defaultMessage"]

\* parsley.js itself adds the messages of en.js and sets that locale.
Init ==
    /\ catalog = [l \in Locales |-> IF l = "en" THEN [n \in Names |->
                    IF n \in Bundled THEN Text("en", n, Covered(n, Types)) ELSE Nil]
                  ELSE Nil]
    /\ locale = "en" /\ spoken = "en" /\ loads = {}

Next ==
    \/ \E f \in Files : Load(f)
    \/ \E l \in Locales : SetLocale(l)
    \/ AddMessage(locale, "type", {"email"}) \/ AddMessage(locale, "required", {})
    \/ \E f \in Files, set \in BOOLEAN : f.sets # Nil /\ AddCatalog(f, set)

Spec == Init /\ [][Next]_vars
-----------------------------------------------------------------------------
TypeOK ==
    /\ locale \in Locales /\ loads \subseteq Files
    /\ \A l \in Locales : catalog[l] # Nil =>
         \A n \in Names : catalog[l][n] # Nil => catalog[l][n].language \in Locales

\* Whatever files are loaded and in whatever order, a failed check is never
\* without a message; and once the language asked for last has a default, every
\* message is in that language, those of checks only other files know included.
MessageIsSpoken ==
    \A check \in Checks :
      /\ ErrorMessage(check) # Nil
      /\ catalog[spoken]["defaultMessage"] # Nil => ErrorMessage(check).language = spoken

\* A check that a file in effect has a message for shows it and not a default:
\* neither the file loaded after it nor the one before it hides it.
OwnMessageShown ==
    \A f \in loads : f.locale = locale =>
      \A check \in Checks : check.name \in f.names \ {"type"} =>
        ErrorMessage(check).name = check.name
=============================================================================
