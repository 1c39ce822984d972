--------------------------- MODULE TelemetryReads ---------------------------
(***************************************************************************)
(* What the reads of services/telemetry.cpp answer once the session is     *)
(* accepted, and which answers the telemetry plugin takes for a value      *)
(* (telemetry_services.cpp).  The game's memory holds the thing read       *)
(* whole, more of it than the caller's array takes, nothing of it, or      *)
(* something that does not have the expected shape.                        *)
(***************************************************************************)

Shapes == {"whole", "more", "absent", "malformed"}

Answer(shape, absent, malformed, more) ==
    CASE shape = "whole" -> "success" [] shape = "absent" -> absent
      [] shape = "malformed" -> malformed [] shape = "more" -> more

(***************************************************************************)
(* telemetry_observation_api: room is left in the session's table of       *)
(* opaque identities, known: the handle asked about is in it.              *)
(***************************************************************************)
ReadObservationWorld(s) == Answer(s, "unavailable", "unavailable", "unavailable")
ReadObservationMarket(s) == Answer(s, "unavailable", "unavailable", "truncated")
ResolveObservationDailyCountry(s) == Answer(s, "unavailable", "invalid", "unavailable")
ReadObservationCountry(s) == Answer(s, "unavailable", "unavailable", "unavailable")
ReadObservationProvince(s) == Answer(s, "unavailable", "unavailable", "unavailable")
ReadObservationRgo(s) == Answer(s, "unavailable", "unavailable", "unavailable")
ReadObservationCountryEconomy(s) == Answer(s, "unavailable", "invalid", "truncated")

ReadObservationPops(s, room) ==
    IF s \in {"whole", "more"} /\ ~room THEN "capacity" ELSE Answer(s, "unavailable", "invalid", "truncated")
ReadObservationFactories(s, room) ==
    IF s \in {"whole", "more"} /\ ~room THEN "capacity" ELSE Answer(s, "unavailable", "invalid", "truncated")

ObservationPop(known, answer) == IF known THEN answer ELSE "stale"
ReadObservationPopIdentity(s, known) ==
    ObservationPop(known, Answer(s, "invalid", "invalid", "invalid"))
ReadObservationPopNeeds(s, known) ==
    ObservationPop(known, Answer(s, "invalid", "invalid", "invalid"))
ReadObservationArtisan(s, known) ==      \* absent: an artisan that produces nothing
    ObservationPop(known, Answer(s, "success", "invalid", "truncated"))

(***************************************************************************)
(* telemetry_game_api: the first version, whose POPs and factories stop at *)
(* the caller's capacity and succeed, with flags the caller may read.      *)
(***************************************************************************)
ReadWorld(s) == Answer(s, "unavailable", "unavailable", "unavailable")
ReadMarket(s) == Answer(s, "unavailable", "unavailable", "unavailable")
ReadCountry(s) == Answer(s, "unavailable", "unavailable", "unavailable")
ReadProvince(s) == Answer(s, "unavailable", "unavailable", "unavailable")
ReadPops(s) == Answer(s, "unavailable", "unavailable", "success")
ReadFactories(s) == Answer(s, "unavailable", "unavailable", "success")

GameReads == {"ReadWorld", "ReadMarket", "ReadCountry", "ReadProvince", "ReadPops", "ReadFactories"}
Reads == GameReads \cup
    {"World", "Market", "DailyCountry", "Country", "Province", "Rgo", "CountryEconomy", "Pops", "Factories",
     "PopIdentity", "PopNeeds", "Artisan"}

Reading(read, s, room, known) ==
    CASE read = "World" -> ReadObservationWorld(s)
      [] read = "Market" -> ReadObservationMarket(s)
      [] read = "DailyCountry" -> ResolveObservationDailyCountry(s)
      [] read = "Country" -> ReadObservationCountry(s)
      [] read = "Province" -> ReadObservationProvince(s)
      [] read = "Rgo" -> ReadObservationRgo(s)
      [] read = "CountryEconomy" -> ReadObservationCountryEconomy(s)
      [] read = "Pops" -> ReadObservationPops(s, room)
      [] read = "Factories" -> ReadObservationFactories(s, room)
      [] read = "PopIdentity" -> ReadObservationPopIdentity(s, known)
      [] read = "PopNeeds" -> ReadObservationPopNeeds(s, known)
      [] read = "Artisan" -> ReadObservationArtisan(s, known)
      [] read = "ReadWorld" -> ReadWorld(s)
      [] read = "ReadMarket" -> ReadMarket(s)
      [] read = "ReadCountry" -> ReadCountry(s)
      [] read = "ReadProvince" -> ReadProvince(s)
      [] read = "ReadPops" -> ReadPops(s)
      [] read = "ReadFactories" -> ReadFactories(s)

(***************************************************************************)
(* Api::Read...: only a success is a value, and not an artisan at rest.    *)
(***************************************************************************)
Accepts(read, shape, answer) == answer = "success" /\ ~(read = "Artisan" /\ shape = "absent")
=============================================================================
