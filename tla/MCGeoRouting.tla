---------------------------- MODULE MCGeoRouting ----------------------------
(***************************************************************************)
(* Two regions, of which the application prefers one.                      *)
(***************************************************************************)
EXTENDS GeoRouting

Regions == <<"eu", "us">>
NearestFirst == <<"us", "eu">>
=============================================================================
