----------------------------- MODULE CLIStatus ------------------------------
(* The status codes of varnishd's CLI that the commands look at             *)
(* (pkg/varnishadm/const.go).                                              *)
ClisUnknown == 101
ClisOk == 200
ClisTruncated == 201
=============================================================================
