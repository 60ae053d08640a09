----------------------------- MODULE MCInstaller -----------------------------
\* An instance of Installer for TLC: the upload and the URL are one addon version.
EXTENDS Installer

CONSTANTS addon, package

MCPlaceOf ==
  [i \in Items |-> IF i \in Addons THEN addon ELSE package]
=============================================================================
