---------------------------- MODULE MCDockerReset ----------------------------
EXTENDS DockerReset
=============================================================================
