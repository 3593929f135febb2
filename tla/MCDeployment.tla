----------------------------- MODULE MCDeployment -----------------------------
EXTENDS Deployment
===============================================================================
